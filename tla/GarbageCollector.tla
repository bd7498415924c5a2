-------------------------- MODULE GarbageCollector --------------------------
(***************************************************************************)
(* The garbage collector (internal/garbage/collector.go) beside the        *)
(* workload manager.  A cycle removes resources without a workload, then   *)
(* workloads whose status has been Failed for longer than the TTL, then    *)
(* workloads whose runtime status cannot be read.  It works on the store   *)
(* and the runtimes directly and takes none of the manager's locks, so     *)
(* every call it makes is a step of its own.                               *)
(***************************************************************************)
EXTENDS WorkloadManager

CONSTANT OrphanTypes   \* the types searched for orphans: container and compose, not VM

ASSUME OrphanTypesAssumption == OrphanTypes \subseteq WType

VARIABLE gc   \* the collector's goroutine: where it stands and its local variables

GCPC ==
  {"idle", "list", "orphans_state", "orphans_delete", "failed", "failed_delete",
   "zombies", "zombies_status", "zombies_delete", "zombies_read", "zombies_write"}

gcvars == <<wl, st, res, tracker, lock, proc, crashes, vol, gc>>

\* types: runtimes still to search; type: the one being searched; ids: the
\* workloads still to handle in this phase; id: the one at hand; listed: the
\* types of the workloads as ListWorkloads returned them; msg: what Status answered; st: the
\* status that was read.
IdleGC ==
  [pc |-> "idle", types |-> {}, type |-> None, ids |-> {}, id |-> None,
   listed |-> [i \in WId |-> None], msg |-> None, st |-> None]

GCLocal ==
  [pc : GCPC, types : SUBSET WType, type : WType \cup {None}, ids : SUBSET WId,
   id : WId \cup {None}, listed : [WId -> WType \cup {None}],
   msg : Actual \cup {None}, st : Status \cup {None}]

\* The types of the variables of the manager and of the collector.
GCTypeOK == TypeOK /\ gc \in GCLocal

GCInit == Init /\ gc = IdleGC

-----------------------------------------------------------------------------
(* collect.                                                                *)

collect ==
  /\ gc.pc = "idle"
  /\ gc' = [IdleGC EXCEPT !.pc = "list", !.types = OrphanTypes \cap Registered]
  /\ UNCHANGED vars

\* rt.List of the next runtime; an error skips the runtime.
OrphansList ==
  /\ gc.pc = "list"
  /\ \/ /\ gc.types = {}
        /\ gc' = [gc EXCEPT !.pc = "failed"]
     \/ \E ty \in gc.types : \E found \in ListOutcomes(res[ty]) :
          gc' = IF found = None
                THEN [gc EXCEPT !.types = @ \ {ty}]
                ELSE [gc EXCEPT !.types = @ \ {ty}, !.type = ty, !.ids = found, !.pc = "orphans_state"]
  /\ UNCHANGED vars

\* store.ListWorkloads: what was listed and is not in the store is an orphan.
OrphansState ==
  /\ gc.pc = "orphans_state"
  /\ gc' = [gc EXCEPT !.pc = "orphans_delete", !.ids = @ \ ListWorkloads]
  /\ UNCHANGED vars

OrphansDelete ==
  /\ gc.pc = "orphans_delete"
  /\ \/ /\ gc.ids = {}
        /\ gc' = [gc EXCEPT !.pc = "list", !.type = None]
        /\ UNCHANGED res
     \/ \E i \in gc.ids :
          /\ \E o \in DeleteOutcomes(res[gc.type][i]) : res' = [res EXCEPT ![gc.type][i] = o.res]
          /\ gc' = [gc EXCEPT !.ids = @ \ {i}]
  /\ UNCHANGED <<wl, st, tracker, lock, proc, crashes, vol>>

\* store.ListStatuses: the workloads that failed longer than the TTL ago.
FailedList ==
  /\ gc.pc = "failed"
  /\ gc' = [gc EXCEPT !.pc = "failed_delete",
                      !.ids = {i \in ListStatuses : st[i].actual = "Failed" /\ st[i].age = "old"}]
  /\ UNCHANGED vars

\* store.DeleteWorkload: the managed volumes are not released, and with the
\* attachments goes what a later release would have found them by.
FailedDelete ==
  /\ gc.pc = "failed_delete"
  /\ \/ /\ gc.ids = {}
        /\ gc' = [gc EXCEPT !.pc = "zombies"]
        /\ UNCHANGED <<wl, st, vol>>
     \/ \E i \in gc.ids :
          /\ DeleteRecords(i)
          /\ gc' = [gc EXCEPT !.ids = @ \ {i}]
  /\ UNCHANGED <<res, tracker, lock, proc, crashes>>

ZombiesList ==
  /\ gc.pc = "zombies"
  /\ gc' = [gc EXCEPT !.pc = "zombies_status", !.ids = {i \in ListWorkloads : GetRuntime(wl[i].type)},
                      !.listed = [i \in WId |-> IF wl[i] = None THEN None ELSE wl[i].type]]
  /\ UNCHANGED vars

\* rt.Status of the next workload; an error of any kind makes it a zombie.
ZombiesStatus ==
  /\ gc.pc = "zombies_status"
  /\ \/ gc.ids = {} /\ gc' = IdleGC
     \/ \E i \in gc.ids : \E a \in StatusOutcomes(res[gc.listed[i]][i]) :
          gc' = IF a = "error"
                THEN [gc EXCEPT !.ids = @ \ {i}, !.id = i, !.pc = "zombies_delete"]
                ELSE [gc EXCEPT !.ids = @ \ {i}, !.id = i, !.pc = "zombies_read", !.msg = a]
  /\ UNCHANGED vars

ZombiesDelete ==
  /\ gc.pc = "zombies_delete"
  /\ DeleteRecords(gc.id)
  /\ gc' = [gc EXCEPT !.pc = "zombies_status", !.id = None]
  /\ UNCHANGED <<res, tracker, lock, proc, crashes>>

ZombiesRead ==
  /\ gc.pc = "zombies_read"
  /\ gc' = IF StoredStatus(gc.id) = None
           THEN [gc EXCEPT !.pc = "zombies_status", !.id = None, !.msg = None]
           ELSE [gc EXCEPT !.pc = "zombies_write", !.st = StoredStatus(gc.id)]
  /\ UNCHANGED vars

\* A faulty variant of WithMessage below, used only to see that a property notices.
MessageAsTime(s, msg) == [s EXCEPT !.pendingSince = msg]

\* Only the message is replaced, and with it whether Unknown means missing.
WithMessage(s, msg) ==
  IF s.actual \in {"Unknown", "Missing"}
  THEN [s EXCEPT !.actual = IF msg = "Missing" THEN "Missing" ELSE "Unknown"]
  ELSE s

ZombiesWrite ==
  /\ gc.pc = "zombies_write"
  /\ \E ok \in Write : SaveStatus(gc.id, WithMessage(gc.st, gc.msg), ok)
  /\ gc' = [gc EXCEPT !.pc = "zombies_status", !.id = None, !.msg = None, !.st = None]
  /\ UNCHANGED <<wl, res, tracker, lock, proc, crashes, vol>>

-----------------------------------------------------------------------------
GCStep ==
  \/ OrphansList \/ OrphansState \/ OrphansDelete \/ FailedList \/ FailedDelete
  \/ ZombiesList \/ ZombiesStatus \/ ZombiesDelete \/ ZombiesRead \/ ZombiesWrite

GCNext ==
  \/ (Begin \/ Step \/ Surroundings) /\ UNCHANGED gc
  \/ Crash /\ gc' = IdleGC
  \/ (PendingThresholdPasses \/ FailedTTLPasses) /\ gc' = [gc EXCEPT !.st = Waited(@)]
  \/ collect
  \/ GCStep

GCSpec == GCInit /\ [][GCNext]_gcvars

\* The runtime deletes the resource i on the collector's request.
OrphanDeleted(ty, i) == OrphansDelete /\ gc.type = ty /\ i \in gc.ids /\ res'[ty][i] = None

\* The collector's timer fires, a cycle that has begun goes on, and a delete that
\* is asked for again and again does not fail every time.
GCFairSpec ==
  /\ GCSpec
  /\ Fairness
  /\ WF_gcvars(collect)
  /\ WF_gcvars(GCStep)
  /\ \A ty \in WType, i \in WId : SF_gcvars(OrphanDeleted(ty, i))

-----------------------------------------------------------------------------
(* Properties.                                                             *)

Orphan(ty, i) == ty \in OrphanTypes /\ res[ty][i] # None /\ wl[i] = None

\* A resource that lost its workload, because a failed workload was collected or
\* because DeleteWorkload went on after the runtime had refused to delete it, is
\* removed by a later cycle unless the workload is applied again.
OrphansRemoved == \A ty \in WType, i \in WId : Orphan(ty, i) ~> ~Orphan(ty, i)

\* The zombie sweep drops a workload only when its resource does not exist.
DropsOnlyZombies ==
  [][\A i \in WId : ZombiesDelete /\ wl[i] # None /\ wl'[i] = None => res[wl[i].type][i] = None]_gcvars
=============================================================================
