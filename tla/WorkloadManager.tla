-------------------------- MODULE WorkloadManager --------------------------
(***************************************************************************)
(* The workload manager (internal/workload/manager.go) over the state      *)
(* store (internal/state/store.go), the runtimes and the retry trackers.   *)
(*                                                                         *)
(* Processes run its operations: ApplyWorkload and DeleteWorkload are      *)
(* called by the task workers and gRPC handlers, ReconcileWorkload by the  *)
(* reconcile loop, GetStatus by gRPC handlers and the heartbeat.  The      *)
(* first three hold the operation lock of their workload; GetStatus takes  *)
(* no lock.  Every call on the store or a runtime is a step of its own,    *)
(* so that the unlocked operations and a crash can come between.           *)
(*                                                                         *)
(* Left out: metrics, and the metadata that is only reported and never     *)
(* read back.                                                              *)
(***************************************************************************)
EXTENDS Runtime, RetryPolicy, Volumes, FiniteSets, Sequences

CONSTANTS
  WId,          \* workload IDs
  WType,        \* workload types
  StorageTypes, \* the types that may have managed volumes: container and VM
  VolumesOf,    \* the managed volumes in the spec of each revision
  Registered,   \* the types whose runtime was registered at start-up
  OpProc,       \* goroutines that apply and delete
  RecProc,      \* the goroutine of the reconcile loop
  GetProc,      \* goroutines that ask for a status
  Admission,    \* possible answers of the resource monitor: "ok", "full", "error"
  StoreFaults,  \* TRUE when a write to the store may fail
  Environment,  \* what else happens: a subset of {"drift", "pending", "ttl"}
  MaxCrashes    \* bound on the number of crashes

ASSUME ConfigAssumption ==
  /\ WType # {} /\ Registered \subseteq WType
  /\ StorageTypes \subseteq WType
  /\ VolumesOf \in [Rev -> Seq([vol : Vol, policy : {"delete", "retain"}])]
  /\ Admission \subseteq {"ok", "full", "error"}
  /\ IsFiniteSet(Vol)
  /\ StoreFaults \in BOOLEAN
  /\ Environment \subseteq {"drift", "pending", "ttl"}
  /\ MaxCrashes \in Nat

Proc == OpProc \cup RecProc \cup GetProc

Desired == {"Running", "Stopped"}

\* "Missing" stands for Unknown with a message that says the resource is absent.
Actual == ResourceState \cup {"Unknown", "Missing"}

\* bound: the spec names the mounts of the managed volumes.
Workload == [type : WType, rev : Rev, desired : Desired, bound : BOOLEAN]

ASSUME ProcAssumption ==
  /\ OpProc \cap RecProc = {} /\ OpProc \cap GetProc = {} /\ RecProc \cap GetProc = {}
  /\ None \notin Proc /\ None \notin Workload

\* A workload as a client sends it.
Request == {w \in Workload : ~w.bound}

\* pendingSince: the pending_since timestamp, absent, or before or past the five
\* minute threshold.  age: whether UpdatedAt is more than the failed-workload
\* TTL ago.  terminal: the retry_terminal mark.
Status ==
  [rev : Rev, desired : Desired, actual : Actual, terminal : BOOLEAN,
   pendingSince : {"none", "recent", "old"}, age : {"recent", "old"}]

PC ==
  {"idle", "apply_status", "apply_admit", "apply_reject", "apply_delete_old", "apply_save",
   "apply_initial", "apply_create", "apply_start", "apply_final", "commit",
   "vol_provision", "vol_record", "vol_attach", "vol_attachment", "vol_fail", "vol_save",
   "free_detach", "free_attachment", "free_lookup", "free_delete", "free_record",
   "trans_save", "trans_status", "trans_start", "trans_stop", "trans_recheck",
   "fail_read", "save",
   "delete_runtime", "delete_list", "delete_store",
   "rec_load", "rec_observe", "rec_delete", "rec_create", "rec_restart", "rec_start",
   "rec_stop", "rec_recheck", "pend_stop", "pend_start", "pend_delete", "pend_save",
   "get_workload", "get_observe", "get_save"}

VARIABLES
  wl,        \* the workloads bucket of the store
  st,        \* the statuses bucket of the store
  res,       \* what exists in each runtime under each ID
  tracker,   \* Manager.retryTrackers; None where the map has no entry
  lock,      \* Manager.workloadOpLocks: who holds the lock of each ID
  proc,      \* each goroutine: where it stands and its local variables
  vol,       \* the managed volumes: what exists and what the store says
  crashes    \* how often the agent has crashed

vars == <<wl, st, res, tracker, lock, proc, crashes, vol>>

\* vols: the allocations made so far, or the ones still to be freed; then: where
\* to go on when they are.
IdleProc ==
  [pc |-> "idle", id |-> None, req |-> None, wl |-> None, st |-> None, tr |-> None,
   vols |-> <<>>, then |-> None]

LocalState ==
  [pc : PC, id : WId \cup {None}, req : Workload \cup {None},
   wl : Workload \cup {None}, st : Status \cup {None}, tr : Tracker \cup {None},
   vols : Seq([vol : Vol, policy : {"none", "delete", "retain"}]), then : PC \cup {None}]

TypeOK ==
  /\ wl \in [WId -> Workload \cup {None}]
  /\ st \in [WId -> Status \cup {None}]
  /\ res \in [WType -> [WId -> Resource \cup {None}]]
  /\ tracker \in [WId -> Tracker \cup {None}]
  /\ lock \in [WId -> Proc \cup {None}]
  /\ proc \in [Proc -> LocalState]
  /\ vol \in [Vol -> Volume(WId)]
  /\ crashes \in 0 .. MaxCrashes

Init ==
  /\ wl = [i \in WId |-> None]
  /\ st = [i \in WId |-> None]
  /\ res = [ty \in WType |-> [i \in WId |-> None]]
  /\ tracker = [i \in WId |-> None]
  /\ lock = [i \in WId |-> None]
  /\ proc = [p \in Proc |-> IdleProc]
  /\ vol = [v \in Vol |-> NoVolume]
  /\ crashes = 0

-----------------------------------------------------------------------------
(* Helpers.                                                                *)

\* A status made from scratch for workload w.
NewStatus(w, actual) ==
  [rev |-> w.rev, desired |-> w.desired, actual |-> actual, terminal |-> FALSE,
   pendingSince |-> "none", age |-> "recent"]

normalizeStateForDesired(desired, actual) ==
  IF desired = "Stopped" /\ actual = "Failed" THEN "Stopped" ELSE actual

\* clearRetryStateMetadata, applied whenever the desired state is Stopped.
ClearedIfStopped(s, desired) ==
  IF desired = "Stopped" THEN [s EXCEPT !.terminal = FALSE] ELSE s

\* A status query whose error is turned into text: the state becomes Unknown,
\* and the text may happen to read like "not found" ("no such file or directory").
SoftStatus(r) == (StatusOutcomes(r) \ {"error"}) \cup Faulty("status", {"Unknown", "Missing"})

\* Outcomes of a write to the store.
Write == IF StoreFaults THEN BOOLEAN ELSE {TRUE}

At(p, label) == proc[p].pc = label

\* Process p goes on at label with the local status s.
GotoWith(p, label, s) == proc' = [proc EXCEPT ![p].pc = label, ![p].st = s]

Goto(p, label) == proc' = [proc EXCEPT ![p].pc = label]

\* Return from a locked operation; the deferred unlock runs.
Return(p) ==
  /\ proc' = [proc EXCEPT ![p] = IdleProc]
  /\ lock' = [lock EXCEPT ![proc[p].id] = None]

\* Reads of the store; None and an absent ID stand for the error "not found".
GetWorkload(i) == wl[i]

ListWorkloads == {i \in WId : wl[i] # None}

StoredStatus(i) == st[i]

ListStatuses == {i \in WId : st[i] # None}

ListAttachments(i) == {v \in Vol : i \in vol[v].att}

SaveWorkload(i, w, ok) == wl' = IF ok THEN [wl EXCEPT ![i] = w] ELSE wl

\* SaveStatus always stamps UpdatedAt.
SaveStatus(i, s, ok) ==
  st' = IF ok THEN [st EXCEPT ![i] = [s EXCEPT !.age = "recent"]] ELSE st

\* The store's DeleteWorkload: one transaction removes the workload, its status
\* and whatever attachments of it there still are.
DeleteRecords(i) ==
  \E ok \in Write :
    IF ok
    THEN /\ wl' = [wl EXCEPT ![i] = None]
         /\ st' = [st EXCEPT ![i] = None]
         /\ vol' = [v \in Vol |-> DeleteAttachment(vol[v], i)]
    ELSE UNCHANGED <<wl, st, vol>>

\* getRetryTracker returns the entry, made on first use.
getRetryTracker(i) == IF tracker[i] = None THEN NewRetryTracker ELSE tracker[i]

SetTracker(i, t) == tracker' = [tracker EXCEPT ![i] = t]

resetRetryTracker(i) == SetTracker(i, None)

\* The runtime resource process p works on.
Mine(p) == res[proc[p].wl.type][proc[p].id]

SetMine(p, r) == res' = [res EXCEPT ![proc[p].wl.type][proc[p].id] = r]

\* Whether there is a runtime for the type.
GetRuntime(ty) == ty \in Registered

\* What the monitor may find: the load of the host is not up to the agent.
IsResourceAvailable == Admission

ManagedVolumes(w) == IF w.type \in StorageTypes THEN VolumesOf[w.rev] ELSE <<>>

SetVolume(v, x) == vol' = [vol EXCEPT ![v] = x]

\* cleanupManagedStorageAllocations, if there is anything to clean up, and then
\* on at label.
FreeAndGoto(p, label) ==
  proc' = [proc EXCEPT ![p].pc = IF proc[p].vols = <<>> THEN label ELSE "free_detach",
                       ![p].then = label]

-----------------------------------------------------------------------------
(* Faulty variants of some operations below: each is what a plausible slip  *)
(* in the code would do, and is used only to see that a property notices.   *)

ApplyAdmitKeepsOld(p) ==
  /\ At(p, "apply_admit")
  /\ "ok" \in IsResourceAvailable /\ GetRuntime(proc[p].req.type)
  /\ proc' = [proc EXCEPT ![p].wl = proc[p].req, ![p].pc = "apply_save"]
  /\ UNCHANGED <<wl, st, res, tracker, lock, crashes, vol>>

ApplySaveLater(p) ==
  /\ At(p, "apply_save")
  /\ Goto(p, "apply_initial")
  /\ UNCHANGED <<wl, st, res, tracker, lock, crashes, vol>>

ApplyCreateStarts(p) ==
  /\ At(p, "apply_create")
  /\ \E o \in CreateOutcomes(Mine(p), proc[p].wl) :
       /\ SetMine(p, o.res)
       /\ Goto(p, IF o.ok THEN "apply_start" ELSE "fail_read")
  /\ UNCHANGED <<wl, st, tracker, lock, crashes, vol>>

DeleteSkipsStopped(p) ==
  /\ At(p, "delete_runtime")
  /\ \E o \in DeleteOutcomes(Mine(p)) :
       SetMine(p, IF Mine(p) # None /\ Mine(p).state = "Stopped" THEN Mine(p) ELSE o.res)
  /\ Goto(p, "delete_list")
  /\ UNCHANGED <<wl, st, tracker, lock, crashes, vol>>

DeleteWorkloadOnly(p) ==
  /\ At(p, "delete_store")
  /\ wl' = [wl EXCEPT ![proc[p].id] = None]
  /\ Return(p)
  /\ UNCHANGED <<st, res, tracker, crashes, vol>>

ReconcileUnlocked(p, i) ==
  /\ At(p, "idle")
  /\ wl[i] # None
  /\ proc' = [proc EXCEPT ![p] = [IdleProc EXCEPT !.pc = "rec_load", !.id = i, !.wl = wl[i]]]
  /\ UNCHANGED <<wl, st, res, tracker, lock, crashes, vol>>

ReconcileMissingWaits(p) ==
  /\ GotoWith(p, "save", [proc[p].st EXCEPT !.actual = "Failed"])
  /\ UNCHANGED tracker

ReconcileForgetsHalt(p) ==
  LET t == getRetryTracker(proc[p].id)
      s == [proc[p].st EXCEPT !.actual = "Stopped"]
  IN  /\ IF BackingOff(t) THEN GotoWith(p, "save", s)
         ELSE proc' = [proc EXCEPT ![p].pc = "rec_start", ![p].st = s, ![p].tr = t]
      /\ SetTracker(proc[p].id, t)

-----------------------------------------------------------------------------
(* ApplyWorkload.                                                          *)

\* The lock is taken and the stored workload read; a different revision goes
\* straight to admission.
ApplyWorkload(p, i, w) ==
  /\ At(p, "idle")
  /\ lock[i] = None
  /\ lock' = [lock EXCEPT ![i] = p]
  /\ proc' = [proc EXCEPT ![p] =
       [IdleProc EXCEPT !.pc = IF GetWorkload(i) # None /\ GetWorkload(i).rev = w.rev
                               THEN "apply_status" ELSE "apply_admit",
                        !.id = i, !.req = w, !.wl = GetWorkload(i)]]
  /\ UNCHANGED <<wl, st, res, tracker, crashes, vol>>

\* Same revision: skip, move to another desired state, or apply again.
ApplyStatus(p) ==
  LET i == proc[p].id
      w == proc[p].req
      old == proc[p].wl
      s == IF StoredStatus(i) = None THEN NewStatus(old, "Missing") ELSE StoredStatus(i)
      healthy == s.actual \notin {"Failed", "Missing"}
      needsAction ==
        \/ old.desired # w.desired
        \/ w.desired = "Running" /\ s.actual # "Running"
        \/ w.desired = "Stopped" /\ s.actual \in {"Running", "Pending"}
  IN  /\ At(p, "apply_status")
      /\ \/ /\ \/ StoredStatus(i) = None /\ old.desired = w.desired
               \/ healthy /\ ~needsAction
            /\ Return(p)
         \/ /\ healthy /\ needsAction
            /\ proc' = [proc EXCEPT ![p].pc = "trans_save", ![p].st = s,
                                 ![p].wl = [old EXCEPT !.desired = w.desired]]
            /\ UNCHANGED lock
         \/ /\ ~healthy
            /\ ~(StoredStatus(i) = None /\ old.desired = w.desired)
            /\ Goto(p, "apply_admit")
            /\ UNCHANGED lock
      /\ UNCHANGED <<wl, st, res, tracker, crashes, vol>>

\* The runtime and the admission check.  From here on the workload is the new one.
ApplyAdmit(p) ==
  LET w == proc[p].req
      old == proc[p].wl
      next == IF old # None /\ old.rev # w.rev THEN "apply_delete_old" ELSE "apply_save"
  IN  /\ At(p, "apply_admit")
      /\ \/ /\ ~GetRuntime(w.type) \/ "error" \in IsResourceAvailable
            /\ Return(p)
         \/ /\ GetRuntime(w.type)
            /\ \E answer \in IsResourceAvailable \ {"error"} :
                 proc' = [proc EXCEPT ![p].wl = w,
                                      ![p].pc = IF answer = "ok" THEN next ELSE "apply_reject"]
            /\ UNCHANGED lock
      /\ UNCHANGED <<wl, st, res, tracker, crashes, vol>>

\* Admission refused: the new workload is saved all the same.
ApplyReject(p) ==
  /\ At(p, "apply_reject")
  /\ \E ok \in Write : SaveWorkload(proc[p].id, proc[p].wl, ok)
  /\ Goto(p, "fail_read")
  /\ UNCHANGED <<st, res, tracker, lock, crashes, vol>>

ApplyDeleteOld(p) ==
  /\ At(p, "apply_delete_old")
  /\ \E o \in DeleteOutcomes(Mine(p)) : SetMine(p, o.res)
  /\ Goto(p, "apply_save")
  /\ UNCHANGED <<wl, st, tracker, lock, crashes, vol>>

ApplySave(p) ==
  /\ At(p, "apply_save")
  /\ \E ok \in Write :
       /\ SaveWorkload(proc[p].id, proc[p].wl, ok)
       /\ IF ok THEN Goto(p, "apply_initial") /\ UNCHANGED lock ELSE Return(p)
  /\ UNCHANGED <<st, res, tracker, crashes, vol>>

\* The initial "creating workload" status; prepareManagedStorage comes next.
ApplyInitial(p) ==
  /\ At(p, "apply_initial")
  /\ \E ok \in Write : SaveStatus(proc[p].id, NewStatus(proc[p].wl, "Pending"), ok)
  /\ Goto(p, IF ManagedVolumes(proc[p].wl) = <<>> THEN "apply_create" ELSE "vol_provision")
  /\ UNCHANGED <<wl, res, tracker, lock, crashes, vol>>

ApplyCreate(p) ==
  /\ At(p, "apply_create")
  /\ \E o \in CreateOutcomes(Mine(p), proc[p].wl) :
       /\ SetMine(p, o.res)
       /\ CASE ~o.ok -> FreeAndGoto(p, "fail_read")
            [] o.ok /\ proc[p].wl.desired = "Running" -> Goto(p, "apply_start")
            [] OTHER -> Goto(p, "apply_final")
  /\ UNCHANGED <<wl, st, tracker, lock, crashes, vol>>

ApplyStart(p) ==
  /\ At(p, "apply_start")
  /\ \E o \in StartOutcomes(Mine(p)) :
       /\ SetMine(p, o.res)
       /\ IF o.ok THEN Goto(p, "apply_final") ELSE FreeAndGoto(p, "fail_read")
  /\ UNCHANGED <<wl, st, tracker, lock, crashes, vol>>

ApplyFinal(p) ==
  /\ At(p, "apply_final")
  /\ \E a \in SoftStatus(Mine(p)) : GotoWith(p, "commit", NewStatus(proc[p].wl, a))
  /\ UNCHANGED <<wl, st, res, tracker, lock, crashes, vol>>

\* The last SaveStatus of a successful apply; the tracker is reset after it.
Commit(p) ==
  /\ At(p, "commit")
  /\ \E ok \in Write :
       /\ SaveStatus(proc[p].id, proc[p].st, ok)
       /\ IF ok THEN resetRetryTracker(proc[p].id) ELSE UNCHANGED tracker
  /\ Return(p)
  /\ UNCHANGED <<wl, res, crashes, vol>>

\* persistFailedStatus reads the stored status; the metadata in it survives.
\* annotateFailureReason after it only writes for a VM's cloud-init error.
FailRead(p) ==
  LET i == proc[p].id
      w == proc[p].wl
      s == IF StoredStatus(i) = None THEN NewStatus(w, "Failed") ELSE StoredStatus(i)
  IN  /\ At(p, "fail_read")
      /\ GotoWith(p, "save", [s EXCEPT !.rev = w.rev, !.desired = w.desired, !.actual = "Failed"])
      /\ UNCHANGED <<wl, st, res, tracker, lock, crashes, vol>>

\* The SaveStatus that ends every other path of a locked operation.
Save(p) ==
  /\ At(p, "save")
  /\ \E ok \in Write : SaveStatus(proc[p].id, proc[p].st, ok)
  /\ Return(p)
  /\ UNCHANGED <<wl, res, tracker, crashes, vol>>

-----------------------------------------------------------------------------
(* prepareManagedStorage.  An error leaves the volumes done so far as they  *)
(* are: its caller gets no allocations to clean up.                         *)

\* The volume at hand is the first that has no allocation yet.
Wanted(p) == ManagedVolumes(proc[p].wl)[Len(proc[p].vols) + 1]

\* The outcomes of a call of the volume manager on the volume at hand.
VolumeCall(p, outcomes, next) ==
  \E o \in outcomes :
    /\ SetVolume(Wanted(p).vol, o.vol)
    /\ Goto(p, IF o.ok THEN next ELSE "vol_fail")

VolumeProvision(p) ==
  /\ At(p, "vol_provision")
  /\ LET v == Wanted(p).vol IN VolumeCall(p, Provision(v, vol[v]), "vol_record")
  /\ UNCHANGED <<wl, st, res, tracker, lock, crashes>>

\* A failed write of a handle or an attachment is only logged.
VolumeRecord(p) ==
  /\ At(p, "vol_record")
  /\ LET v == Wanted(p).vol
     IN  \E ok \in Write : SetVolume(v, IF ok THEN SaveVolume(vol[v], Wanted(p).policy) ELSE vol[v])
  /\ Goto(p, "vol_attach")
  /\ UNCHANGED <<wl, st, res, tracker, lock, crashes>>

VolumeAttach(p) ==
  /\ At(p, "vol_attach")
  /\ LET v == Wanted(p).vol IN VolumeCall(p, Attach(v, vol[v], proc[p].id), "vol_attachment")
  /\ UNCHANGED <<wl, st, res, tracker, lock, crashes>>

\* A faulty variant of the next operation: the attachment is not saved.
VolumeAttachmentUnsaved(p) ==
  LET all == Append(proc[p].vols, Wanted(p))
      last == Len(all) = Len(ManagedVolumes(proc[p].wl))
  IN  /\ At(p, "vol_attachment")
      /\ proc' = [proc EXCEPT ![p].vols = all, ![p].wl = [@ EXCEPT !.bound = last],
                              ![p].pc = IF last THEN "vol_save" ELSE "vol_provision"]
      /\ UNCHANGED <<wl, st, res, tracker, lock, crashes, vol>>

\* The attachment is saved and the allocation complete.  After the last one the
\* spec of the workload names the mounts.
VolumeAttachment(p) ==
  LET v == Wanted(p).vol
      all == Append(proc[p].vols, Wanted(p))
      last == Len(all) = Len(ManagedVolumes(proc[p].wl))
  IN  /\ At(p, "vol_attachment")
      /\ \E ok \in Write : SetVolume(v, IF ok THEN SaveAttachment(vol[v], proc[p].id) ELSE vol[v])
      /\ proc' = [proc EXCEPT ![p].vols = all, ![p].wl = [@ EXCEPT !.bound = last],
                              ![p].pc = IF last THEN "vol_save" ELSE "vol_provision"]
      /\ UNCHANGED <<wl, st, res, tracker, lock, crashes>>

\* The workload is saved again, with its mounts.
VolumeSave(p) ==
  /\ At(p, "vol_save")
  /\ \E ok \in Write :
       /\ SaveWorkload(proc[p].id, proc[p].wl, ok)
       /\ IF ok THEN Goto(p, "apply_create") ELSE FreeAndGoto(p, "idle")
  /\ UNCHANGED <<st, res, tracker, lock, crashes, vol>>

\* persistManagedStorageFailureStatus reads the stored status, which keeps its
\* revision and desired state.
VolumeFail(p) ==
  LET i == proc[p].id
      s == IF StoredStatus(i) = None THEN NewStatus(proc[p].wl, "Failed") ELSE StoredStatus(i)
  IN  /\ At(p, "vol_fail")
      /\ GotoWith(p, "save", [s EXCEPT !.actual = "Failed"])
      /\ UNCHANGED <<wl, st, res, tracker, lock, crashes, vol>>

-----------------------------------------------------------------------------
(* cleanupManagedStorageAllocations, which undoes the allocations of this   *)
(* apply from the last to the first, and the loop of                        *)
(* releaseManagedStorageForWorkload.  They differ in where the retain       *)
(* policy comes from and in what a failed removal does to the record.       *)

Releasing(p) == proc[p].then = "delete_store"

\* The list to release is worked from its end as well; its order is any.
Freed(p) == proc[p].vols[Len(proc[p].vols)]

StillToFree(p) == SubSeq(proc[p].vols, 1, Len(proc[p].vols) - 1)

\* On with the next volume, or with what comes after the last.
FreeNext(p) ==
  LET rest == StillToFree(p)
  IN  IF rest = <<>> /\ proc[p].then = "idle" THEN Return(p)
      ELSE /\ proc' = [proc EXCEPT ![p].vols = rest,
                                   ![p].pc = IF rest = <<>> THEN proc[p].then ELSE "free_detach"]
           /\ UNCHANGED lock

\* Faulty variants of FreeAttachment and FreeLookup below: the attachment stays
\* in the store, and the retain policy is not looked at.
FreeAttachmentStays(p) ==
  /\ At(p, "free_attachment")
  /\ CASE Releasing(p) -> Goto(p, "free_lookup") /\ UNCHANGED lock
       [] ~Releasing(p) /\ Freed(p).policy = "retain" -> FreeNext(p)
       [] OTHER -> Goto(p, "free_delete") /\ UNCHANGED lock
  /\ UNCHANGED <<wl, st, res, tracker, crashes, vol>>

FreeLookupNoPolicy(p) ==
  /\ At(p, "free_lookup")
  /\ IF GetVolume(vol[Freed(p).vol]) # "none" THEN Goto(p, "free_delete") /\ UNCHANGED lock
     ELSE FreeNext(p)
  /\ UNCHANGED <<wl, st, res, tracker, crashes, vol>>

FreeDetach(p) ==
  /\ At(p, "free_detach")
  /\ LET v == Freed(p).vol
     IN  \E o \in Detach(v, vol[v], proc[p].id) : SetVolume(v, o.vol)
  /\ Goto(p, "free_attachment")
  /\ UNCHANGED <<wl, st, res, tracker, lock, crashes>>

FreeAttachment(p) ==
  /\ At(p, "free_attachment")
  /\ LET v == Freed(p).vol
     IN  \E ok \in Write : SetVolume(v, IF ok THEN DeleteAttachment(vol[v], proc[p].id) ELSE vol[v])
  /\ CASE Releasing(p) -> Goto(p, "free_lookup") /\ UNCHANGED lock
       [] ~Releasing(p) /\ Freed(p).policy = "retain" -> FreeNext(p)
       [] OTHER -> Goto(p, "free_delete") /\ UNCHANGED lock
  /\ UNCHANGED <<wl, st, res, tracker, crashes>>

\* A release asks the store for the handle and its retain policy.
FreeLookup(p) ==
  /\ At(p, "free_lookup")
  /\ IF GetVolume(vol[Freed(p).vol]) = "delete" THEN Goto(p, "free_delete") /\ UNCHANGED lock
     ELSE FreeNext(p)
  /\ UNCHANGED <<wl, st, res, tracker, crashes, vol>>

FreeDelete(p) ==
  /\ At(p, "free_delete")
  /\ LET v == Freed(p).vol
     IN  \E o \in Destroy(v, vol[v]) :
           /\ SetVolume(v, o.vol)
           /\ IF o.ok \/ ~Releasing(p) THEN Goto(p, "free_record") /\ UNCHANGED lock
              ELSE FreeNext(p)
  /\ UNCHANGED <<wl, st, res, tracker, crashes>>

FreeRecord(p) ==
  /\ At(p, "free_record")
  /\ LET v == Freed(p).vol
     IN  \E ok \in Write : SetVolume(v, IF ok THEN DeleteVolume(vol[v]) ELSE vol[v])
  /\ FreeNext(p)
  /\ UNCHANGED <<wl, st, res, tracker, crashes>>

-----------------------------------------------------------------------------
(* applyDesiredStateTransition, and the SaveWorkload before it.            *)

TransSave(p) ==
  /\ At(p, "trans_save")
  /\ \E ok \in Write :
       /\ SaveWorkload(proc[p].id, proc[p].wl, ok)
       /\ IF ok /\ GetRuntime(proc[p].wl.type)
          THEN Goto(p, "trans_status") /\ UNCHANGED lock
          ELSE Return(p)
  /\ UNCHANGED <<st, res, tracker, crashes, vol>>

TransStatus(p) ==
  LET w == proc[p].wl
      s == [proc[p].st EXCEPT !.rev = w.rev, !.desired = w.desired]
  IN  /\ At(p, "trans_status")
      /\ \E a \in StatusOutcomes(Mine(p)) :
           LET actual == normalizeStateForDesired(w.desired, a)
           IN  IF a = "error"
               THEN GotoWith(p, "save", [s EXCEPT !.actual = "Failed"])
               ELSE GotoWith(p,
                      CASE w.desired = "Running" /\ actual # "Running" -> "trans_start"
                        [] w.desired = "Stopped" /\ actual \in {"Running", "Pending"} -> "trans_stop"
                        [] OTHER -> "trans_recheck", s)
      /\ UNCHANGED <<wl, st, res, tracker, lock, crashes, vol>>

TransStart(p) ==
  /\ At(p, "trans_start")
  /\ \E o \in StartOutcomes(Mine(p)) :
       /\ SetMine(p, o.res)
       /\ Goto(p, IF o.ok THEN "trans_recheck" ELSE "fail_read")
  /\ UNCHANGED <<wl, st, tracker, lock, crashes, vol>>

TransStop(p) ==
  /\ At(p, "trans_stop")
  /\ \E o \in StopOutcomes(Mine(p)) :
       /\ SetMine(p, o.res)
       /\ IF o.ok THEN Goto(p, "trans_recheck")
          ELSE GotoWith(p, "save", [proc[p].st EXCEPT !.actual = "Failed"])
  /\ UNCHANGED <<wl, st, tracker, lock, crashes, vol>>

TransRecheck(p) ==
  LET desired == proc[p].wl.desired
  IN  /\ At(p, "trans_recheck")
      /\ \E a \in SoftStatus(Mine(p)) :
           GotoWith(p, "commit",
             ClearedIfStopped([proc[p].st EXCEPT !.actual = normalizeStateForDesired(desired, a)],
                              desired))
      /\ UNCHANGED <<wl, st, res, tracker, lock, crashes, vol>>

-----------------------------------------------------------------------------
(* DeleteWorkload.  It fails, and changes nothing, when the workload is     *)
(* not in the store or its runtime is not registered.                       *)

DeleteWorkload(p, i) ==
  /\ At(p, "idle")
  /\ lock[i] = None
  /\ GetWorkload(i) # None
  /\ GetRuntime(GetWorkload(i).type)
  /\ lock' = [lock EXCEPT ![i] = p]
  /\ proc' = [proc EXCEPT ![p] =
       [IdleProc EXCEPT !.pc = "delete_runtime", !.id = i, !.wl = GetWorkload(i)]]
  /\ UNCHANGED <<wl, st, res, tracker, crashes, vol>>

\* An error of the runtime is only logged.
DeleteRuntime(p) ==
  /\ At(p, "delete_runtime")
  /\ \E o \in DeleteOutcomes(Mine(p)) : SetMine(p, o.res)
  /\ Goto(p, "delete_list")
  /\ UNCHANGED <<wl, st, tracker, lock, crashes, vol>>

\* releaseManagedStorageForWorkload lists the attachments.  It frees the newest
\* first; the times are not modelled, so the order is any.
Orders(S) == {s \in [1 .. Cardinality(S) -> S] : {s[n] : n \in DOMAIN s} = S}

DeleteList(p) ==
  LET i == proc[p].id
      attached == {[vol |-> v, policy |-> "none"] : v \in ListAttachments(i)}
  IN  /\ At(p, "delete_list")
      /\ \E order \in Orders(attached) :
           proc' = [proc EXCEPT ![p].pc = IF order = <<>> THEN "delete_store" ELSE "free_detach",
                                ![p].vols = order, ![p].then = "delete_store"]
      /\ UNCHANGED <<wl, st, res, tracker, lock, crashes, vol>>

\* The records go; the tracker stays.
DeleteStore(p) ==
  /\ At(p, "delete_store")
  /\ DeleteRecords(proc[p].id)
  /\ Return(p)
  /\ UNCHANGED <<res, tracker, crashes>>

-----------------------------------------------------------------------------
(* ReconcileWorkload.                                                      *)

ReconcileWorkload(p, i) ==
  /\ At(p, "idle")
  /\ lock[i] = None
  /\ i \in ListWorkloads
  /\ lock' = [lock EXCEPT ![i] = p]
  /\ proc' = [proc EXCEPT ![p] =
       [IdleProc EXCEPT !.pc = "rec_load", !.id = i, !.wl = GetWorkload(i)]]
  /\ UNCHANGED <<wl, st, res, tracker, crashes, vol>>

ReconcileLoad(p) ==
  LET s == StoredStatus(proc[p].id)
  IN  /\ At(p, "rec_load")
      /\ IF s # None /\ GetRuntime(proc[p].wl.type)
         THEN GotoWith(p, "rec_observe", s) /\ UNCHANGED lock
         ELSE Return(p)
      /\ UNCHANGED <<wl, st, res, tracker, crashes, vol>>

\* Desired Stopped: the retry state is dropped and a running workload stopped.
ReconcileStopped(p, actual) ==
  /\ proc[p].wl.desired = "Stopped"
  /\ resetRetryTracker(proc[p].id)
  /\ GotoWith(p, IF actual = "Running" THEN "rec_stop" ELSE "save",
              [proc[p].st EXCEPT !.actual = actual, !.terminal = FALSE])

\* Pending (handlePendingRecovery up to its first runtime call).
ReconcilePending(p) ==
  LET s == [proc[p].st EXCEPT !.actual = "Pending"]
  IN  /\ CASE s.pendingSince = "none" -> GotoWith(p, "save", [s EXCEPT !.pendingSince = "recent"])
           [] s.pendingSince = "recent" -> GotoWith(p, "save", s)
           [] OTHER -> GotoWith(p, "pend_stop", s)
      /\ UNCHANGED tracker

\* The admission check before a recreate; when it refuses, Failed is saved.
Readmit(p, s) ==
  \E answer \in IsResourceAvailable : GotoWith(p, IF answer = "ok" THEN "rec_delete" ELSE "save", s)

\* Missing from the runtime: recreate at once, unless retries were halted.
ReconcileMissing(p) ==
  LET s == [proc[p].st EXCEPT !.actual = "Failed"]
  IN  /\ IF s.terminal THEN GotoWith(p, "save", s) ELSE Readmit(p, s)
      /\ UNCHANGED tracker

\* Failed in the runtime: record the failure and wait, recreate or give up.
ReconcileFailed(p) ==
  LET i == proc[p].id
      t == getRetryTracker(i)
      s == [proc[p].st EXCEPT !.actual = "Failed"]
  IN  \/ /\ s.terminal
         /\ GotoWith(p, "save", s)
         /\ UNCHANGED tracker
      \/ /\ ~s.terminal /\ BackingOff(t)
         /\ GotoWith(p, "save", s)
         /\ SetTracker(i, t)
      \/ /\ ~s.terminal /\ ~BackingOff(t)
         /\ \E reason \in Reason :
              LET r == RecordFailure(t, reason)
              IN  /\ SetTracker(i, r.tracker)
                  /\ CASE ~r.retryable -> GotoWith(p, "save", [s EXCEPT !.terminal = TRUE])
                       [] r.retryable /\ ~CanRetryNow(r.tracker) -> GotoWith(p, "save", s)
                       [] OTHER -> Readmit(p, s)

\* Stopped although it should run: start it, unless retries wait or were halted.
\* The tracker is looked up here and used again after the start.
ReconcileNotRunning(p) ==
  LET i == proc[p].id
      t == getRetryTracker(i)
      s == [proc[p].st EXCEPT !.actual = "Stopped"]
  IN  /\ CASE s.terminal -> GotoWith(p, "save", [s EXCEPT !.actual = "Failed"])
           [] ~s.terminal /\ BackingOff(t) -> GotoWith(p, "save", s)
           [] OTHER -> proc' = [proc EXCEPT ![p].pc = "rec_start", ![p].st = s, ![p].tr = t]
      /\ SetTracker(i, t)

\* The status query of ReconcileWorkload and what it decides on.
ReconcileObserve(p) ==
  /\ At(p, "rec_observe")
  /\ \E a \in StatusOutcomes(Mine(p)) :
       LET actual == normalizeStateForDesired(proc[p].wl.desired, a)
       IN  \/ /\ a = "error"
              /\ GotoWith(p, "save", [proc[p].st EXCEPT !.actual = "Failed"])
              /\ UNCHANGED tracker
           \/ /\ a # "error"
              /\ \/ ReconcileStopped(p, actual)
                 \/ /\ proc[p].wl.desired = "Running"
                    /\ CASE actual = "Pending" -> ReconcilePending(p)
                         [] actual = "Missing" -> ReconcileMissing(p)
                         [] actual = "Failed" -> ReconcileFailed(p)
                         [] actual = "Stopped" -> ReconcileNotRunning(p)
                         [] OTHER -> /\ GotoWith(p, "save", [proc[p].st EXCEPT !.actual = actual])
                                     /\ UNCHANGED tracker
  /\ UNCHANGED <<wl, st, res, lock, crashes, vol>>

ReconcileDelete(p) ==
  /\ At(p, "rec_delete")
  /\ \E o \in DeleteOutcomes(Mine(p)) : SetMine(p, o.res)
  /\ Goto(p, "rec_create")
  /\ UNCHANGED <<wl, st, tracker, lock, crashes, vol>>

ReconcileCreate(p) ==
  /\ At(p, "rec_create")
  /\ \E o \in CreateOutcomes(Mine(p), proc[p].wl) :
       /\ SetMine(p, o.res)
       /\ GotoWith(p, IF o.ok THEN "rec_restart" ELSE "rec_recheck",
                   [proc[p].st EXCEPT !.actual = "Failed"])
  /\ UNCHANGED <<wl, st, tracker, lock, crashes, vol>>

ReconcileRestart(p) ==
  /\ At(p, "rec_restart")
  /\ \E o \in StartOutcomes(Mine(p)) :
       /\ SetMine(p, o.res)
       /\ IF o.ok THEN resetRetryTracker(proc[p].id) ELSE UNCHANGED tracker
       /\ GotoWith(p, "rec_recheck",
                   [proc[p].st EXCEPT !.actual = IF o.ok THEN "Running" ELSE "Failed"])
  /\ UNCHANGED <<wl, st, lock, crashes, vol>>

\* Starting a stopped workload; a failure is recorded with the tracker.  When
\* GetStatus reset the entry meanwhile, that tracker is no longer in the map.
ReconcileStart(p) ==
  LET i == proc[p].id
      s == proc[p].st
  IN  /\ At(p, "rec_start")
      /\ \E o \in StartOutcomes(Mine(p)) :
           /\ SetMine(p, o.res)
           /\ \/ /\ o.ok
                 /\ resetRetryTracker(i)
                 /\ GotoWith(p, "rec_recheck", [s EXCEPT !.terminal = FALSE])
              \/ /\ ~o.ok
                 /\ \E reason \in Reason :
                      LET r == RecordFailure(proc[p].tr, reason)
                      IN  /\ SetTracker(i, IF tracker[i] = None THEN None ELSE r.tracker)
                          /\ GotoWith(p, "save", [s EXCEPT !.actual = "Failed",
                                                           !.terminal = @ \/ ~r.retryable])
      /\ UNCHANGED <<wl, st, lock, crashes, vol>>

ReconcileStop(p) ==
  /\ At(p, "rec_stop")
  /\ \E o \in StopOutcomes(Mine(p)) :
       /\ SetMine(p, o.res)
       /\ GotoWith(p, "rec_recheck",
                   IF o.ok THEN proc[p].st ELSE [proc[p].st EXCEPT !.actual = "Failed"])
  /\ UNCHANGED <<wl, st, tracker, lock, crashes, vol>>

\* The recheck is not normalised, and its error is ignored.
ReconcileRecheck(p) ==
  /\ At(p, "rec_recheck")
  /\ \E a \in StatusOutcomes(Mine(p)) :
       GotoWith(p, "save", IF a = "error" THEN proc[p].st ELSE [proc[p].st EXCEPT !.actual = a])
  /\ UNCHANGED <<wl, st, res, tracker, lock, crashes, vol>>

-----------------------------------------------------------------------------
(* handlePendingRecovery once the threshold has passed.                    *)

PendingStop(p) ==
  /\ At(p, "pend_stop")
  /\ \E o \in StopOutcomes(Mine(p)) : SetMine(p, o.res)
  /\ Goto(p, "pend_start")
  /\ UNCHANGED <<wl, st, tracker, lock, crashes, vol>>

PendingStart(p) ==
  /\ At(p, "pend_start")
  /\ \E o \in StartOutcomes(Mine(p)) :
       /\ SetMine(p, o.res)
       /\ IF o.ok THEN GotoWith(p, "save", [proc[p].st EXCEPT !.pendingSince = "recent"])
          ELSE Goto(p, "pend_delete")
  /\ UNCHANGED <<wl, st, tracker, lock, crashes, vol>>

PendingDelete(p) ==
  /\ At(p, "pend_delete")
  /\ \E o \in DeleteOutcomes(Mine(p)) : SetMine(p, o.res)
  /\ GotoWith(p, "pend_save", [proc[p].st EXCEPT !.actual = "Failed"])
  /\ UNCHANGED <<wl, st, tracker, lock, crashes, vol>>

\* The stored workload is told to stay stopped.
PendingSave(p) ==
  /\ At(p, "pend_save")
  /\ LET w == [proc[p].wl EXCEPT !.desired = "Stopped"]
     IN  /\ \E ok \in Write : SaveWorkload(proc[p].id, w, ok)
         /\ proc' = [proc EXCEPT ![p].pc = "save", ![p].wl = w]
  /\ UNCHANGED <<st, res, tracker, lock, crashes, vol>>

-----------------------------------------------------------------------------
(* GetStatus, which holds no lock.                                         *)

GetStatus(p, i) ==
  /\ At(p, "idle")
  /\ i \in ListStatuses
  /\ proc' = [proc EXCEPT ![p] =
       [IdleProc EXCEPT !.pc = "get_workload", !.id = i, !.st = StoredStatus(i)]]
  /\ UNCHANGED <<wl, st, res, tracker, lock, crashes, vol>>

GetStatusWorkload(p) ==
  LET w == GetWorkload(proc[p].id)
  IN  /\ At(p, "get_workload")
      /\ proc' = [proc EXCEPT ![p] =
           IF w # None /\ GetRuntime(w.type)
           THEN [@ EXCEPT !.pc = "get_observe", !.wl = w]
           ELSE IdleProc]
      /\ UNCHANGED <<wl, st, res, tracker, lock, crashes, vol>>

GetStatusObserve(p) ==
  LET desired == proc[p].wl.desired
  IN  /\ At(p, "get_observe")
      /\ \E a \in StatusOutcomes(Mine(p)) :
           IF a = "error"
           THEN proc' = [proc EXCEPT ![p] = IdleProc] /\ UNCHANGED tracker
           ELSE /\ GotoWith(p, "get_save",
                     ClearedIfStopped([proc[p].st EXCEPT !.actual = normalizeStateForDesired(desired, a)],
                                      desired))
                /\ IF desired = "Stopped" THEN resetRetryTracker(proc[p].id) ELSE UNCHANGED tracker
      /\ UNCHANGED <<wl, st, res, lock, crashes, vol>>

GetStatusSave(p) ==
  /\ At(p, "get_save")
  /\ \E ok \in Write : SaveStatus(proc[p].id, proc[p].st, ok)
  /\ proc' = [proc EXCEPT ![p] = IdleProc]
  /\ UNCHANGED <<wl, res, tracker, lock, crashes, vol>>

-----------------------------------------------------------------------------
(* The environment.                                                        *)

\* The agent crashes and is started again: goroutines, locks and trackers are
\* gone, the store and the runtimes are not.
Crash ==
  /\ crashes < MaxCrashes
  /\ crashes' = crashes + 1
  /\ proc' = [p \in Proc |-> IdleProc]
  /\ lock' = [i \in WId |-> None]
  /\ tracker' = [i \in WId |-> None]
  /\ UNCHANGED <<wl, st, res, vol>>

Drift(ty, i) ==
  /\ "drift" \in Environment
  /\ res[ty][i] # None
  /\ \E r \in DriftOutcomes(res[ty][i]) : res' = [res EXCEPT ![ty][i] = r]
  /\ UNCHANGED <<wl, st, tracker, lock, proc, crashes, vol>>

Elapsed(t) == IF t = None THEN t ELSE [t EXCEPT !.waiting = FALSE]

\* Time passes: every back-off window that was open closes.
BackoffElapses ==
  /\ \E i \in WId : tracker[i] # Elapsed(tracker[i])
  /\ tracker' = [i \in WId |-> Elapsed(tracker[i])]
  /\ UNCHANGED <<wl, st, res, lock, proc, crashes, vol>>

\* A status once the five minute threshold, and once the TTL, has passed.
Waited(s) ==
  IF s = None \/ s.pendingSince = "none" THEN s ELSE [s EXCEPT !.pendingSince = "old"]

Aged(s) == IF s = None THEN s ELSE [Waited(s) EXCEPT !.age = "old"]

PendingThresholdPasses ==
  /\ "pending" \in Environment
  /\ st' = [i \in WId |-> Waited(st[i])]
  /\ proc' = [p \in Proc |-> [proc[p] EXCEPT !.st = Waited(@)]]
  /\ tracker' = [i \in WId |-> Elapsed(tracker[i])]
  /\ UNCHANGED <<wl, res, lock, crashes, vol>>

FailedTTLPasses ==
  /\ "ttl" \in Environment
  /\ st' = [i \in WId |-> Aged(st[i])]
  /\ proc' = [p \in Proc |-> [proc[p] EXCEPT !.st = Aged(@)]]
  /\ tracker' = [i \in WId |-> Elapsed(tracker[i])]
  /\ UNCHANGED <<wl, res, lock, crashes, vol>>

-----------------------------------------------------------------------------
ApplyStep(p) ==
  \/ ApplyStatus(p) \/ ApplyAdmit(p) \/ ApplyReject(p) \/ ApplyDeleteOld(p) \/ ApplySave(p)
  \/ ApplyInitial(p) \/ ApplyCreate(p) \/ ApplyStart(p) \/ ApplyFinal(p) \/ Commit(p)
  \/ FailRead(p) \/ Save(p)
  \/ TransSave(p) \/ TransStatus(p) \/ TransStart(p) \/ TransStop(p) \/ TransRecheck(p)

VolumeStep(p) ==
  \/ VolumeProvision(p) \/ VolumeRecord(p) \/ VolumeAttach(p) \/ VolumeAttachment(p)
  \/ VolumeSave(p) \/ VolumeFail(p)
  \/ FreeDetach(p) \/ FreeAttachment(p) \/ FreeLookup(p) \/ FreeDelete(p) \/ FreeRecord(p)

DeleteStep(p) == DeleteRuntime(p) \/ DeleteList(p) \/ DeleteStore(p)

ReconcileStep(p) ==
  \/ ReconcileLoad(p) \/ ReconcileObserve(p) \/ ReconcileDelete(p) \/ ReconcileCreate(p)
  \/ ReconcileRestart(p) \/ ReconcileStart(p) \/ ReconcileStop(p) \/ ReconcileRecheck(p)
  \/ PendingStop(p) \/ PendingStart(p) \/ PendingDelete(p) \/ PendingSave(p) \/ Save(p)

GetStep(p) == GetStatusWorkload(p) \/ GetStatusObserve(p) \/ GetStatusSave(p)

\* Operations begin when a client or a timer says so.
Begin ==
  \/ \E p \in OpProc, i \in WId : DeleteWorkload(p, i) \/ \E w \in Request : ApplyWorkload(p, i, w)
  \/ \E p \in RecProc, i \in WId : ReconcileWorkload(p, i)
  \/ \E p \in GetProc, i \in WId : GetStatus(p, i)

Step ==
  \/ \E p \in OpProc : ApplyStep(p) \/ VolumeStep(p) \/ DeleteStep(p)
  \/ \E p \in RecProc : ReconcileStep(p)
  \/ \E p \in GetProc : GetStep(p)

Surroundings == BackoffElapses \/ \E ty \in WType, i \in WId : Drift(ty, i)

Next == Begin \/ Step \/ Surroundings \/ Crash \/ PendingThresholdPasses \/ FailedTTLPasses

Spec == Init /\ [][Next]_vars

\* A goroutine that is in an operation goes on with it; the reconcile loop
\* visits every stored workload again and again and waits for its lock; time
\* passes.
Fairness ==
  /\ \A p \in OpProc : WF_vars(ApplyStep(p) \/ VolumeStep(p) \/ DeleteStep(p))
  /\ \A p \in RecProc : WF_vars(ReconcileStep(p)) /\ \A i \in WId : SF_vars(ReconcileWorkload(p, i))
  /\ WF_vars(BackoffElapses)
  /\ WF_vars(PendingThresholdPasses)

FairSpec == Spec /\ Fairness

-----------------------------------------------------------------------------
(* Properties.                                                             *)

LocalVol == {v \in Vol : DriverOf[v] = "local"}

Runs(ty, i) == res[ty][i] # None /\ res[ty][i].state = "Running"

\* The workload a reconcile has loaded is the stored one for as long as it acts
\* on it: the operation lock keeps applies and deletes out until it returns.
ReconcileSeesStored ==
  \A p \in RecProc : proc[p].pc # "idle" /\ proc[p].pc # "save" => proc[p].wl = wl[proc[p].id]

\* Nothing exists in a runtime without a workload in the store to answer for
\* it: Apply saves before it creates, Delete removes from the runtime first, and
\* a crash or a failed write between leaves the record behind.  (A runtime that
\* fails to delete leaves an orphan; that is for the garbage collector.)
EveryResourceRecorded == \A ty \in WType, i \in WId : res[ty][i] # None => wl[i] # None

\* A status that reports Running names the revision that runs, whenever no
\* operation on the workload is under way and none was cut short by a crash.
RunningRevision ==
  \A i \in WId :
    crashes = 0 /\ lock[i] = None /\ wl[i] # None /\ st[i] # None
      => (st[i].actual = "Running" /\ Runs(wl[i].type, i) => st[i].rev = res[wl[i].type][i].rev)

\* Once retries are marked as halted in the store, no reconcile is on its way
\* to start or recreate the workload.
HaltedNotRetried ==
  \A p \in RecProc :
    proc[p].pc \in {"rec_delete", "rec_create", "rec_restart", "rec_start"}
      => ~st[proc[p].id].terminal

\* A workload that was deleted, and that nobody works on, has no status: what a
\* client polls for after DeleteWorkload.
NoGhostStatus == \A i \in WId : wl[i] = None /\ lock[i] = None => st[i] = None

\* The agent turns a stopped or failed resource into a running one only for a
\* stored workload of that type and revision that is meant to run.
StartsOnlyDesired ==
  [][\A ty \in WType, i \in WId :
       res[ty][i] # None /\ res[ty][i].state \in {"Stopped", "Failed"} /\ Runs(ty, i)'
         => /\ wl[i] # None
            /\ wl[i].type = ty
            /\ wl[i].desired = "Running"
            /\ wl[i].rev = res[ty][i].rev]_vars

\* A volume the store shows as attached is there: its directory outlives the
\* attachment, in a rollback as in a release, and whenever the agent crashes.
AttachedVolumeExists == \A v \in LocalVol : vol[v].att # {} => vol[v].dir

\* An attachment has a workload in the store whose deletion will release it.
AttachmentsRecorded == \A v \in Vol, i \in WId : i \in vol[v].att => wl[i] # None

\* Without a crash, a volume that is not to be retained, and the staging
\* directory of one, exists only while it is attached or somebody is setting it up
\* or taking it down: what an apply or a delete leaves behind can still be found.
NoStrayVolume ==
  crashes = 0 =>
    \A v \in Vol :
      /\ vol[v].dir /\ vol[v].rec # "retain" => \E i \in WId : i \in vol[v].att \/ lock[i] # None
      /\ \A i \in WId : i \in vol[v].stage => i \in vol[v].att \/ lock[i] # None

\* The data of a volume whose handle says retain is not deleted.
RetainKept == [][\A v \in Vol : vol[v].rec = "retain" /\ vol[v].dir => vol'[v].dir]_vars

\* What runs for a revision with managed volumes was created with their mounts:
\* volumes are provisioned and attached before the runtime creates anything.
CreatedWithVolumes ==
  \A ty \in StorageTypes, i \in WId :
    res[ty][i] # None /\ VolumesOf[res[ty][i].rev] # <<>> => res[ty][i].bound

\* From some point on nobody applies or deletes, and nothing happens to the
\* resources behind the agent's back.
Undisturbed ==
  <>[][/\ \A ty \in WType, i \in WId : ~Drift(ty, i)
       /\ \A p \in OpProc, i \in WId :
            ~DeleteWorkload(p, i) /\ \A w \in Request : ~ApplyWorkload(p, i, w)]_vars

Settled(i) ==
  wl[i] # None =>
    IF wl[i].desired = "Running"
    THEN Runs(wl[i].type, i) \/ (st[i] # None /\ st[i].terminal)
    ELSE \A ty \in WType : ~Runs(ty, i)

\* Left alone, the reconcile loop brings every stored workload to its desired
\* state, or marks it as beyond retrying, and it stays there.
Converges == Undisturbed => \A i \in WId : <>[]Settled(i)

\* Left alone, but with GetStatus calls writing back statuses they read earlier,
\* every workload that is not coming up by itself is brought to its desired
\* state, or its retries are halted, over and over.
SettlesWhilePolled ==
  Undisturbed =>
    \A i \in WId :
      []<>(Settled(i) \/ \E ty \in WType : res[ty][i] # None /\ res[ty][i].state = "Pending")

\* A resource that failed under a workload that is meant to run.
FailedOnes == {i \in WId : wl[i] # None /\ wl[i].desired = "Running"
                           /\ res[wl[i].type][i] # None /\ res[wl[i].type][i].state = "Failed"}

\* A failure that the policy allows to retry, and that therefore waits for its
\* retry time, is retried: the failed resource is replaced in the end.
RetryAfterBackoff ==
  \A i \in WId : (i \in FailedOnes /\ BackingOff(getRetryTracker(i))) ~> i \notin FailedOnes
=============================================================================
