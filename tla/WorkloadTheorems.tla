--------------------------- MODULE WorkloadTheorems ---------------------------
(***************************************************************************)
(* What the invariants of the manager establish together, and the types    *)
(* of the garbage collector that runs beside it.                           *)
(***************************************************************************)
EXTENDS WorkloadManagerProofs, WorkloadTypeProofs,
        WorkloadStoreProofs, WorkloadVolumeProofs, FiniteSetTheorems

\* The volumes to release, in any order.
LEMMA ListingStep ==
  ASSUME TypeInv, NEW p \in Proc, DeleteList(p)
  PROVE  TypeInv'
<1> DEFINE listed == ListAttachments(proc[p].id)
           attached == {[vol |-> v, policy |-> "none"] : v \in listed}
<1>1. proc[p].pc = "delete_list" /\ UNCHANGED <<wl, st, res, tracker, lock, crashes, vol>>
  BY Zenon DEF DeleteList, At
<1>2. PICK order \in Orders(attached) :
        proc' = [proc EXCEPT ![p].pc = IF order = <<>> THEN "delete_store" ELSE "free_detach",
                             ![p].vols = order, ![p].then = "delete_store"]
  BY Zenon DEF DeleteList
<1>3. /\ ProcTyped /\ StoreTyped /\ proc \in [Proc -> LocalState] /\ proc[p].id \in WId
      /\ proc[p].wl \in Workload
  BY <1>1, MineTyped, ZenonT(40) DEF TypeInv, ProcTyped
<1>4. IsFiniteSet(attached)
  <2> DEFINE f == [v \in listed |-> [vol |-> v, policy |-> "none"]]
  <2>1. IsFiniteSet(listed)
    <3>1. IsFiniteSet(Vol) /\ listed \subseteq Vol
      BY ConfigAssumption, ZenonT(40) DEF ListAttachments
    <3> HIDE DEF listed
    <3> QED BY <3>1, FS_Subset, SMTT(30), Z3T(30)
  <2>2. f \in Surjection(listed, attached)
    BY DEF Surjection
  <2> HIDE DEF f, listed, attached
  <2> QED BY <2>1, <2>2, FS_Surjection, SMTT(30), Z3T(30)
<1>5. order \in Seq(Allocation)
  <2>1. attached \subseteq Allocation
    BY DEF ListAttachments, Allocation
  <2> HIDE DEF attached
  <2>2. Cardinality(attached) \in Nat
    BY <1>4, FS_CardinalityType, SMTT(30), Z3T(30)
  <2>3. order \in [1 .. Cardinality(attached) -> attached]
    BY <1>2, ZenonT(40) DEF Orders
  <2>4. order \in [1 .. Cardinality(attached) -> Allocation]
    BY <2>1, <2>3, ZenonT(40)
  <2> QED BY <2>2, <2>4, ListedSequence, ZenonT(40)
<1> DEFINE l == IF order = <<>> THEN "delete_store" ELSE "free_detach"
<1>6. l \in {"delete_store", "free_detach"} /\ (l = "free_detach" => order # <<>>)
  BY SMTT(30), Z3T(30)
<1> HIDE DEF l
<1>7. Turned(p, l, proc[p].wl, proc[p].st, proc[p].tr, order, "delete_store")
  <2>1. l \in PC /\ "delete_store" \in PC \cup {None}
    BY <1>6, SMTT(30), Z3T(30) DEF PC
  <2>2. proc' = [proc EXCEPT ![p].pc = l, ![p].vols = order, ![p].then = "delete_store"]
    BY <1>2, ZenonT(40) DEF l
  <2> QED BY <1>3, <1>5, <2>1, <2>2, Turns, ZenonT(40)
<1>8. Held(proc'[p])
  BY <1>3, <1>6, <1>7, ZenonT(40) DEF Turned, Held, StatusPC, AllocatePC, EarlyPC, FreePC
<1> QED BY <1>1, <1>3, <1>7, <1>8, TurnedTyped, ZenonT(40) DEF TypeInv, StoreTyped

\* Every step of the manager keeps the types.
LEMMA ManagerTyped ==
  ASSUME TypeInv, Begin \/ Step \/ Surroundings \/ Crash \/ PendingThresholdPasses \/ FailedTTLPasses
  PROVE  TypeInv'
<1>1. CASE Begin
  BY <1>1, BeginningSteps, ZenonT(40) DEF Begin, Proc
<1>2. ASSUME NEW p \in Proc, ApplyStep(p) PROVE TypeInv'
  BY <1>2, ChoosingSteps, StoringSteps, RuntimeSteps, ReadingSteps, ZenonT(40) DEF ApplyStep
<1>3. ASSUME NEW p \in Proc, VolumeStep(p) PROVE TypeInv'
  BY <1>3, AllocatingSteps, FreeingSteps, StoringSteps, ReadingSteps, ZenonT(30) DEF VolumeStep
<1>4. ASSUME NEW p \in Proc, DeleteStep(p) PROVE TypeInv'
  BY <1>4, RuntimeSteps, ListingStep, StoringSteps, ZenonT(40) DEF DeleteStep
<1>5. ASSUME NEW p \in Proc, ReconcileStep(p) PROVE TypeInv'
  BY <1>5, ChoosingSteps, ObservingStep, RuntimeSteps, StartingSteps, ReadingSteps, StoringSteps, ZenonT(30) DEF ReconcileStep
<1>6. CASE Step
  BY <1>2, <1>3, <1>4, <1>5, <1>6, GettingSteps, ZenonT(30) DEF Step, Proc
<1> QED BY <1>1, <1>6, EnvironmentSteps, ZenonT(40)

\* Nothing runs and nothing is stored at the start.
LEMMA TypeInit == Init => TypeInv
<1> SUFFICES ASSUME Init PROVE TypeInv
  BY SMTT(30), Z3T(30)
<1>1. ProcTyped
  BY IdleTyped, ZenonT(40) DEF Init, ProcTyped
<1>2. vol \in [Vol -> Volume(WId)]
  BY ZenonT(40) DEF Init, Volume, NoVolume
<1>3. crashes \in 0 .. MaxCrashes
  BY ConfigAssumption, SMTT(30), Z3T(30) DEF Init
<1> QED BY <1>1, <1>2, <1>3, SMTT(30), Z3T(30) DEF Init, TypeInv, StoreTyped

\* The variables of the manager keep their types.
LEMMA TypesInductive == TypeInv /\ [Next]_vars => TypeInv'
<1> SUFFICES ASSUME TypeInv, [Next]_vars PROVE TypeInv'
  BY SMTT(30), Z3T(30)
<1>1. CASE Next
  BY <1>1, ManagerTyped, SMTT(30), Z3T(30) DEF Next
<1>2. CASE UNCHANGED vars
  BY <1>2, TypesStand, SMTT(30), Z3T(30)
<1> QED BY <1>1, <1>2, SMTT(30), Z3T(30)

\* The goroutines, the store and the runtimes only ever hold values of their types:
\* in particular an operation has the workload, the status, the tracker and the
\* volumes it works with wherever it needs them.
THEOREM ManagerTypes == Spec => []TypeInv
<1>1. Init => TypeInv
  BY TypeInit, SMTT(30), Z3T(30)
<1>2. TypeInv /\ [Next]_vars => TypeInv'
  BY TypesInductive, SMTT(30), Z3T(30)
<1> QED BY <1>1, <1>2, PTL DEF Spec

\* The three invariants together are inductive.
LEMMA StoreInvariant == Spec => [](TypeInv /\ LockInv /\ StoreInv)
<1>1. Init => TypeInv /\ LockInv /\ StoreInv
  BY TypeInit, LockInit, StoreInit, SMTT(30), Z3T(30)
<1>2. TypeInv /\ LockInv /\ StoreInv /\ [Next]_vars => (TypeInv /\ LockInv /\ StoreInv)'
  BY TypesInductive, LockNext, StoreNext, SMTT(30), Z3T(30)
<1> QED BY <1>1, <1>2, PTL DEF Spec

\* While the runtime's Delete succeeds and there is one type of workload, what exists
\* in the runtime has a workload in the store: SaveWorkload comes before CreateWorkload,
\* DeleteWorkload removes from the runtime first, and neither a failed write, nor a
\* crash, nor another operation comes between.
THEOREM ResourcesRecorded ==
  ASSUME SafeDelete
  PROVE  Spec => []EveryResourceRecorded
<1>1. StoreInv => EveryResourceRecorded
  BY ZenonT(40) DEF StoreInv, Kept, EveryResourceRecorded
<1> QED BY <1>1, StoreInvariant, PTL

\* Where GetStatus does not write, a reconcile that is about to start or to recreate
\* a workload does so while the stored status has no retry_terminal mark.
THEOREM HaltsRespected ==
  ASSUME GetProc = {}
  PROVE  Spec => []HaltedNotRetried
<1>1. StoreInv => HaltedNotRetried
  <2> SUFFICES ASSUME StoreInv, NEW p \in RecProc, proc[p].pc \in RetryPC PROVE ~st[proc[p].id].terminal
    BY Zenon DEF HaltedNotRetried, RetryPC
  <2>1. proc[p].pc # "idle"
    BY SMTT(30), Z3T(30) DEF RetryPC
  <2> QED BY <2>1, ZenonT(40) DEF StoreInv, Carried, Carries
<1> QED BY <1>1, StoreInvariant, PTL

\* Where writes succeed and GetStatus does not write, a workload that is not stored
\* and that nobody works on has no status: DeleteWorkload removes both at once and
\* every other save of a status is for a workload that is stored.
THEOREM NoGhosts ==
  ASSUME Reliable
  PROVE  Spec => []NoGhostStatus
<1>1. StoreInv => NoGhostStatus
  BY ConfigAssumption, ZenonT(40) DEF StoreInv, Kept, NoGhostStatus
<1> QED BY <1>1, StoreInvariant, PTL

\* Where writes succeed and replace, and the agent has not crashed, the status of an
\* idle workload names the revision that is in the runtime.
THEOREM RevisionReported ==
  ASSUME Reliable, Replacing
  PROVE  Spec => []RunningRevision
<1>1. TypeInv /\ StoreInv => RunningRevision
  <2> SUFFICES ASSUME TypeInv, StoreInv, NEW i \in WId, crashes = 0, lock[i] = None, wl[i] # None, st[i] # None,
                      Runs(wl[i].type, i)
               PROVE  st[i].rev = res[wl[i].type][i].rev
    BY ZenonT(40) DEF RunningRevision
  <2>1. wl[i].type \in WType
    BY SMTT(30), Z3T(30) DEF TypeInv, StoreTyped, Workload
  <2>2. res[wl[i].type][i].rev = wl[i].rev
    BY <2>1, ZenonT(40) DEF StoreInv, Kept, Runs
  <2>3. None \notin OpProc
    BY ProcAssumption, ZenonT(40) DEF Proc
  <2>4. st[i].rev = wl[i].rev
    BY <2>3, ZenonT(40) DEF StoreInv, Current
  <2> QED BY <2>2, <2>4, ZenonT(40)
<1> QED BY <1>1, StoreInvariant, PTL

\* The agent turns a stopped or failed resource into a running one only for the stored
\* workload of its type and revision, and only while that is meant to run: at each of
\* the five calls of StartWorkload the operation still agrees with the store.
THEOREM StartsDesired ==
  ASSUME Replacing
  PROVE  Spec => StartsOnlyDesired
<1>1. TypeInv /\ LockInv /\ StoreInv /\ [Next]_vars =>
        [\A ty \in WType, i \in WId :
           res[ty][i] # None /\ res[ty][i].state \in {"Stopped", "Failed"} /\ Runs(ty, i)'
             => /\ wl[i] # None
                /\ wl[i].type = ty
                /\ wl[i].desired = "Running"
                /\ wl[i].rev = res[ty][i].rev]_vars
  BY StartStep, ZenonT(40)
<1> QED BY <1>1, StoreInvariant, PTL DEF Spec, StartsOnlyDesired

\* Where one workload names the volumes and writes succeed, so is their invariant, with
\* those of the types and of the lock.
LEMMA VolumeInvariant ==
  ASSUME Alone, ~StoreFaults
  PROVE  Spec => [](TypeInv /\ LockInv /\ VolumeInv)
<1>1. Init => TypeInv /\ LockInv /\ VolumeInv
  BY TypeInit, LockInit, VolumeInit, SMTT(30), Z3T(30)
<1>2. TypeInv /\ LockInv /\ VolumeInv /\ [Next]_vars => (TypeInv /\ LockInv /\ VolumeInv)'
  BY TypesInductive, LockNext, VolumeNext, SMTT(30), Z3T(30)
<1> QED BY <1>1, <1>2, PTL DEF Spec

\* A local volume that the store shows as attached has its directory, whatever fails in
\* a driver and whenever the agent crashes: Provision comes before SaveVolumeAttachment
\* and DeleteVolumeAttachment before Delete, in a rollback as in a release.
THEOREM AttachedVolumesExist ==
  ASSUME Alone, ~StoreFaults
  PROVE  Spec => []AttachedVolumeExists
<1>1. VolumeInv => AttachedVolumeExists
  BY ZenonT(40) DEF VolumeInv, Placed, AttachedVolumeExists, LocalVol
<1> QED BY <1>1, VolumeInvariant, PTL

\* Where no revision names a volume twice, the data of a volume whose handle says retain
\* is not deleted: a release goes by the handle that is stored, and a rollback by a
\* policy that is the one it has stored itself.
THEOREM RetainedKept ==
  ASSUME Alone, ~StoreFaults, Distinct
  PROVE  Spec => RetainKept
<1>1. TypeInv /\ LockInv /\ VolumeInv /\ [Next]_vars =>
        [\A v \in Vol : vol[v].rec = "retain" /\ vol[v].dir => vol'[v].dir]_vars
  BY RetainStep, ZenonT(40) DEF Retains
<1> QED BY <1>1, VolumeInvariant, PTL DEF Spec, RetainKept

\* Where what a driver detaches or deletes is gone, a volume that is not to be retained
\* exists, and one that is staged stays staged, only while it is attached or its
\* workload is being worked on, unless the agent has crashed.
THEOREM NoStrayVolumes ==
  ASSUME Alone, ~StoreFaults, Tidy
  PROVE  Spec => []NoStrayVolume
<1>1. TypeInv /\ LockInv /\ VolumeInv => NoStrayVolume
  BY InOrder, ZenonT(40)
<1> QED BY <1>1, VolumeInvariant, PTL

\* The manager and the collector, which takes none of the manager's locks, never
\* leave each other a value of another type: the collector always has the workload,
\* the status and the answer it goes on with.
THEOREM CollectorTypes == GCSpec => []GCTypeOK
<1>1. GCInit => TypeInv /\ GCHeld
  BY TypeInit, IdleCollector, SMTT(30), Z3T(30) DEF GCInit, GCHeld
<1>2. TypeInv /\ GCHeld /\ [GCNext]_gcvars => (TypeInv /\ GCHeld)'
  <2> SUFFICES ASSUME TypeInv, GCHeld, [GCNext]_gcvars PROVE TypeInv' /\ GCHeld'
    BY Zenon
  <2>1. CASE (Begin \/ Step \/ Surroundings) /\ UNCHANGED gc
    BY <2>1, ManagerTyped, SMTT(30), Z3T(30) DEF GCHeld
  <2>2. CASE Crash /\ gc' = IdleGC
    BY <2>2, ManagerTyped, IdleCollector, SMTT(30), Z3T(30) DEF GCHeld
  <2>3. CASE (PendingThresholdPasses \/ FailedTTLPasses) /\ gc' = [gc EXCEPT !.st = Waited(@)]
    <3>1. gc \in GCLocal /\ Waited(gc.st) \in Status \cup {None} /\ (gc.st \in Status => Waited(gc.st) \in Status)
      BY TimeTypes, SMTT(30), Z3T(30) DEF GCHeld, GCLocal
    <3>2. gc' \in GCLocal
      BY <2>3, <3>1, GCField, ZenonT(40)
    <3>3. /\ gc'.pc = gc.pc /\ gc'.type = gc.type /\ gc'.ids = gc.ids /\ gc'.id = gc.id /\ gc'.listed = gc.listed
          /\ gc'.msg = gc.msg /\ gc'.st = Waited(gc.st)
      BY <2>3, <3>1, ZenonT(40) DEF GCLocal
    <3>4. GCHeld'
      BY <3>1, <3>2, <3>3, ZenonT(40) DEF GCHeld
    <3> QED BY <2>3, <3>4, ManagerTyped, ZenonT(40)
  <2>4. CASE collect \/ GCStep
    BY <2>4, OrphansSteps, FailedSteps, ZombiesSteps, ZenonT(40) DEF GCStep
  <2>5. CASE UNCHANGED gcvars
    BY <2>5, TypesInductive, ZenonT(30) DEF gcvars, vars, GCHeld
  <2> QED BY <2>1, <2>2, <2>3, <2>4, <2>5, ZenonT(40) DEF GCNext
<1>3. TypeInv /\ GCHeld => GCTypeOK
  BY DEF TypeInv, StoreTyped, ProcTyped, GCHeld, GCTypeOK, TypeOK
<1> QED BY <1>1, <1>2, <1>3, PTL DEF GCSpec
===============================================================================
