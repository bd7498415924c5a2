------------------------ MODULE WorkloadManagerProofs -------------------------
(***************************************************************************)
(* The manager for any workloads, revisions, volumes, goroutines and       *)
(* failures: the operation lock and what it gives, that a reconcile acts   *)
(* on the workload that is stored; and what saving before attaching, and   *)
(* deleting in one transaction, give the volumes, that an attachment in    *)
(* the store has its workload beside it.                                   *)
(***************************************************************************)
EXTENDS WorkloadInvariants, TLAPS

\* No other goroutine moves.
Frame(p) ==
  /\ proc' = [q \in Proc |-> proc'[q]]
  /\ \A q \in Proc : Shaped(proc'[q])
  /\ \A q \in Proc \ {p} : proc'[q] = proc[q]

\* A step of p that touches no other goroutine, workload or lock.
Own(p) ==
  /\ Frame(p)
  /\ wl' \in [WId -> Workload \cup {None}]
  /\ lock' = [i \in WId |-> lock'[i]]
  /\ \A i \in WId \ {proc[p].id} : wl'[i] = wl[i] /\ lock'[i] = lock[i]
  /\ proc'[p].pc # "idle" => proc'[p].id = proc[p].id
  /\ Operation(p, proc'[p], lock'[proc[p].id], wl'[proc[p].id])

\* An idle goroutine satisfies Operation whatever the lock and the store hold.
LEMMA IdleOperation ==
  ASSUME NEW p, NEW r, r.pc = "idle", NEW l, NEW x
  PROVE  Operation(p, r, l, x)
BY DEF Operation, FreePC, SetUpPC, RecPC

\* The goroutine of an operation that stands at a label other than idle.
LEMMA Working ==
  ASSUME LockInv, NEW p \in OpProc \cup RecProc, proc[p].pc # "idle"
  PROVE  /\ p \in Proc /\ proc[p].id \in WId /\ lock[proc[p].id] = p
         /\ Operation(p, proc[p], p, wl[proc[p].id])
BY ZenonT(40) DEF LockInv, Operation, Proc

\* Two operations never hold the same lock, so what one does under its lock
\* leaves the others as they are.
LEMMA OwnStep ==
  ASSUME LockInv, NEW p \in OpProc \cup RecProc, proc[p].pc # "idle", Own(p)
  PROVE  LockInv'
<1>1. ASSUME NEW q \in OpProc \cup RecProc
      PROVE  /\ proc'[q].pc # "idle" => proc'[q].id \in WId
             /\ Operation(q, proc'[q], lock'[proc'[q].id], wl'[proc'[q].id])
  <2>1. CASE proc'[q].pc = "idle"
    BY <2>1, IdleOperation
  <2>2. CASE q = p /\ proc'[q].pc # "idle"
    BY <2>2 DEF LockInv, Own, Frame
  <2>3. CASE q # p /\ proc'[q].pc # "idle"
    <3>0. proc'[q] = proc[q]
      BY <2>3 DEF Own, Frame, Proc
    <3>1. proc'[q] = proc[q] /\ proc[q].id \in WId /\ lock[proc[q].id] = q
      BY <2>3, <3>0, Working
    <3>2. lock[proc[p].id] = p
      BY Working
    <3>3. proc[q].id # proc[p].id
      BY <2>3, <3>1, <3>2
    <3>4. lock'[proc[q].id] = q /\ wl'[proc[q].id] = wl[proc[q].id]
      BY <3>1, <3>3 DEF Own
    <3>5. Operation(q, proc[q], q, wl[proc[q].id])
      BY <2>3, <3>0, Working
    <3> QED BY <3>1, <3>4, <3>5
  <2> QED BY <2>1, <2>2, <2>3
<1>2. \A q \in GetProc : proc'[q].pc \in GetPC
  BY ProcAssumption, ZenonT(40) DEF LockInv, Own, Frame, Proc
<1> QED BY <1>1, <1>2 DEF LockInv, Own, Frame

\* A step of p while it holds the lock, and that leaves the stored workload alone.
LEMMA MoveStep ==
  ASSUME LockInv, NEW p \in OpProc \cup RecProc, proc[p].pc # "idle",
         UNCHANGED <<wl, lock>>, Frame(p), proc'[p].id = proc[p].id,
         Operation(p, proc'[p], p, wl[proc[p].id])
  PROVE  LockInv'
<1>1. lock[proc[p].id] = p
  BY Working
<1>2. Own(p)
  BY <1>1 DEF Own, LockInv
<1> QED BY <1>2, OwnStep

\* A step that only moves p, with its workload, to one of the labels L.
Steady(p, L) ==
  /\ UNCHANGED <<wl, lock>>
  /\ Frame(p)
  /\ proc'[p].id = proc[p].id /\ proc'[p].wl = proc[p].wl
  /\ proc'[p].pc \in L

\* Such a step of an apply or a delete, or of a reconcile, keeps the invariant when
\* it does not enter the set-up of volumes, nor their removal with nowhere to go on.
LEMMA SteadyStep ==
  ASSUME LockInv, NEW p \in OpProc \cup RecProc, proc[p].pc \notin {"idle", "apply_admit"},
         NEW L, Steady(p, L),
         \/ /\ p \in OpProc
            /\ L \cap {"idle", "apply_status", "apply_admit"} = {}
            /\ L \cap SetUpPC = {} \/ proc[p].pc \in SetUpPC
            /\ proc'[p].pc \in FreePC => proc'[p].then \in {"fail_read", "delete_store", "idle"}
         \/ p \in RecProc /\ proc[p].pc # "save" /\ L \subseteq RecPC \ {"idle"}
  PROVE  LockInv'
<1>1. proc[p].id \in WId /\ lock[proc[p].id] = p /\ proc[p].wl \in Workload
  BY DEF LockInv, Operation
<1>2. Operation(p, proc'[p], p, wl[proc[p].id])
  <2>1. CASE p \in OpProc
    <3>1. proc'[p].pc \in SetUpPC => wl[proc[p].id] # None
      BY <2>1, ProcAssumption DEF Steady, LockInv, Operation
    <3>2. proc'[p].pc \notin {"idle", "apply_status", "apply_admit"}
      BY <2>1, ProcAssumption DEF Steady
    <3> QED BY <1>1, <2>1, <3>1, <3>2, ProcAssumption, ZenonT(40) DEF Steady, Operation
  <2>2. CASE p \in RecProc
    <3>1. proc[p].wl = wl[proc[p].id] /\ proc'[p].pc \in RecPC \ {"idle"}
      BY <2>2, ProcAssumption DEF Steady, LockInv, Operation
    <3> QED BY <1>1, <2>2, <3>1 DEF Steady, Operation, RecPC, FreePC, SetUpPC
  <2> QED BY <2>1, <2>2
<1> QED BY <1>2, MoveStep DEF Steady

\* Goto and GotoWith are such steps.
LEMMA GotoSteady ==
  ASSUME LockInv, NEW p \in Proc, NEW label, Goto(p, label), UNCHANGED <<wl, lock>>
  PROVE  Steady(p, {label}) /\ proc'[p].pc = label /\ proc'[p].then = proc[p].then
BY ZenonT(40) DEF LockInv, Goto, Steady, Frame, Shaped, Fields

\* The same with a status to save.
LEMMA GotoWithSteady ==
  ASSUME LockInv, NEW p \in Proc, NEW label, NEW s, GotoWith(p, label, s), UNCHANGED <<wl, lock>>
  PROVE  Steady(p, {label}) /\ proc'[p].pc = label /\ proc'[p].then = proc[p].then
BY ZenonT(40) DEF LockInv, GotoWith, Steady, Frame, Shaped, Fields

\* The same on the way through the volumes to free.
LEMMA FreeAndGotoSteady ==
  ASSUME LockInv, NEW p \in Proc, NEW label, FreeAndGoto(p, label), UNCHANGED <<wl, lock>>
  PROVE  Steady(p, {label, "free_detach"}) /\ proc'[p].then = label
<1> DEFINE next == IF proc[p].vols = <<>> THEN label ELSE "free_detach"
<1>1. proc' = [proc EXCEPT ![p].pc = next, ![p].then = label] /\ next \in {label, "free_detach"}
  BY DEF FreeAndGoto
<1> HIDE DEF next
<1>2. /\ Frame(p) /\ proc'[p].pc = next /\ proc'[p].then = label
      /\ proc'[p].id = proc[p].id /\ proc'[p].wl = proc[p].wl
  BY <1>1, ZenonT(40) DEF LockInv, Frame, Shaped, Fields
<1> QED BY <1>1, <1>2, ZenonT(40) DEF Steady

\* An operation returns, perhaps after a change of its own workload.
LEMMA ReturnStep ==
  ASSUME LockInv, NEW p \in OpProc \cup RecProc, proc[p].pc # "idle", Return(p),
         wl' \in [WId -> Workload \cup {None}], \A i \in WId \ {proc[p].id} : wl'[i] = wl[i]
  PROVE  LockInv'
<1>1. Frame(p) /\ proc'[p].pc = "idle"
  BY Zenon DEF LockInv, Return, IdleProc, Frame, Shaped, Fields, Proc
<1>2. lock' = [i \in WId |-> lock'[i]] /\ \A i \in WId \ {proc[p].id} : lock'[i] = lock[i]
  BY DEF LockInv, Return
<1>3. Own(p)
  BY <1>1, <1>2, IdleOperation DEF Own
<1> QED BY <1>3, OwnStep

\* On with the next volume.
LEMMA FreeNextStep ==
  ASSUME LockInv, NEW p \in OpProc, proc[p].pc \in FreePC, FreeNext(p), UNCHANGED wl
  PROVE  LockInv'
<1> DEFINE rest == StillToFree(p)
<1>1. p \in Proc /\ proc[p].pc \notin {"idle", "apply_admit"}
      /\ proc[p].then \in {"fail_read", "delete_store", "idle"}
  BY ZenonT(40) DEF LockInv, Operation, FreePC, Proc
<1>2. CASE Return(p)
  BY <1>1, <1>2, ReturnStep DEF LockInv
<1>3. CASE ~(rest = <<>> /\ proc[p].then = "idle")
  <2> DEFINE label == IF rest = <<>> THEN proc[p].then ELSE "free_detach"
  <2>1. proc' = [proc EXCEPT ![p].vols = rest, ![p].pc = label] /\ UNCHANGED lock
    BY <1>3 DEF FreeNext
  <2>2. label \in {"fail_read", "delete_store", "free_detach"}
    BY <1>1, <1>3
  <2> HIDE DEF label, rest
  <2>3. Steady(p, {label}) /\ proc'[p].then = proc[p].then
    BY <1>1, <2>1, ZenonT(40) DEF LockInv, Steady, Frame, Shaped, Fields
  <2> QED BY <1>1, <2>2, <2>3, SteadyStep DEF SetUpPC
<1> QED BY <1>2, <1>3 DEF FreeNext

\* The steps of an apply that leave the stored workload alone.
LEMMA QuietApplySteps ==
  ASSUME LockInv, NEW p \in OpProc,
         \/ ApplyDeleteOld(p) \/ ApplyCreate(p) \/ ApplyStart(p) \/ ApplyFinal(p) \/ FailRead(p)
         \/ VolumeFail(p) \/ DeleteRuntime(p)
         \/ TransStatus(p) \/ TransStart(p) \/ TransStop(p) \/ TransRecheck(p)
  PROVE  LockInv'
<1> DEFINE L == {"apply_save", "fail_read", "apply_start", "apply_final", "commit", "save",
                 "delete_list", "trans_start", "trans_stop", "trans_recheck", "free_detach"}
<1> DEFINE Quiet == Steady(p, L) /\ (proc'[p].pc = "free_detach" => proc'[p].then = "fail_read")
<1>0. p \in Proc
  BY DEF Proc
<1>a. ASSUME NEW label \in L \ {"free_detach"}, Goto(p, label), UNCHANGED <<wl, lock>> PROVE Quiet
  BY <1>0, <1>a, GotoSteady DEF Steady
<1>b. ASSUME NEW label \in L \ {"free_detach"}, NEW s, GotoWith(p, label, s), UNCHANGED <<wl, lock>> PROVE Quiet
  BY <1>0, <1>b, GotoWithSteady DEF Steady
<1>c. ASSUME FreeAndGoto(p, "fail_read"), UNCHANGED <<wl, lock>> PROVE Quiet
  BY <1>0, <1>c, FreeAndGotoSteady DEF Steady
<1>d. ASSUME Quiet, proc[p].pc \notin {"idle", "apply_admit"} PROVE LockInv'
  <2>1. L \cap {"idle", "apply_status", "apply_admit"} = {} /\ L \cap SetUpPC = {}
    BY DEF SetUpPC
  <2>2. proc'[p].pc \in FreePC => proc'[p].then \in {"fail_read", "delete_store", "idle"}
    BY <1>d DEF Steady, FreePC
  <2> QED BY <1>d, <2>1, <2>2, SteadyStep
<1> HIDE DEF Quiet
<1>1. CASE ApplyDeleteOld(p)
  BY <1>1, <1>a, <1>d DEF ApplyDeleteOld, At
<1>2. CASE ApplyCreate(p)
  <2>1. PICK o : CASE ~o.ok -> FreeAndGoto(p, "fail_read")
                   [] o.ok /\ proc[p].wl.desired = "Running" -> Goto(p, "apply_start")
                   [] OTHER -> Goto(p, "apply_final")
    BY <1>2 DEF ApplyCreate
  <2>2. FreeAndGoto(p, "fail_read") \/ Goto(p, "apply_start") \/ Goto(p, "apply_final")
    BY <2>1
  <2>3. UNCHANGED <<wl, lock>> /\ proc[p].pc = "apply_create"
    BY <1>2 DEF ApplyCreate, At
  <2> QED BY <2>2, <2>3, <1>a, <1>c, <1>d
<1>3. CASE ApplyStart(p)
  <2>1. Goto(p, "apply_final") \/ FreeAndGoto(p, "fail_read")
    BY <1>3 DEF ApplyStart
  <2>2. UNCHANGED <<wl, lock>> /\ proc[p].pc = "apply_start"
    BY <1>3 DEF ApplyStart, At
  <2> QED BY <2>1, <2>2, <1>a, <1>c, <1>d
<1>4. CASE ApplyFinal(p)
  BY <1>4, <1>b, <1>d DEF ApplyFinal, At
<1>5. CASE FailRead(p)
  BY <1>5, <1>b, <1>d DEF FailRead, At
<1>6. CASE VolumeFail(p)
  BY <1>6, <1>b, <1>d DEF VolumeFail, At
<1>7. CASE DeleteRuntime(p)
  BY <1>7, <1>a, <1>d DEF DeleteRuntime, At
<1>8. CASE TransStatus(p)
  BY <1>8, <1>b, <1>d DEF TransStatus, At
<1>9. CASE TransStart(p)
  BY <1>9, <1>a, <1>d DEF TransStart, At
<1>10. CASE TransStop(p)
  BY <1>10, <1>a, <1>b, <1>d DEF TransStop, At
<1>11. CASE TransRecheck(p)
  BY <1>11, <1>b, <1>d DEF TransRecheck, At
<1> QED BY <1>1, <1>2, <1>3, <1>4, <1>5, <1>6, <1>7, <1>8, <1>9, <1>10, <1>11

\* The steps that decide what an apply does.
LEMMA DecideSteps ==
  ASSUME LockInv, NEW p \in OpProc, ApplyStatus(p) \/ ApplyAdmit(p)
  PROVE  LockInv'
<1>0. p \in Proc /\ proc[p].id \in WId /\ lock[proc[p].id] = p /\ proc[p].req \in Workload
      /\ proc[p].pc \in {"apply_status", "apply_admit"} /\ UNCHANGED wl /\ p \notin RecProc
  BY Working, ProcAssumption, ZenonT(40) DEF Operation, ApplyStatus, ApplyAdmit, At
<1>1. CASE Return(p)
  BY <1>0, <1>1, ReturnStep, ZenonT(40) DEF LockInv
<1>2. CASE ApplyStatus(p) /\ ~Return(p)
  <2>0. proc[p].pc = "apply_status" /\ proc[p].wl \in Workload
    BY <1>2, Working, ZenonT(40) DEF ApplyStatus, At, Operation
  <2> DEFINE w == [proc[p].wl EXCEPT !.desired = proc[p].req.desired]
             Transition == \E s : proc' = [proc EXCEPT ![p].pc = "trans_save", ![p].st = s, ![p].wl = w]
  <2>1. UNCHANGED lock /\ (Goto(p, "apply_admit") \/ Transition)
    BY <1>2, ZenonT(40) DEF ApplyStatus
  <2>2. CASE Goto(p, "apply_admit")
    <3>a. Steady(p, {"apply_admit"}) /\ proc'[p].pc = "apply_admit"
      BY <1>0, <2>1, <2>2, GotoSteady, ZenonT(40)
    <3>1. proc'[p].req = proc[p].req
      BY <1>0, <2>2, ZenonT(40) DEF Goto, LockInv, Shaped, Fields
    <3>2. Operation(p, proc'[p], p, wl[proc[p].id])
      BY <1>0, <2>1, <3>a, <3>1, ZenonT(40) DEF Operation, FreePC, SetUpPC
    <3> QED BY <1>0, <2>1, <3>a, <3>2, MoveStep, ZenonT(40) DEF Steady
  <2>3. CASE Transition
    <3>1. w \in Workload
      BY <1>0, <2>0, ZenonT(40) DEF Workload
    <3> HIDE DEF w
    <3>0. PICK s : proc' = [proc EXCEPT ![p].pc = "trans_save", ![p].st = s, ![p].wl = w]
      BY <2>3, Zenon
    <3>2. /\ proc'[p] = [proc[p] EXCEPT !.pc = "trans_save", !.st = s, !.wl = w]
          /\ proc' = [q \in Proc |-> proc'[q]] /\ \A q \in Proc \ {p} : proc'[q] = proc[q]
      BY <1>0, <3>0, Zenon DEF LockInv
    <3>3. Shaped(proc[p])
      BY <1>0, Zenon DEF LockInv
    <3>4. Shaped(proc'[p]) /\ proc'[p].pc = "trans_save" /\ proc'[p].id = proc[p].id /\ proc'[p].wl = w
      BY <3>2, <3>3, ZenonT(40) DEF Shaped, Fields
    <3>5. Frame(p) /\ proc'[p].pc = "trans_save" /\ proc'[p].id = proc[p].id /\ proc'[p].wl = w
      BY <3>2, <3>4, Zenon DEF LockInv, Frame
    <3>6. Operation(p, proc'[p], p, wl[proc[p].id])
      BY <1>0, <2>1, <3>1, <3>5, ZenonT(40) DEF Operation, FreePC, SetUpPC
    <3> QED BY <1>0, <2>1, <3>5, <3>6, MoveStep, ZenonT(40)
  <2> QED BY <2>1, <2>2, <2>3, ZenonT(40)
<1>3. CASE ApplyAdmit(p) /\ ~Return(p)
  <2>1. UNCHANGED lock /\ \E label \in {"apply_delete_old", "apply_save", "apply_reject"} :
                            proc' = [proc EXCEPT ![p].wl = proc[p].req, ![p].pc = label]
    BY <1>3 DEF ApplyAdmit
  <2>2. PICK label \in {"apply_delete_old", "apply_save", "apply_reject"} :
          proc' = [proc EXCEPT ![p].wl = proc[p].req, ![p].pc = label]
    BY <2>1, Zenon
  <2>3. Frame(p) /\ proc'[p].pc = label /\ proc'[p].id = proc[p].id /\ proc'[p].wl = proc[p].req
    BY <1>0, <2>2, ZenonT(40) DEF LockInv, Frame, Shaped, Fields
  <2>4. Operation(p, proc'[p], p, wl[proc[p].id])
    BY <1>0, <2>1, <2>2, <2>3 DEF Operation, FreePC, SetUpPC
  <2> QED BY <1>0, <2>1, <2>3, <2>4, MoveStep, Zenon
<1> QED BY <1>1, <1>2, <1>3, ZenonT(40)

\* Saving a workload under the lock.
LEMMA SaveWorkloadType ==
  ASSUME LockInv, NEW i \in WId, NEW w \in Workload, NEW ok \in BOOLEAN, SaveWorkload(i, w, ok)
  PROVE  /\ wl' \in [WId -> Workload \cup {None}]
         /\ \A j \in WId \ {i} : wl'[j] = wl[j]
         /\ wl'[i] \in {wl[i], w} /\ (ok => wl'[i] = w)
         /\ \A j \in WId : wl[j] # None => wl'[j] # None
BY ProcAssumption DEF LockInv, SaveWorkload

\* The outcomes of a write are Booleans.
LEMMA WriteType == \A ok \in Write : ok \in BOOLEAN
BY ZenonT(40) DEF Write

\* A step of an apply that saves its workload and goes on.
LEMMA SavingStep ==
  ASSUME LockInv, NEW p \in OpProc, proc[p].pc # "idle", NEW ok \in BOOLEAN,
         proc[p].wl \in Workload, SaveWorkload(proc[p].id, proc[p].wl, ok),
         UNCHANGED lock, Frame(p), proc'[p].id = proc[p].id, proc'[p].wl = proc[p].wl,
         proc'[p].pc \notin {"idle", "apply_status", "apply_admit"},
         proc'[p].pc \in SetUpPC => ok,
         proc'[p].pc \in FreePC => proc'[p].then = "idle"
  PROVE  LockInv'
<1>1. p \notin RecProc /\ proc[p].id \in WId /\ lock[proc[p].id] = p
  BY Working, ProcAssumption
<1>2. /\ wl' \in [WId -> Workload \cup {None}]
      /\ \A j \in WId \ {proc[p].id} : wl'[j] = wl[j]
      /\ ok => wl'[proc[p].id] = proc[p].wl
  BY <1>1, SaveWorkloadType
<1>3. Operation(p, proc'[p], p, wl'[proc[p].id])
  BY <1>1, <1>2, ProcAssumption, SMTT(30) DEF Operation
<1>4. Own(p)
  BY <1>1, <1>2, <1>3, SMTT(30) DEF Own, LockInv
<1> QED BY <1>4, OwnStep

\* The steps of an apply that write the workload: the rejection, the first save, the
\* save before a transition and the one with the mounts.
LEMMA SavingSteps ==
  ASSUME LockInv, NEW p \in OpProc,
         ApplyReject(p) \/ ApplySave(p) \/ TransSave(p) \/ VolumeSave(p)
  PROVE  LockInv' /\ \A j \in WId : wl[j] # None => wl'[j] # None
<1>0. /\ p \in Proc /\ proc[p].id \in WId /\ proc[p].wl \in Workload
      /\ proc[p].pc \in {"apply_reject", "apply_save", "trans_save", "vol_save"}
  BY Working, ZenonT(40) DEF Operation, ApplyReject, ApplySave, TransSave, VolumeSave, At
<1>1. PICK ok \in BOOLEAN :
        /\ SaveWorkload(proc[p].id, proc[p].wl, ok)
        /\ \/ Return(p)
           \/ UNCHANGED lock /\ Goto(p, "fail_read")
           \/ UNCHANGED lock /\ Goto(p, "trans_status")
           \/ UNCHANGED lock /\ Goto(p, "apply_create")
           \/ UNCHANGED lock /\ ok /\ Goto(p, "apply_initial")
           \/ UNCHANGED lock /\ FreeAndGoto(p, "idle")
  BY WriteType, ZenonT(40) DEF ApplyReject, ApplySave, TransSave, VolumeSave
<1>2. /\ wl' \in [WId -> Workload \cup {None}]
      /\ \A j \in WId \ {proc[p].id} : wl'[j] = wl[j]
      /\ \A j \in WId : wl[j] # None => wl'[j] # None
  BY <1>0, <1>1, SaveWorkloadType, ZenonT(40)
<1>3. CASE Return(p)
  BY <1>0, <1>2, <1>3, ReturnStep, ZenonT(40)
<1>4. ASSUME NEW label \in {"fail_read", "trans_status", "apply_create", "apply_initial"},
             Goto(p, label), UNCHANGED lock, label = "apply_initial" => ok
      PROVE  LockInv'
  <2>1. /\ Frame(p) /\ proc'[p].id = proc[p].id /\ proc'[p].wl = proc[p].wl /\ proc'[p].pc = label
    BY <1>0, <1>4, ZenonT(40) DEF Goto, LockInv, Frame, Shaped, Fields
  <2> QED BY <1>0, <1>1, <1>4, <2>1, SavingStep DEF SetUpPC, FreePC
<1>5. CASE UNCHANGED lock /\ FreeAndGoto(p, "idle")
  <2>1. /\ Frame(p) /\ proc'[p].id = proc[p].id /\ proc'[p].wl = proc[p].wl /\ proc'[p].then = "idle"
        /\ proc'[p].pc \in {"idle", "free_detach"}
    <3> DEFINE label == IF proc[p].vols = <<>> THEN "idle" ELSE "free_detach"
    <3>1. proc' = [proc EXCEPT ![p].pc = label, ![p].then = "idle"] /\ label \in {"idle", "free_detach"}
      BY <1>5 DEF FreeAndGoto
    <3> HIDE DEF label
    <3> QED BY <1>0, <3>1, ZenonT(40) DEF LockInv, Frame, Shaped, Fields
  <2>2. CASE proc'[p].pc = "free_detach"
    <3>1. /\ proc[p].pc # "idle" /\ proc'[p].pc \notin {"idle", "apply_status", "apply_admit"}
          /\ proc'[p].pc \notin SetUpPC
      BY <1>0, <2>2, SMTT(30) DEF SetUpPC
    <3> QED BY <1>0, <1>1, <1>2, <1>5, <2>1, <3>1, SavingStep, SMTT(30)
  <2>3. CASE proc'[p].pc = "idle"
    <3>1. Operation(p, proc'[p], lock'[proc[p].id], wl'[proc[p].id])
      BY <2>3, IdleOperation
    <3>2. lock' = [i \in WId |-> lock'[i]]
      BY <1>5 DEF LockInv
    <3>3. Own(p)
      BY <1>2, <1>5, <2>1, <2>3, <3>1, <3>2 DEF Own
    <3>4. proc[p].pc # "idle" /\ p \in OpProc \cup RecProc
      BY <1>0, ZenonT(40)
    <3> QED BY <1>2, <3>3, <3>4, OwnStep
  <2> QED BY <2>1, <2>2, <2>3
<1> QED BY <1>1, <1>2, <1>3, <1>4, <1>5, ZenonT(40)

\* The steps that end an operation with a status.
LEMMA EndingSteps ==
  ASSUME LockInv, NEW p \in OpProc \cup RecProc, Commit(p) \/ Save(p)
  PROVE  LockInv'
<1>1. proc[p].pc # "idle" /\ Return(p) /\ UNCHANGED wl
  BY DEF Commit, Save, At
<1> QED BY <1>1, ReturnStep DEF LockInv

\* The end of a delete.
LEMMA DeleteStoreStep ==
  ASSUME LockInv, NEW p \in OpProc, DeleteStore(p)
  PROVE  LockInv'
<1>1. proc[p].pc # "idle" /\ Return(p) /\ DeleteRecords(proc[p].id)
  BY DEF DeleteStore, At
<1>2. proc[p].id \in WId
  BY <1>1, Working
<1>3. wl' \in [WId -> Workload \cup {None}] /\ \A j \in WId \ {proc[p].id} : wl'[j] = wl[j]
  BY <1>1, <1>2 DEF DeleteRecords, LockInv
<1> QED BY <1>1, <1>3, ReturnStep

\* Setting up the volumes.
LEMMA SetUpSteps ==
  ASSUME LockInv, NEW p \in OpProc,
         ApplyInitial(p) \/ VolumeProvision(p) \/ VolumeRecord(p) \/ VolumeAttach(p)
  PROVE  LockInv'
<1> DEFINE L == {"apply_create", "vol_provision", "vol_record", "vol_attach", "vol_attachment", "vol_fail"}
<1>1. PICK label \in L : Goto(p, label)
  BY ZenonT(40) DEF ApplyInitial, VolumeProvision, VolumeRecord, VolumeAttach, VolumeCall
<1>2. UNCHANGED <<wl, lock>> /\ proc[p].pc \in SetUpPC
  BY SMTT(30) DEF ApplyInitial, VolumeProvision, VolumeRecord, VolumeAttach, At, SetUpPC
<1>3. Steady(p, {label}) /\ proc'[p].pc = label /\ p \in Proc
  BY <1>1, <1>2, GotoSteady, SMTT(30) DEF Proc
<1> QED BY <1>2, <1>3, SteadyStep, ZenonT(40) DEF SetUpPC, FreePC

\* An attachment is saved and the spec of the workload may change; the workload
\* in the store does not.
LEMMA VolumeAttachmentStep ==
  ASSUME LockInv, NEW p \in OpProc, VolumeAttachment(p)
  PROVE  LockInv'
<1> DEFINE all == Append(proc[p].vols, Wanted(p))
           last == Len(all) = Len(ManagedVolumes(proc[p].wl))
           w == [proc[p].wl EXCEPT !.bound = last]
           label == IF last THEN "vol_save" ELSE "vol_provision"
<1>1. proc' = [proc EXCEPT ![p].vols = all, ![p].wl = w, ![p].pc = label]
  BY DEF VolumeAttachment
<1>2. proc[p].pc = "vol_attachment" /\ UNCHANGED <<wl, lock>>
  BY DEF VolumeAttachment, At
<1>3. p \in Proc /\ p \notin RecProc /\ proc[p].id \in WId /\ proc[p].wl \in Workload /\ wl[proc[p].id] # None
  BY <1>2, Working, ProcAssumption DEF Operation, SetUpPC
<1>4. w \in Workload
  <2>1. last \in BOOLEAN
    OBVIOUS
  <2> HIDE DEF last
  <2> QED BY <1>3, <2>1 DEF Workload
<1>5. label \in {"vol_save", "vol_provision"}
  OBVIOUS
<1> HIDE DEF all, last, w, label
<1>6. Frame(p) /\ proc'[p].id = proc[p].id /\ proc'[p].wl = w /\ proc'[p].pc = label
  BY <1>1, <1>3, ZenonT(40) DEF LockInv, Frame, Shaped, Fields
<1>7. Operation(p, proc'[p], p, wl[proc[p].id])
  BY <1>3, <1>4, <1>5, <1>6 DEF Operation, FreePC, SetUpPC
<1> QED BY <1>2, <1>6, <1>7, MoveStep, SMTT(30)

\* Taking volumes down.
LEMMA FreeSteps ==
  ASSUME LockInv, NEW p \in OpProc,
         FreeDetach(p) \/ FreeAttachment(p) \/ FreeLookup(p) \/ FreeDelete(p) \/ FreeRecord(p)
  PROVE  LockInv'
<1>1. proc[p].pc \in FreePC /\ UNCHANGED wl
  BY DEF FreeDetach, FreeAttachment, FreeLookup, FreeDelete, FreeRecord, At, FreePC
<1>2. \/ FreeNext(p)
      \/ UNCHANGED lock /\ \E label \in FreePC : Goto(p, label)
  BY DEF FreeDetach, FreeAttachment, FreeLookup, FreeDelete, FreeRecord, FreePC
<1>3. CASE UNCHANGED lock /\ \E label \in FreePC : Goto(p, label)
  <2>1. PICK label \in FreePC : Goto(p, label)
    BY <1>3
  <2>2. p \in Proc /\ proc[p].pc \notin {"idle", "apply_admit"}
        /\ proc[p].then \in {"fail_read", "delete_store", "idle"}
    BY <1>1, Working, ZenonT(40) DEF Operation, FreePC
  <2>3. Steady(p, {label}) /\ proc'[p].then = proc[p].then
    BY <1>1, <1>3, <2>1, <2>2, GotoSteady
  <2>4. {label} \cap {"idle", "apply_status", "apply_admit"} = {} /\ {label} \cap SetUpPC = {}
    BY <2>1 DEF FreePC, SetUpPC
  <2> QED BY <2>2, <2>3, <2>4, SteadyStep, Zenon
<1> QED BY <1>1, <1>2, <1>3, FreeNextStep

\* Listing what a delete releases.
LEMMA DeleteListStep ==
  ASSUME LockInv, NEW p \in OpProc, DeleteList(p)
  PROVE  LockInv'
<1>1. p \in Proc /\ proc[p].pc = "delete_list" /\ UNCHANGED <<wl, lock>>
  BY DEF DeleteList, At, Proc
<1>a. PICK order :
        proc' = [proc EXCEPT ![p].pc = IF order = <<>> THEN "delete_store" ELSE "free_detach",
                             ![p].vols = order, ![p].then = "delete_store"]
  BY Zenon DEF DeleteList
<1> DEFINE label == IF order = <<>> THEN "delete_store" ELSE "free_detach"
<1>2. /\ label \in {"delete_store", "free_detach"}
      /\ proc' = [proc EXCEPT ![p].pc = label, ![p].vols = order, ![p].then = "delete_store"]
  BY <1>a
<1> HIDE DEF label
<1>3. Steady(p, {label}) /\ proc'[p].then = "delete_store"
  BY <1>1, <1>2, SMTT(30) DEF LockInv, Steady, Frame, Shaped, Fields
<1>4. {label} \cap {"idle", "apply_status", "apply_admit"} = {} /\ {label} \cap SetUpPC = {}
  BY <1>2 DEF SetUpPC
<1> QED BY <1>1, <1>3, <1>4, SteadyStep, Zenon

\* The steps of a reconcile.
LEMMA ReconcileSteps ==
  ASSUME LockInv, NEW p \in RecProc, ReconcileStep(p)
  PROVE  LockInv'
<1> DEFINE L == RecPC \ {"idle"}
<1>0. p \in Proc /\ p \in OpProc \cup RecProc
  BY SMTT(30) DEF Proc
<1>a. ASSUME NEW label \in L, Goto(p, label), UNCHANGED <<wl, lock>>,
             proc[p].pc \notin {"idle", "apply_admit", "save"}
      PROVE  LockInv'
  <2>1. Steady(p, {label})
    BY <1>0, <1>a, GotoSteady, SMTT(30)
  <2> QED BY <1>0, <1>a, <2>1, SteadyStep, SMTT(30)
<1>b. ASSUME NEW label \in L, NEW s, GotoWith(p, label, s), UNCHANGED <<wl, lock>>,
             proc[p].pc \notin {"idle", "apply_admit", "save"}
      PROVE  LockInv'
  <2>1. Steady(p, {label})
    BY <1>0, <1>b, GotoWithSteady
  <2> QED BY <1>0, <1>b, <2>1, SteadyStep
<1>c. L = {"rec_load", "rec_observe", "rec_delete", "rec_create", "rec_restart", "rec_start",
           "rec_stop", "rec_recheck", "pend_stop", "pend_start", "pend_delete", "pend_save", "save"}
  BY DEF RecPC
<1> HIDE DEF L
<1>1. CASE ReconcileLoad(p)
  <2>1. proc[p].pc = "rec_load" /\ UNCHANGED wl
    BY <1>1, ZenonT(40) DEF ReconcileLoad, At
  <2>2. CASE Return(p)
    BY <1>0, <2>1, <2>2, ReturnStep, ZenonT(40) DEF LockInv
  <2>3. CASE ~Return(p)
    <3>1. UNCHANGED lock /\ GotoWith(p, "rec_observe", StoredStatus(proc[p].id))
      BY <1>1, <2>3, ZenonT(40) DEF ReconcileLoad
    <3> QED BY <2>1, <3>1, <1>b, <1>c, ZenonT(40)
  <2> QED BY <2>2, <2>3
<1>2. CASE ReconcileObserve(p)
  <2>1. proc[p].pc = "rec_observe" /\ UNCHANGED <<wl, lock>>
    BY <1>2 DEF ReconcileObserve, At
  <2> DEFINE Goes == \E label \in L : \E s : GotoWith(p, label, s)
             Starts == \E s, t : proc' = [proc EXCEPT ![p].pc = "rec_start", ![p].st = s, ![p].tr = t]
  <2>2. Goes \/ Starts
    <3>0. ASSUME NEW s, GotoWith(p, "save", s) PROVE Goes
      BY <3>0, <1>c
    <3>1. ASSUME NEW s, Readmit(p, s) PROVE Goes
      BY <3>1, <1>c DEF Readmit
    <3>2. ASSUME NEW actual, ReconcileStopped(p, actual) PROVE Goes
      BY <3>2, <1>c DEF ReconcileStopped
    <3>3. ReconcilePending(p) => Goes
      BY <1>c DEF ReconcilePending
    <3>4. ReconcileMissing(p) => Goes
      BY <3>1, <1>c DEF ReconcileMissing
    <3>5. ReconcileFailed(p) => Goes
      BY <3>1, <1>c, ZenonT(40) DEF ReconcileFailed
    <3>6. ReconcileNotRunning(p) => Goes \/ Starts
      BY <1>c, ZenonT(40) DEF ReconcileNotRunning
    <3> HIDE DEF Goes, Starts
    <3> QED BY <1>2, <3>0, <3>2, <3>3, <3>4, <3>5, <3>6, ZenonT(40) DEF ReconcileObserve
  <2>3. CASE Starts
    <3>1. PICK s, t : proc' = [proc EXCEPT ![p].pc = "rec_start", ![p].st = s, ![p].tr = t]
      BY <2>3, ZenonT(40)
    <3>2. Frame(p) /\ proc'[p].id = proc[p].id /\ proc'[p].wl = proc[p].wl /\ proc'[p].pc = "rec_start"
      BY <1>0, <3>1 DEF LockInv, Frame, Shaped, Fields
    <3>3. Steady(p, {"rec_start"}) /\ {"rec_start"} \subseteq RecPC \ {"idle"}
      BY <2>1, <3>2 DEF Steady, RecPC
    <3> QED BY <1>0, <2>1, <3>3, SteadyStep, ZenonT(40)
  <2> QED BY <2>1, <2>2, <2>3, <1>b, ZenonT(40)
<1>3. CASE ReconcileDelete(p)
  BY <1>3, <1>a, <1>c DEF ReconcileDelete, At
<1>4. CASE ReconcileCreate(p)
  BY <1>4, <1>b, <1>c DEF ReconcileCreate, At
<1>5. CASE ReconcileRestart(p)
  BY <1>5, <1>b, <1>c, ZenonT(40) DEF ReconcileRestart, At
<1>6. CASE ReconcileStart(p)
  BY <1>6, <1>b, <1>c, Zenon DEF ReconcileStart, At
<1>7. CASE ReconcileStop(p)
  BY <1>7, <1>b, <1>c DEF ReconcileStop, At
<1>8. CASE ReconcileRecheck(p)
  BY <1>8, <1>b, <1>c, ZenonT(40) DEF ReconcileRecheck, At
<1>9. CASE PendingStop(p)
  BY <1>9, <1>a, <1>c DEF PendingStop, At
<1>10. CASE PendingStart(p)
  BY <1>10, <1>a, <1>b, <1>c DEF PendingStart, At
<1>11. CASE PendingDelete(p)
  BY <1>11, <1>b, <1>c DEF PendingDelete, At
<1>12. CASE PendingSave(p)
  <2> DEFINE w == [proc[p].wl EXCEPT !.desired = "Stopped"]
  <2>1. PICK ok \in BOOLEAN : SaveWorkload(proc[p].id, w, ok)
    BY <1>12, WriteType DEF PendingSave
  <2>2. /\ proc[p].pc = "pend_save" /\ UNCHANGED lock
        /\ proc' = [proc EXCEPT ![p].pc = "save", ![p].wl = w]
    BY <1>12 DEF PendingSave, At
  <2>3. proc[p].id \in WId /\ lock[proc[p].id] = p /\ proc[p].wl \in Workload
    BY <2>2, Working DEF Operation
  <2>4. w \in Workload
    BY <2>3 DEF Workload, Desired
  <2> HIDE DEF w
  <2>5. wl' \in [WId -> Workload \cup {None}] /\ \A j \in WId \ {proc[p].id} : wl'[j] = wl[j]
    BY <2>1, <2>3, <2>4, SaveWorkloadType
  <2>6. Frame(p) /\ proc'[p].id = proc[p].id /\ proc'[p].wl = w /\ proc'[p].pc = "save"
    BY <1>0, <2>2, ZenonT(40) DEF LockInv, Frame, Shaped, Fields
  <2>7. Operation(p, proc'[p], p, wl'[proc[p].id])
    BY <2>4, <2>6 DEF Operation, FreePC, SetUpPC, RecPC
  <2>8. Own(p)
    BY <2>2, <2>3, <2>5, <2>6, <2>7 DEF Own, LockInv
  <2> QED BY <1>0, <2>2, <2>8, OwnStep
<1>13. CASE Save(p)
  BY <1>0, <1>13, EndingSteps
<1> QED BY <1>1, <1>2, <1>3, <1>4, <1>5, <1>6, <1>7, <1>8, <1>9, <1>10, <1>11, <1>12, <1>13, ZenonT(40)
    DEF ReconcileStep

\* An operation begins: it takes the lock, which nobody has.
LEMMA BeginSteps ==
  ASSUME LockInv, NEW i \in WId, NEW p \in OpProc \cup RecProc,
         \/ p \in OpProc /\ DeleteWorkload(p, i)
         \/ p \in OpProc /\ \E w \in Request : ApplyWorkload(p, i, w)
         \/ p \in RecProc /\ ReconcileWorkload(p, i)
  PROVE  LockInv'
<1> DEFINE Begun(r) ==
             /\ Shaped(r) /\ r.id = i /\ r.wl = wl[i]
             /\ \/ p \in OpProc /\ r.pc = "delete_runtime" /\ wl[i] # None
                \/ p \in OpProc /\ r.pc = "apply_status" /\ wl[i] # None /\ r.req \in Workload
                \/ p \in OpProc /\ r.pc = "apply_admit" /\ r.req \in Workload
                \/ p \in RecProc /\ r.pc = "rec_load" /\ wl[i] # None
<1>0. p \in Proc /\ lock[i] = None /\ lock' = [lock EXCEPT ![i] = p] /\ UNCHANGED wl
  BY Zenon DEF DeleteWorkload, ApplyWorkload, ReconcileWorkload, Proc
<1> DEFINE Start(label, w) == [IdleProc EXCEPT !.pc = label, !.id = i, !.req = w, !.wl = wl[i]]
<1>1. \E r : proc' = [proc EXCEPT ![p] = r] /\ Begun(r)
  <2>1. CASE p \in OpProc /\ DeleteWorkload(p, i)
    <3> DEFINE r == [IdleProc EXCEPT !.pc = "delete_runtime", !.id = i, !.wl = wl[i]]
    <3>1. proc' = [proc EXCEPT ![p] = r] /\ wl[i] # None
      BY <2>1 DEF DeleteWorkload, GetWorkload
    <3>2. Shaped(r) /\ r.pc = "delete_runtime" /\ r.id = i /\ r.wl = wl[i]
      BY Zenon DEF IdleProc, Shaped, Fields
    <3> HIDE DEF r
    <3> QED BY <2>1, <3>1, <3>2, Zenon
  <2>2. CASE p \in RecProc /\ ReconcileWorkload(p, i)
    <3> DEFINE r == [IdleProc EXCEPT !.pc = "rec_load", !.id = i, !.wl = wl[i]]
    <3>1. proc' = [proc EXCEPT ![p] = r] /\ wl[i] # None
      BY <2>2 DEF ReconcileWorkload, GetWorkload, ListWorkloads
    <3>2. Shaped(r) /\ r.pc = "rec_load" /\ r.id = i /\ r.wl = wl[i]
      BY Zenon DEF IdleProc, Shaped, Fields
    <3> HIDE DEF r
    <3> QED BY <2>2, <3>1, <3>2, Zenon
  <2>3. CASE p \in OpProc /\ \E w \in Request : ApplyWorkload(p, i, w)
    <3>1. PICK w \in Request : ApplyWorkload(p, i, w)
      BY <2>3
    <3>2. w \in Workload
      BY <3>1 DEF Request
    <3>3. CASE wl[i] # None /\ wl[i].rev = w.rev
      <4> DEFINE r == Start("apply_status", w)
      <4>1. proc' = [proc EXCEPT ![p] = r]
        BY <3>1, <3>3, Zenon DEF ApplyWorkload, GetWorkload
      <4>2. Shaped(r) /\ r.pc = "apply_status" /\ r.id = i /\ r.wl = wl[i] /\ r.req = w
        BY ZenonT(40) DEF IdleProc, Shaped, Fields
      <4> HIDE DEF r
      <4> QED BY <2>3, <3>2, <3>3, <4>1, <4>2, Zenon
    <3>4. CASE ~(wl[i] # None /\ wl[i].rev = w.rev)
      <4> DEFINE r == Start("apply_admit", w)
      <4>1. proc' = [proc EXCEPT ![p] = r]
        BY <3>1, <3>4, Zenon DEF ApplyWorkload, GetWorkload
      <4>2. Shaped(r) /\ r.pc = "apply_admit" /\ r.id = i /\ r.wl = wl[i] /\ r.req = w
        BY ZenonT(40) DEF IdleProc, Shaped, Fields
      <4> HIDE DEF r
      <4> QED BY <2>3, <3>2, <4>1, <4>2, Zenon
    <3> QED BY <3>3, <3>4, ZenonT(40)
  <2> QED BY <2>1, <2>2, <2>3, ZenonT(40)
<1>2. PICK r : proc' = [proc EXCEPT ![p] = r] /\ Begun(r)
  BY <1>1, Zenon
<1>4. Frame(p) /\ proc'[p] = r
  BY <1>0, <1>2, ZenonT(40) DEF LockInv, Frame
<1>5. wl[i] # None => wl[i] \in Workload
  BY ZenonT(40) DEF LockInv
<1>6. Operation(p, r, p, wl[i])
  BY <1>2, <1>5, ProcAssumption, ZenonT(40) DEF Operation, FreePC, SetUpPC, RecPC
<1>7. ASSUME NEW q \in OpProc \cup RecProc
      PROVE  /\ proc'[q].pc # "idle" => proc'[q].id \in WId
             /\ Operation(q, proc'[q], lock'[proc'[q].id], wl'[proc'[q].id])
  <2>1. CASE q = p
    <3>1. lock'[i] = p
      BY <1>0, ZenonT(40) DEF LockInv
    <3> QED BY <1>0, <1>2, <1>4, <1>6, <2>1, <3>1, ZenonT(40)
  <2>2. CASE q # p /\ proc'[q].pc = "idle"
    BY <2>2, IdleOperation, ZenonT(40)
  <2>3. CASE q # p /\ proc'[q].pc # "idle"
    <3>1. proc'[q] = proc[q]
      BY <1>4, <2>3 DEF Frame, Proc
    <3>2. q # None
      BY ProcAssumption, ZenonT(40) DEF Proc
    <3>3. proc[q].id # i /\ proc[q].id \in WId
      BY <1>0, <2>3, <3>1, <3>2, Working, ZenonT(40)
    <3>4. lock'[proc[q].id] = lock[proc[q].id]
      BY <1>0, <3>3 DEF LockInv
    <3> QED BY <1>0, <3>1, <3>3, <3>4, ZenonT(40) DEF LockInv
  <2> QED BY <2>1, <2>2, <2>3, ZenonT(40)
<1>8. \A q \in GetProc : proc'[q].pc \in GetPC
  BY <1>4, ProcAssumption, Zenon DEF Frame, LockInv, Proc
<1>9. lock' = [j \in WId |-> lock'[j]] /\ wl' \in [WId -> Workload \cup {None}]
  BY <1>0, ZenonT(40) DEF LockInv
<1> QED BY <1>4, <1>7, <1>8, <1>9, ZenonT(40) DEF LockInv, Frame

\* GetStatus moves only itself, and not to a label of a locked operation.
LEMMA GetSteps ==
  ASSUME LockInv, NEW p \in GetProc, (\E i \in WId : GetStatus(p, i)) \/ GetStep(p)
  PROVE  LockInv'
<1>0. p \in Proc /\ UNCHANGED <<wl, lock>>
  BY Zenon DEF Proc, GetStatus, GetStep, GetStatusWorkload, GetStatusObserve, GetStatusSave
<1>1. Shaped(IdleProc) /\ IdleProc.pc = "idle"
  BY DEF IdleProc, Shaped, Fields
<1>2. Frame(p) /\ proc'[p].pc \in GetPC
  <2>1. ASSUME NEW r, Shaped(r), proc' = [proc EXCEPT ![p] = r] PROVE Frame(p) /\ proc'[p] = r
    BY <1>0, <2>1 DEF LockInv, Frame
  <2>2. CASE proc' = [proc EXCEPT ![p] = IdleProc]
    BY <1>1, <2>1, <2>2, Zenon DEF GetPC
  <2>3. CASE \E i \in WId : GetStatus(p, i)
    <3>1. PICK i : proc' = [proc EXCEPT ![p] =
                      [IdleProc EXCEPT !.pc = "get_workload", !.id = i, !.st = StoredStatus(i)]]
      BY <2>3, Zenon DEF GetStatus
    <3> DEFINE r == [IdleProc EXCEPT !.pc = "get_workload", !.id = i, !.st = StoredStatus(i)]
    <3>2. Shaped(r) /\ r.pc = "get_workload"
      BY Zenon DEF IdleProc, Shaped, Fields
    <3> HIDE DEF r
    <3>3. proc' = [proc EXCEPT ![p] = r]
      BY <3>1 DEF r
    <3> QED BY <2>1, <3>2, <3>3, Zenon DEF GetPC
  <2>4. CASE GetStatusWorkload(p) /\ proc' # [proc EXCEPT ![p] = IdleProc]
    <3> DEFINE r == [proc[p] EXCEPT !.pc = "get_observe", !.wl = GetWorkload(proc[p].id)]
    <3>1. proc' = [proc EXCEPT ![p] = r]
      BY <2>4, Zenon DEF GetStatusWorkload
    <3>2. Shaped(r) /\ r.pc = "get_observe"
      BY <1>0, Zenon DEF LockInv, Shaped, Fields
    <3> HIDE DEF r
    <3> QED BY <2>1, <3>1, <3>2, Zenon DEF GetPC
  <2>5. CASE GetStatusObserve(p) /\ proc' # [proc EXCEPT ![p] = IdleProc]
    <3>1. \E s : GotoWith(p, "get_save", s)
      BY <2>5 DEF GetStatusObserve
    <3> QED BY <1>0, <3>1, GotoWithSteady, ZenonT(40) DEF Steady, GetPC
  <2> QED BY <2>2, <2>3, <2>4, <2>5, ZenonT(40) DEF GetStep, GetStatusSave
<1>3. \A q \in OpProc \cup RecProc : proc'[q] = proc[q]
  BY <1>2, ProcAssumption DEF Frame, Proc
<1>4. \A q \in GetProc : proc'[q].pc \in GetPC
  BY <1>2, Zenon DEF Frame, LockInv, Proc
<1> QED BY <1>0, <1>2, <1>3, <1>4, ZenonT(40) DEF LockInv, Frame

\* A crash leaves every goroutine idle and every lock free.
LEMMA CrashStep ==
  ASSUME LockInv, Crash
  PROVE  LockInv'
<1>1. Shaped(IdleProc) /\ IdleProc.pc = "idle"
  BY DEF IdleProc, Shaped, Fields
<1>2. proc' = [q \in Proc |-> IdleProc] /\ lock' = [i \in WId |-> None] /\ UNCHANGED wl
  BY DEF Crash
<1>3. \A p \in Proc : Operation(p, IdleProc, lock'[proc'[p].id], wl'[proc'[p].id])
  BY <1>1, IdleOperation
<1> HIDE DEF Crash
<1> QED BY <1>1, <1>2, <1>3, ZenonT(40) DEF LockInv, Proc, GetPC

\* The passing of time touches only the statuses that goroutines have read.
LEMMA TimeSteps ==
  ASSUME LockInv, PendingThresholdPasses \/ FailedTTLPasses
  PROVE  LockInv'
<1>1. /\ UNCHANGED <<wl, lock>> /\ proc' = [q \in Proc |-> proc'[q]]
      /\ \A q \in Proc : \E s : proc'[q] = [proc[q] EXCEPT !.st = s]
  BY Zenon DEF PendingThresholdPasses, FailedTTLPasses
<1>2. ASSUME NEW q \in Proc
      PROVE  /\ Shaped(proc'[q]) /\ proc'[q].pc = proc[q].pc /\ proc'[q].id = proc[q].id
             /\ proc'[q].wl = proc[q].wl /\ proc'[q].req = proc[q].req /\ proc'[q].then = proc[q].then
  <2>1. PICK s : proc'[q] = [proc[q] EXCEPT !.st = s]
    BY <1>1, <1>2, ZenonT(40)
  <2> QED BY <1>2, <2>1 DEF LockInv, Shaped, Fields
<1>3. \A q \in OpProc \cup RecProc : Operation(q, proc[q], lock[proc[q].id], wl[proc[q].id])
                                       => Operation(q, proc'[q], lock[proc[q].id], wl[proc[q].id])
  BY <1>2 DEF Operation, Proc
<1> QED BY <1>1, <1>2, <1>3, Zenon DEF LockInv, Proc

\* Drift and the end of back-offs concern neither goroutines nor the store.
LEMMA OtherSteps ==
  ASSUME LockInv, Surroundings \/ UNCHANGED vars
  PROVE  LockInv'
<1>1. UNCHANGED <<proc, wl, lock>>
  BY SMTT(30) DEF Surroundings, BackoffElapses, Drift, vars
<1> QED BY <1>1 DEF LockInv

\* A step of an apply or a delete keeps the invariant of the lock.
LEMMA OperationSteps ==
  ASSUME LockInv, NEW p \in OpProc, ApplyStep(p) \/ VolumeStep(p) \/ DeleteStep(p)
  PROVE  LockInv'
<1>1. CASE ApplyStep(p)
  <2>1. CASE \/ ApplyDeleteOld(p) \/ ApplyCreate(p) \/ ApplyStart(p) \/ ApplyFinal(p) \/ FailRead(p)
             \/ TransStatus(p) \/ TransStart(p) \/ TransStop(p) \/ TransRecheck(p)
    BY <2>1, QuietApplySteps, Zenon
  <2>2. CASE ApplyStatus(p) \/ ApplyAdmit(p)
    BY <2>2, DecideSteps, Zenon
  <2>3. CASE ApplyReject(p) \/ ApplySave(p) \/ TransSave(p)
    BY <2>3, SavingSteps, Zenon
  <2>4. CASE Commit(p) \/ Save(p)
    BY <2>4, EndingSteps, Zenon
  <2>5. CASE ApplyInitial(p)
    BY <2>5, SetUpSteps, Zenon
  <2> QED BY <1>1, <2>1, <2>2, <2>3, <2>4, <2>5, Zenon DEF ApplyStep
<1>2. CASE VolumeStep(p)
  BY <1>2, SetUpSteps, VolumeAttachmentStep, SavingSteps, QuietApplySteps, FreeSteps, Zenon DEF VolumeStep
<1>3. CASE DeleteStep(p)
  BY <1>3, QuietApplySteps, DeleteListStep, DeleteStoreStep, Zenon DEF DeleteStep
<1> QED BY <1>1, <1>2, <1>3, Zenon

\* At the start nobody has a lock and nothing is stored.
LEMMA LockInit == Init => LockInv
<1> SUFFICES ASSUME Init PROVE LockInv
  OBVIOUS
<1>1. Shaped(IdleProc) /\ IdleProc.pc = "idle"
  BY DEF Shaped, Fields, IdleProc
<1>2. proc = [q \in Proc |-> IdleProc] /\ wl = [i \in WId |-> None] /\ lock = [i \in WId |-> None]
  BY DEF Init
<1>3. \A p \in Proc : proc[p] = IdleProc
  BY <1>2
<1>4. ASSUME NEW p \in OpProc \cup RecProc
      PROVE  /\ proc[p].pc # "idle" => proc[p].id \in WId
             /\ Operation(p, proc[p], lock[proc[p].id], wl[proc[p].id])
  <2>1. proc[p].pc = "idle"
    BY <1>1, <1>3 DEF Proc
  <2> QED BY <2>1, IdleOperation
<1>5. \A p \in GetProc : proc[p].pc \in GetPC
  BY <1>1, <1>3 DEF Proc, GetPC
<1>6. wl \in [WId -> Workload \cup {None}]
  BY <1>2
<1> QED BY <1>1, <1>2, <1>3, <1>4, <1>5, <1>6 DEF LockInv

\* Every step keeps the invariant of the lock.
LEMMA LockNext == LockInv /\ [Next]_vars => LockInv'
<1> SUFFICES ASSUME LockInv, [Next]_vars PROVE LockInv'
  OBVIOUS
<1>1. CASE Begin
  BY <1>1, BeginSteps, GetSteps DEF Begin
<1>2. CASE Step
  BY <1>2, OperationSteps, ReconcileSteps, GetSteps DEF Step
<1>3. CASE Surroundings \/ UNCHANGED vars
  BY <1>3, OtherSteps
<1>4. CASE Crash
  BY <1>4, CrashStep
<1>5. CASE PendingThresholdPasses \/ FailedTTLPasses
  BY <1>5, TimeSteps
<1> QED BY <1>1, <1>2, <1>3, <1>4, <1>5 DEF Next

\* The workload that a reconcile has loaded is the stored one for as long as the
\* reconcile acts on it: ReconcileWorkload holds the workload's lock from its
\* read to its last write, and so do ApplyWorkload and DeleteWorkload.
THEOREM ReconcileActsOnStored == Spec => []ReconcileSeesStored
<1>1. LockInv => ReconcileSeesStored
  BY ZenonT(40) DEF LockInv, Operation, ReconcileSeesStored
<1> QED BY <1>1, LockInit, LockNext, PTL DEF Spec

\* No stored workload goes away.
Grows == \A i \in WId : wl[i] # None => wl'[i] # None

\* No provider touches the attachments in the store.
LEMMA ProvidersKeepAttachments ==
  ASSUME NEW v \in Vol, NEW x, VolumeShaped(x), NEW i,
         NEW o \in Provision(v, x) \cup Attach(v, x, i) \cup Detach(v, x, i) \cup Destroy(v, x)
  PROVE  VolumeShaped(o.vol) /\ o.vol.att = x.att
<1>1. DriverOf[v] \in {"local", "nfs", "ceph-rbd", "unknown"}
  BY VolumeAssumption
<1> DEFINE made == [x EXCEPT !.dir = TRUE]
           removed == [x EXCEPT !.dir = FALSE]
           staged == [x EXCEPT !.stage = @ \cup {i}]
           unstaged == [x EXCEPT !.stage = @ \ {i}]
<1>2. o.vol \in {x, made, removed, staged, unstaged}
  <2>1. CASE o \in Provision(v, x)
    BY <1>1, <2>1 DEF Provision, ResolveProvider, StorageProviders, LocalProvision, NFSProvision,
       CephRBDProvision, Done, VolumeFault
  <2>2. CASE o \in Attach(v, x, i)
    BY <1>1, <2>2 DEF Attach, ResolveProvider, StorageProviders, LocalAttach, NFSAttach,
       CephRBDAttach, Done, VolumeFault
  <2>3. CASE o \in Detach(v, x, i)
    BY <1>1, <2>3 DEF Detach, ResolveProvider, StorageProviders, LocalDetach, NFSDetach,
       CephRBDDetach, Done, VolumeFault
  <2>4. CASE o \in Destroy(v, x)
    BY <1>1, <2>4 DEF Destroy, ResolveProvider, StorageProviders, LocalDelete, NFSDelete,
       CephRBDDelete, Done, VolumeFault
  <2> QED BY <2>1, <2>2, <2>3, <2>4
<1>3. VolumeShaped(made) /\ made.att = x.att
  BY Zenon DEF VolumeShaped
<1>4. VolumeShaped(removed) /\ removed.att = x.att
  BY Zenon DEF VolumeShaped
<1>5. VolumeShaped(staged) /\ staged.att = x.att
  BY DEF VolumeShaped
<1>6. VolumeShaped(unstaged) /\ unstaged.att = x.att
  BY DEF VolumeShaped
<1> HIDE DEF made, removed, staged, unstaged
<1> QED BY <1>2, <1>3, <1>4, <1>5, <1>6

\* A step that writes one volume and adds attachments of stored workloads only.
LEMMA OneVolumeStep ==
  ASSUME AttachmentInv, NEW v, NEW x, SetVolume(v, x), Grows,
         v \in Vol => VolumeShaped(x) /\ \A i \in WId : i \in x.att => i \in vol[v].att \/ wl[i] # None
  PROVE  AttachmentInv'
<1>1. CASE v \notin Vol
  <2>1. vol' = vol
    BY <1>1 DEF SetVolume, AttachmentInv
  <2> QED BY <2>1 DEF AttachmentInv, AttachmentsRecorded, Grows
<1>2. CASE v \in Vol
  <2>1. vol' = [u \in Vol |-> IF u = v THEN x ELSE vol[u]]
    BY <1>2 DEF SetVolume, AttachmentInv
  <2> QED BY <1>2, <2>1 DEF AttachmentInv, AttachmentsRecorded, Grows
<1> QED BY <1>1, <1>2

\* The steps on the volumes: only VolumeAttachment adds an attachment, between
\* the first save of the workload and the end of the apply that holds its lock.
LEMMA VolumeSteps ==
  ASSUME LockInv, AttachmentInv, NEW p \in OpProc,
         \/ VolumeProvision(p) \/ VolumeRecord(p) \/ VolumeAttach(p) \/ VolumeAttachment(p)
         \/ FreeDetach(p) \/ FreeAttachment(p) \/ FreeDelete(p) \/ FreeRecord(p)
  PROVE  AttachmentInv'
<1>0. Grows
  BY ZenonT(40) DEF Grows, VolumeProvision, VolumeRecord, VolumeAttach, VolumeAttachment, FreeDetach,
     FreeAttachment, FreeDelete, FreeRecord
<1>1. ASSUME NEW v, NEW i, NEW o, SetVolume(v, o.vol),
             o \in Provision(v, vol[v]) \cup Attach(v, vol[v], i) \cup Detach(v, vol[v], i)
                     \cup Destroy(v, vol[v])
      PROVE  AttachmentInv'
  <2>1. v \in Vol => VolumeShaped(o.vol) /\ o.vol.att = vol[v].att
    BY <1>1, ProvidersKeepAttachments DEF AttachmentInv
  <2> QED BY <1>0, <1>1, <2>1, OneVolumeStep, ZenonT(40)
<1>2. CASE VolumeProvision(p) \/ VolumeAttach(p) \/ FreeDetach(p) \/ FreeDelete(p)
  BY <1>1, <1>2, Zenon DEF VolumeProvision, VolumeAttach, VolumeCall, FreeDetach, FreeDelete
<1>3. ASSUME NEW x, VolumeShaped(x), NEW i, NEW policy
      PROVE  /\ VolumeShaped(SaveVolume(x, policy)) /\ SaveVolume(x, policy).att = x.att
             /\ VolumeShaped(DeleteVolume(x)) /\ DeleteVolume(x).att = x.att
             /\ VolumeShaped(SaveAttachment(x, i)) /\ SaveAttachment(x, i).att = x.att \cup {i}
             /\ VolumeShaped(DeleteAttachment(x, i)) /\ DeleteAttachment(x, i).att = x.att \ {i}
  BY <1>3, ZenonT(40) DEF VolumeShaped, SaveVolume, DeleteVolume, SaveAttachment, DeleteAttachment
<1>4. CASE VolumeRecord(p)
  <2>1. PICK v, ok, policy : SetVolume(v, IF ok THEN SaveVolume(vol[v], policy) ELSE vol[v])
    BY <1>4, ZenonT(40) DEF VolumeRecord
  <2> DEFINE x == IF ok THEN SaveVolume(vol[v], policy) ELSE vol[v]
  <2>2. v \in Vol => VolumeShaped(x) /\ x.att = vol[v].att
    BY <1>3, ZenonT(40) DEF AttachmentInv
  <2> HIDE DEF x
  <2> QED BY <1>0, <2>1, <2>2, OneVolumeStep, ZenonT(40) DEF x
<1>5. CASE FreeRecord(p)
  <2>1. PICK v, ok : SetVolume(v, IF ok THEN DeleteVolume(vol[v]) ELSE vol[v])
    BY <1>5 DEF FreeRecord
  <2> DEFINE x == IF ok THEN DeleteVolume(vol[v]) ELSE vol[v]
  <2>2. v \in Vol => VolumeShaped(x) /\ x.att = vol[v].att
    BY <1>3, ZenonT(40) DEF AttachmentInv
  <2> HIDE DEF x
  <2> QED BY <1>0, <2>1, <2>2, OneVolumeStep, SMTT(30) DEF x
<1>6. CASE FreeAttachment(p)
  <2>1. PICK v, ok : SetVolume(v, IF ok THEN DeleteAttachment(vol[v], proc[p].id) ELSE vol[v])
    BY <1>6 DEF FreeAttachment
  <2> DEFINE x == IF ok THEN DeleteAttachment(vol[v], proc[p].id) ELSE vol[v]
  <2>2. v \in Vol => VolumeShaped(x) /\ x.att \in {vol[v].att, vol[v].att \ {proc[p].id}}
    BY <1>3, ZenonT(40) DEF AttachmentInv
  <2> HIDE DEF x
  <2> QED BY <1>0, <2>1, <2>2, OneVolumeStep, ZenonT(40) DEF x
<1>7. CASE VolumeAttachment(p)
  <2>1. PICK v, ok : SetVolume(v, IF ok THEN SaveAttachment(vol[v], proc[p].id) ELSE vol[v])
    BY <1>7, Zenon DEF VolumeAttachment
  <2> DEFINE x == IF ok THEN SaveAttachment(vol[v], proc[p].id) ELSE vol[v]
  <2>2. v \in Vol => VolumeShaped(x) /\ \A i \in x.att : i \in vol[v].att \/ i = proc[p].id
    BY <1>3, SMTT(30) DEF AttachmentInv
  <2>3. wl[proc[p].id] # None
    <3>1. p \in OpProc \cup RecProc /\ proc[p].pc = "vol_attachment"
      BY <1>7 DEF VolumeAttachment, At
    <3> QED BY <3>1, Working, ZenonT(40) DEF Operation, SetUpPC
  <2> HIDE DEF x
  <2> QED BY <1>0, <2>1, <2>2, <2>3, OneVolumeStep, ZenonT(40) DEF x
<1> QED BY <1>2, <1>4, <1>5, <1>6, <1>7, ZenonT(40)

\* A delete takes the attachments of its workload with it.
LEMMA DeleteStoreAttachments ==
  ASSUME LockInv, AttachmentInv, NEW p \in OpProc, DeleteStore(p)
  PROVE  AttachmentInv'
<1> DEFINE i == proc[p].id
<1>1. i \in WId
  BY Working, ZenonT(40) DEF DeleteStore, At
<1>2. CASE UNCHANGED <<wl, vol>>
  BY <1>2 DEF AttachmentInv, AttachmentsRecorded
<1>3. CASE wl' = [wl EXCEPT ![i] = None] /\ vol' = [v \in Vol |-> DeleteAttachment(vol[v], i)]
  <2>1. ASSUME NEW v \in Vol
        PROVE  VolumeShaped(vol'[v]) /\ vol'[v].att = vol[v].att \ {i}
    BY <1>3, Zenon DEF AttachmentInv, VolumeShaped, DeleteAttachment
  <2>2. ASSUME NEW j \in WId, j # i
        PROVE  wl'[j] = wl[j]
    BY <1>3, <2>2 DEF LockInv
  <2>3. vol' = [v \in Vol |-> vol'[v]]
    BY <1>3
  <2> HIDE DEF i
  <2> QED BY <2>1, <2>2, <2>3 DEF AttachmentInv, AttachmentsRecorded
<1> QED BY <1>2, <1>3, ZenonT(40) DEF DeleteStore, DeleteRecords

\* Every other step leaves the volumes alone and stores at most another version
\* of a workload.
LEMMA OtherAttachments ==
  ASSUME AttachmentInv, UNCHANGED vol, Grows
  PROVE  AttachmentInv'
BY ZenonT(40) DEF AttachmentInv, AttachmentsRecorded, Grows

\* PendingSave writes the workload it has, stopped.
LEMMA PendingSaveGrows ==
  ASSUME LockInv, NEW p \in RecProc, PendingSave(p)
  PROVE  Grows
<1>1. proc[p].id \in WId /\ proc[p].wl \in Workload
  BY Working DEF PendingSave, At, Operation
<1>2. [proc[p].wl EXCEPT !.desired = "Stopped"] \in Workload
  BY <1>1 DEF Workload, Desired
<1>3. PICK w \in Workload, ok \in BOOLEAN : SaveWorkload(proc[p].id, w, ok)
  BY <1>2, WriteType DEF PendingSave
<1> QED BY <1>1, <1>3, SaveWorkloadType, ZenonT(40) DEF Grows

\* Every step keeps the invariant of the attachments.
LEMMA AttachmentNext == LockInv /\ AttachmentInv /\ [Next]_vars => AttachmentInv'
<1> SUFFICES ASSUME LockInv, AttachmentInv, [Next]_vars PROVE AttachmentInv'
  OBVIOUS
<1>1. CASE Begin
  <2>1. UNCHANGED <<vol, wl>>
    BY <1>1, Zenon DEF Begin, DeleteWorkload, ApplyWorkload, ReconcileWorkload, GetStatus
  <2> QED BY <2>1, OtherAttachments DEF Grows
<1>2. ASSUME NEW p \in OpProc, ApplyStep(p) \/ VolumeStep(p) \/ DeleteStep(p)
      PROVE  AttachmentInv'
  <2>1. CASE \/ VolumeProvision(p) \/ VolumeRecord(p) \/ VolumeAttach(p) \/ VolumeAttachment(p)
             \/ FreeDetach(p) \/ FreeAttachment(p) \/ FreeDelete(p) \/ FreeRecord(p)
    BY <2>1, VolumeSteps
  <2>2. CASE DeleteStore(p)
    BY <2>2, DeleteStoreAttachments
  <2>3. CASE ApplyReject(p) \/ ApplySave(p) \/ TransSave(p) \/ VolumeSave(p)
    <3>1. Grows
      BY <2>3, SavingSteps, ZenonT(40) DEF Grows
    <3>2. UNCHANGED vol
      BY <2>3, ZenonT(40) DEF ApplyReject, ApplySave, TransSave, VolumeSave
    <3> QED BY <3>1, <3>2, OtherAttachments, ZenonT(40)
  <2>4. CASE ~(ApplyReject(p) \/ ApplySave(p) \/ TransSave(p)) /\ ApplyStep(p)
    <3>1. UNCHANGED <<vol, wl>>
      BY <2>4, Zenon DEF ApplyStep, ApplyStatus, ApplyAdmit, ApplyDeleteOld, ApplyInitial, ApplyCreate,
         ApplyStart, ApplyFinal, Commit, FailRead, Save, TransStatus, TransStart, TransStop,
         TransRecheck
    <3> QED BY <3>1, OtherAttachments, ZenonT(40) DEF Grows
  <2>5. CASE VolumeFail(p) \/ FreeLookup(p) \/ DeleteRuntime(p) \/ DeleteList(p)
    <3>1. UNCHANGED <<vol, wl>>
      BY <2>5, Zenon DEF VolumeFail, FreeLookup, DeleteRuntime, DeleteList
    <3> QED BY <3>1, OtherAttachments, ZenonT(40) DEF Grows
  <2> QED BY <1>2, <2>1, <2>2, <2>3, <2>4, <2>5, ZenonT(40) DEF VolumeStep, DeleteStep
<1>3. ASSUME NEW p \in RecProc, ReconcileStep(p)
      PROVE  AttachmentInv'
  <2>1. CASE PendingSave(p)
    <3>1. UNCHANGED vol
      BY <2>1 DEF PendingSave
    <3> QED BY <2>1, <3>1, PendingSaveGrows, OtherAttachments
  <2>2. CASE ~PendingSave(p)
    <3>1. UNCHANGED <<vol, wl>>
      BY <1>3, <2>2, Zenon DEF ReconcileStep, ReconcileLoad, ReconcileObserve, ReconcileDelete,
         ReconcileCreate, ReconcileRestart, ReconcileStart, ReconcileStop, ReconcileRecheck,
         PendingStop, PendingStart, PendingDelete, Save
    <3> QED BY <3>1, OtherAttachments, ZenonT(40) DEF Grows
  <2> QED BY <2>1, <2>2
<1>4. ASSUME NEW p \in GetProc, GetStep(p)
      PROVE  AttachmentInv'
  <2>1. UNCHANGED <<vol, wl>>
    BY <1>4 DEF GetStep, GetStatusWorkload, GetStatusObserve, GetStatusSave
  <2> QED BY <2>1, OtherAttachments DEF Grows
<1>5. CASE \/ Surroundings \/ Crash \/ PendingThresholdPasses \/ FailedTTLPasses \/ UNCHANGED vars
  <2>1. UNCHANGED <<vol, wl>>
    BY <1>5 DEF Surroundings, BackoffElapses, Drift, Crash, PendingThresholdPasses,
       FailedTTLPasses, vars
  <2> QED BY <2>1, OtherAttachments DEF Grows
<1> QED BY <1>1, <1>2, <1>3, <1>4, <1>5 DEF Next, Step

\* Every attachment in the store has a stored workload whose deletion releases
\* it: ApplyWorkload saves the workload before it attaches anything, and the
\* store's DeleteWorkload removes the attachments in the same transaction.
THEOREM AttachmentsHaveWorkloads == Spec => []AttachmentsRecorded
<1>1. Init => AttachmentInv
  BY DEF Init, NoVolume, AttachmentInv, AttachmentsRecorded, VolumeShaped
<1>2. AttachmentInv => AttachmentsRecorded
  BY DEF AttachmentInv
<1> QED BY <1>1, <1>2, LockInit, LockNext, AttachmentNext, PTL DEF Spec
===============================================================================
