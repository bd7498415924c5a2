------------------------ MODULE WorkloadVolumeProofs -------------------------
(***************************************************************************)
(* The managed volumes: what their directories, their handles and their    *)
(* attachments in the store agree on while operations set them up, roll    *)
(* back and release them. Every step of the manager keeps the invariant of *)
(* the volumes, given those of the types and of the lock, where one        *)
(* workload names them and writes to the store succeed.                    *)
(***************************************************************************)
EXTENDS WorkloadInvariants, TLAPS

\* Where an operation has volumes in hand, or has released them.
BusyPC == AllocatePC \cup {"vol_save", "apply_create", "apply_start", "delete_store"} \cup FreePC

\* Where it is working on one of them.
HandPC ==
  {"vol_record", "vol_attach", "vol_attachment", "free_attachment", "free_lookup", "free_delete", "free_record"}

\* Elsewhere nothing is asked of the volumes.
LEMMA NotBusy ==
  ASSUME NEW l, l \notin BusyPC, NEW w, NEW vs, NEW n, NEW x
  PROVE  Sound(l, w, vs, n, x) /\ Handled(l, w, vs, n, x) /\ Hand(l, w, vs) = {}
<1>1. /\ l \notin AllocatePC /\ l \notin FreePC
      /\ l # "vol_record" /\ l # "vol_attach" /\ l # "vol_attachment"
      /\ l # "free_attachment" /\ l # "free_lookup" /\ l # "free_delete" /\ l # "free_record"
      /\ l # "delete_store" /\ l # "vol_save" /\ l # "apply_create" /\ l # "apply_start"
  BY SMT DEF BusyPC, AllocatePC, FreePC
<1>2. Sound(l, w, vs, n, x)
  BY <1>1, SMT DEF Sound, Allocated
<1>3. Handled(l, w, vs, n, x)
  BY <1>1, SMT DEF Handled
<1>4. Hand(l, w, vs) = {}
  BY <1>1, SMT DEF Hand
<1> QED BY <1>2, <1>3, <1>4

\* A goroutine stands where it stood with the same things in hand.
Unmoved(q) ==
  /\ proc'[q].pc = proc[q].pc /\ proc'[q].wl = proc[q].wl
  /\ proc'[q].vols = proc[q].vols /\ proc'[q].then = proc[q].then

\* A step that leaves the volumes alone, and takes an operation at most from where it
\* works on none to where nothing is asked of them.
LEMMA CalmStep ==
  ASSUME VolumeInv, UNCHANGED <<vol, crashes>>,
         \A q \in OpProc : Unmoved(q) \/ (proc[q].pc \notin HandPC /\ proc'[q].pc \notin BusyPC)
  PROVE  VolumeInv'
<1>1. \A v \in Vol : Placed(v, vol'[v])
  BY Zenon DEF VolumeInv
<1>2. ASSUME NEW q \in OpProc
      PROVE  Sound(proc'[q].pc, proc'[q].wl, proc'[q].vols, proc'[q].then, vol')
  <2>1. CASE Unmoved(q)
    BY <2>1, Zenon DEF VolumeInv, Unmoved
  <2>2. CASE proc'[q].pc \notin BusyPC
    BY <2>2, NotBusy, Zenon
  <2> QED BY <2>1, <2>2, Zenon
<1>3. ASSUME Tidy, crashes = 0, NEW q \in OpProc
      PROVE  Handled(proc'[q].pc, proc'[q].wl, proc'[q].vols, proc'[q].then, vol')
  <2>1. CASE Unmoved(q)
    BY <1>3, <2>1, Zenon DEF VolumeInv, Unmoved
  <2>2. CASE proc'[q].pc \notin BusyPC
    BY <2>2, NotBusy, Zenon
  <2> QED BY <2>1, <2>2, Zenon
<1>4. ASSUME Tidy, crashes = 0, NEW v \in Vol
      PROVE  Clean(vol'[v]) \/ \E q \in OpProc : v \in Hand(proc'[q].pc, proc'[q].wl, proc'[q].vols)
  <2>1. CASE Clean(vol[v])
    BY <2>1, Zenon
  <2>2. CASE \E q \in OpProc : v \in Hand(proc[q].pc, proc[q].wl, proc[q].vols)
    <3>1. PICK q \in OpProc : v \in Hand(proc[q].pc, proc[q].wl, proc[q].vols)
      BY <2>2
    <3>2. proc[q].pc \in HandPC
      BY <3>1, SMT DEF Hand, HandPC
    <3>3. Unmoved(q)
      BY <3>2, Zenon
    <3> QED BY <3>1, <3>3, Zenon DEF Unmoved
  <2> QED BY <1>4, <2>1, <2>2, Zenon DEF VolumeInv
<1> QED BY <1>1, <1>2, <1>3, <1>4, Zenon DEF VolumeInv

\* With one workload no more than one operation is under way.
LEMMA Single ==
  ASSUME LockInv, Alone, NEW p \in OpProc, NEW q \in OpProc, proc[p].pc # "idle", q # p
  PROVE  proc[q].pc = "idle"
<1> SUFFICES ASSUME proc[q].pc # "idle" PROVE FALSE
  OBVIOUS
<1>1. proc[p].id \in WId /\ lock[proc[p].id] = p
  BY Zenon DEF LockInv, Operation
<1>2. proc[q].id \in WId /\ lock[proc[q].id] = q
  BY Zenon DEF LockInv, Operation
<1>3. proc[p].id = proc[q].id
  BY <1>1, <1>2, Zenon DEF Alone
<1> QED BY <1>1, <1>2, <1>3, Zenon

\* A step of p takes it to label l with the workload w and the volumes vs in hand.
Leads(p, l, w, vs, n) ==
  /\ proc'[p].pc = l /\ proc'[p].wl = w /\ proc'[p].vols = vs /\ proc'[p].then = n
  /\ \A q \in OpProc \ {p} : proc'[q] = proc[q]

\* What the invariant says while p is at work.
LEMMA AtWork ==
  ASSUME VolumeInv, LockInv, Alone, NEW p \in OpProc, proc[p].pc # "idle"
  PROVE  /\ \A v \in Vol : Placed(v, vol[v])
         /\ Sound(proc[p].pc, proc[p].wl, proc[p].vols, proc[p].then, vol)
         /\ Tidy /\ crashes = 0 =>
              /\ Handled(proc[p].pc, proc[p].wl, proc[p].vols, proc[p].then, vol)
              /\ \A v \in Vol : v \notin Hand(proc[p].pc, proc[p].wl, proc[p].vols) => Clean(vol[v])
<1>1. ASSUME Tidy, crashes = 0, NEW v \in Vol, v \notin Hand(proc[p].pc, proc[p].wl, proc[p].vols)
      PROVE  Clean(vol[v])
  <2>1. ASSUME NEW q \in OpProc, v \in Hand(proc[q].pc, proc[q].wl, proc[q].vols) PROVE FALSE
    <3>1. q # p
      BY <1>1, <2>1, Zenon
    <3>2. proc[q].pc = "idle"
      BY <3>1, Single, Zenon
    <3>3. "idle" \notin BusyPC
      BY DEF BusyPC, AllocatePC, FreePC
    <3>4. Hand(proc[q].pc, proc[q].wl, proc[q].vols) = {}
      BY <3>2, <3>3, NotBusy, Zenon
    <3> QED BY <2>1, <3>4, Zenon
  <2> QED BY <1>1, <2>1, Zenon DEF VolumeInv
<1> QED BY <1>1, Zenon DEF VolumeInv

\* A step of p has to be looked at for p alone.
LEMMA WorkStep ==
  ASSUME VolumeInv, LockInv, Alone, NEW p \in OpProc, proc[p].pc # "idle", crashes' = crashes,
         NEW l, NEW w, NEW vs, NEW n, Leads(p, l, w, vs, n),
         \A v \in Vol : Placed(v, vol'[v]),
         Sound(l, w, vs, n, vol'),
         Tidy /\ crashes = 0 =>
           Handled(l, w, vs, n, vol') /\ \A v \in Vol : v \notin Hand(l, w, vs) => Clean(vol'[v])
  PROVE  VolumeInv'
<1>1. ASSUME NEW q \in OpProc \ {p}
      PROVE  /\ Sound(proc'[q].pc, proc'[q].wl, proc'[q].vols, proc'[q].then, vol')
             /\ Handled(proc'[q].pc, proc'[q].wl, proc'[q].vols, proc'[q].then, vol')
  <2>1. proc'[q].pc = "idle"
    BY Single, Zenon DEF Leads
  <2>2. "idle" \notin BusyPC
    BY DEF BusyPC, AllocatePC, FreePC
  <2> QED BY <2>1, <2>2, NotBusy, Zenon
<1>2. \A q \in OpProc : Sound(proc'[q].pc, proc'[q].wl, proc'[q].vols, proc'[q].then, vol')
  BY <1>1, Zenon DEF Leads
<1>3. ASSUME Tidy, crashes = 0
      PROVE  /\ \A q \in OpProc : Handled(proc'[q].pc, proc'[q].wl, proc'[q].vols, proc'[q].then, vol')
             /\ \A v \in Vol :
                  Clean(vol'[v]) \/ \E q \in OpProc : v \in Hand(proc'[q].pc, proc'[q].wl, proc'[q].vols)
  BY <1>1, <1>3, Zenon DEF Leads
<1> QED BY <1>2, <1>3, Zenon DEF VolumeInv

\* How the local variables of p come out of a step.
LEMMA LeadsOn ==
  ASSUME LockInv, NEW p \in OpProc
  PROVE  /\ \A l : Goto(p, l) => Leads(p, l, proc[p].wl, proc[p].vols, proc[p].then)
         /\ \A l, s : GotoWith(p, l, s) => Leads(p, l, proc[p].wl, proc[p].vols, proc[p].then)
         /\ \A l, n : proc' = [proc EXCEPT ![p].pc = l, ![p].then = n]
                        => Leads(p, l, proc[p].wl, proc[p].vols, n)
         /\ \A l, vs, n : proc' = [proc EXCEPT ![p].pc = l, ![p].vols = vs, ![p].then = n]
                            => Leads(p, l, proc[p].wl, vs, n)
         /\ \A l, vs : proc' = [proc EXCEPT ![p].vols = vs, ![p].pc = l]
                         => Leads(p, l, proc[p].wl, vs, proc[p].then)
         /\ \A w, l : proc' = [proc EXCEPT ![p].wl = w, ![p].pc = l]
                        => Leads(p, l, w, proc[p].vols, proc[p].then)
         /\ \A l, s, w : proc' = [proc EXCEPT ![p].pc = l, ![p].st = s, ![p].wl = w]
                           => Leads(p, l, w, proc[p].vols, proc[p].then)
         /\ \A vs, w, l : proc' = [proc EXCEPT ![p].vols = vs, ![p].wl = w, ![p].pc = l]
                            => Leads(p, l, w, vs, proc[p].then)
         /\ proc' = [proc EXCEPT ![p] = IdleProc] => Leads(p, "idle", None, <<>>, None)
<1>0. p \in Proc /\ proc = [q \in Proc |-> proc[q]] /\ Shaped(proc[p]) /\ OpProc \subseteq Proc
  BY Zenon DEF LockInv, Proc
<1>1. ASSUME NEW l, Goto(p, l) PROVE Leads(p, l, proc[p].wl, proc[p].vols, proc[p].then)
  BY <1>0, <1>1, SMTT(30) DEF Goto, Leads, Shaped, Fields
<1>2. ASSUME NEW l, NEW s, GotoWith(p, l, s)
      PROVE  Leads(p, l, proc[p].wl, proc[p].vols, proc[p].then)
  <2> DEFINE r == [proc[p] EXCEPT !.pc = l, !.st = s]
  <2>1. proc' = [proc EXCEPT ![p] = r]
    BY <1>0, <1>2, Zenon DEF GotoWith
  <2>2. r.pc = l /\ r.wl = proc[p].wl /\ r.vols = proc[p].vols /\ r.then = proc[p].then
    BY <1>0, SMTT(30) DEF Shaped, Fields
  <2> HIDE DEF r
  <2> QED BY <1>0, <2>1, <2>2, SMTT(30) DEF Leads
<1>3. ASSUME NEW l, NEW n, proc' = [proc EXCEPT ![p].pc = l, ![p].then = n]
      PROVE  Leads(p, l, proc[p].wl, proc[p].vols, n)
  <2> DEFINE r == [proc[p] EXCEPT !.pc = l, !.then = n]
  <2>1. proc' = [proc EXCEPT ![p] = r]
    BY <1>0, <1>3, Zenon
  <2>2. r.pc = l /\ r.wl = proc[p].wl /\ r.vols = proc[p].vols /\ r.then = n
    BY <1>0, SMTT(30) DEF Shaped, Fields
  <2> HIDE DEF r
  <2> QED BY <1>0, <2>1, <2>2, SMTT(30) DEF Leads
<1>4. ASSUME NEW l, NEW vs, NEW n, proc' = [proc EXCEPT ![p].pc = l, ![p].vols = vs, ![p].then = n]
      PROVE  Leads(p, l, proc[p].wl, vs, n)
  <2> DEFINE r == [proc[p] EXCEPT !.pc = l, !.vols = vs, !.then = n]
  <2>1. proc' = [proc EXCEPT ![p] = r]
    BY <1>0, <1>4, Zenon
  <2>2. r.pc = l /\ r.wl = proc[p].wl /\ r.vols = vs /\ r.then = n
    BY <1>0, SMTT(30) DEF Shaped, Fields
  <2> HIDE DEF r
  <2> QED BY <1>0, <2>1, <2>2, SMTT(30) DEF Leads
<1>5. ASSUME NEW l, NEW vs, proc' = [proc EXCEPT ![p].vols = vs, ![p].pc = l]
      PROVE  Leads(p, l, proc[p].wl, vs, proc[p].then)
  <2> DEFINE r == [proc[p] EXCEPT !.vols = vs, !.pc = l]
  <2>1. proc' = [proc EXCEPT ![p] = r]
    BY <1>0, <1>5, Zenon
  <2>2. r.pc = l /\ r.wl = proc[p].wl /\ r.vols = vs /\ r.then = proc[p].then
    BY <1>0, SMTT(30) DEF Shaped, Fields
  <2> HIDE DEF r
  <2> QED BY <1>0, <2>1, <2>2, SMTT(30) DEF Leads
<1>6. ASSUME proc' = [proc EXCEPT ![p] = IdleProc] PROVE Leads(p, "idle", None, <<>>, None)
  BY <1>0, <1>6, SMTT(30), Z3T(30) DEF Leads, IdleProc
<1>7. ASSUME NEW w, NEW l, proc' = [proc EXCEPT ![p].wl = w, ![p].pc = l]
      PROVE  Leads(p, l, w, proc[p].vols, proc[p].then)
  <2> DEFINE r == [proc[p] EXCEPT !.wl = w, !.pc = l]
  <2>1. proc' = [proc EXCEPT ![p] = r]
    BY <1>0, <1>7, Zenon
  <2>2. r.pc = l /\ r.wl = w /\ r.vols = proc[p].vols /\ r.then = proc[p].then
    BY <1>0, SMTT(30), Z3T(30) DEF Shaped, Fields
  <2> HIDE DEF r
  <2> QED BY <1>0, <2>1, <2>2, SMTT(30) DEF Leads
<1>8. ASSUME NEW l, NEW s, NEW w, proc' = [proc EXCEPT ![p].pc = l, ![p].st = s, ![p].wl = w]
      PROVE  Leads(p, l, w, proc[p].vols, proc[p].then)
  <2> DEFINE r == [proc[p] EXCEPT !.pc = l, !.st = s, !.wl = w]
  <2>1. proc' = [proc EXCEPT ![p] = r]
    BY <1>0, <1>8, Zenon
  <2>2. r.pc = l /\ r.wl = w /\ r.vols = proc[p].vols /\ r.then = proc[p].then
    BY <1>0, SMTT(30) DEF Shaped, Fields
  <2> HIDE DEF r
  <2> QED BY <1>0, <2>1, <2>2, SMTT(30) DEF Leads
<1>9. ASSUME NEW vs, NEW w, NEW l, proc' = [proc EXCEPT ![p].vols = vs, ![p].wl = w, ![p].pc = l]
      PROVE  Leads(p, l, w, vs, proc[p].then)
  <2> DEFINE r == [proc[p] EXCEPT !.vols = vs, !.wl = w, !.pc = l]
  <2>1. proc' = [proc EXCEPT ![p] = r]
    BY <1>0, <1>9, Zenon
  <2>2. r.pc = l /\ r.wl = w /\ r.vols = vs /\ r.then = proc[p].then
    BY <1>0, SMTT(30) DEF Shaped, Fields
  <2> HIDE DEF r
  <2> QED BY <1>0, <2>1, <2>2, SMTT(30) DEF Leads
<1> QED BY <1>1, <1>2, <1>3, <1>4, <1>5, <1>6, <1>7, <1>8, <1>9, Zenon

\* A step of p away from a label where it works on no volume, to where what is asked of
\* the volumes, which stay as they are, holds.
LEMMA QuietWork ==
  ASSUME VolumeInv, LockInv, Alone, NEW p \in OpProc, proc[p].pc # "idle", proc[p].pc \notin HandPC,
         UNCHANGED <<vol, crashes>>, NEW l, NEW w, NEW vs, NEW n, Leads(p, l, w, vs, n),
         Sound(l, w, vs, n, vol), Tidy /\ crashes = 0 => Handled(l, w, vs, n, vol)
  PROVE  VolumeInv'
<1>1. Hand(proc[p].pc, proc[p].wl, proc[p].vols) = {}
  BY SMTT(30) DEF Hand, HandPC
<1>2. \A v \in Vol : Placed(v, vol'[v])
  BY AtWork, Zenon
<1>3. Sound(l, w, vs, n, vol') /\ crashes' = crashes
  BY Zenon
<1>4. ASSUME Tidy, crashes = 0
      PROVE  Handled(l, w, vs, n, vol') /\ \A v \in Vol : v \notin Hand(l, w, vs) => Clean(vol'[v])
  BY <1>1, <1>4, AtWork, Zenon
<1> QED BY <1>2, <1>3, <1>4, WorkStep, Zenon

\* The steps of an apply or a delete that have nothing to do with volumes.
LEMMA AwayFromVolumes ==
  ASSUME VolumeInv, LockInv, NEW p \in OpProc, NEW l, NEW w, NEW vs, NEW n, Leads(p, l, w, vs, n),
         proc[p].pc \notin HandPC, l \notin BusyPC, UNCHANGED <<vol, crashes>>
  PROVE  VolumeInv'
<1>1. \A q \in OpProc : Unmoved(q) \/ (proc[q].pc \notin HandPC /\ proc'[q].pc \notin BusyPC)
  BY Zenon DEF Leads, Unmoved
<1> QED BY <1>1, CalmStep, Zenon

\* An apply or a delete that decides, calls the runtime or saves a status.
LEMMA PlainSteps ==
  ASSUME VolumeInv, LockInv, NEW p \in OpProc,
         \/ ApplyStatus(p) \/ ApplyAdmit(p) \/ ApplyReject(p) \/ ApplyDeleteOld(p) \/ ApplySave(p)
         \/ ApplyFinal(p) \/ Commit(p) \/ FailRead(p) \/ Save(p) \/ VolumeFail(p) \/ DeleteRuntime(p)
         \/ TransSave(p) \/ TransStatus(p) \/ TransStart(p) \/ TransStop(p) \/ TransRecheck(p)
  PROVE  VolumeInv'
<1> DEFINE from == {"apply_status", "apply_admit", "apply_reject", "apply_delete_old", "apply_save", "apply_final",
                    "commit", "fail_read", "save", "vol_fail", "delete_runtime",
                    "trans_save", "trans_status", "trans_start", "trans_stop", "trans_recheck"}
           L == {"trans_save", "apply_admit", "apply_delete_old", "apply_save", "apply_reject", "fail_read",
                 "apply_initial", "commit", "save", "delete_list", "trans_status", "trans_start", "trans_stop",
                 "trans_recheck"}
<1>1. UNCHANGED <<vol, crashes>>
  BY Zenon DEF ApplyStatus, ApplyAdmit, ApplyReject, ApplyDeleteOld, ApplySave, ApplyFinal, Commit, FailRead, Save,
       VolumeFail, DeleteRuntime, TransSave, TransStatus, TransStart, TransStop, TransRecheck
<1>2. proc[p].pc \in from
  BY Zenon DEF ApplyStatus, ApplyAdmit, ApplyReject, ApplyDeleteOld, ApplySave, ApplyFinal, Commit, FailRead, Save,
       VolumeFail, DeleteRuntime, TransSave, TransStatus, TransStart, TransStop, TransRecheck, At
<1>3. proc[p].pc \notin HandPC /\ \A l \in L \cup {"idle"} : l \notin BusyPC
  BY <1>2, SMTT(30) DEF HandPC, BusyPC, AllocatePC, FreePC
<1>4. \/ \E l \in L : Goto(p, l)
      \/ \E l \in L : \E s : GotoWith(p, l, s)
      \/ \E l \in L : \E w : proc' = [proc EXCEPT ![p].wl = w, ![p].pc = l]
      \/ \E l \in L : \E s, w : proc' = [proc EXCEPT ![p].pc = l, ![p].st = s, ![p].wl = w]
      \/ proc' = [proc EXCEPT ![p] = IdleProc]
  <2>1. CASE ApplyStatus(p)
    <3>1. "trans_save" \in L /\ "apply_admit" \in L
      OBVIOUS
    <3> HIDE DEF L
    <3> DEFINE w == [proc[p].wl EXCEPT !.desired = proc[p].req.desired]
               Transition == \E s : proc' = [proc EXCEPT ![p].pc = "trans_save", ![p].st = s, ![p].wl = w]
    <3>2. Return(p) \/ Goto(p, "apply_admit") \/ Transition
      BY <2>1, ZenonT(40) DEF ApplyStatus
    <3> HIDE DEF w
    <3> QED BY <3>1, <3>2, Zenon DEF Return
  <2>2. CASE ApplyAdmit(p)
    <3> DEFINE next == IF proc[p].wl # None /\ proc[p].wl.rev # proc[p].req.rev THEN "apply_delete_old" ELSE "apply_save"
    <3>1. \A answer : (IF answer = "ok" THEN next ELSE "apply_reject") \in L
      BY Zenon
    <3> HIDE DEF L
    <3> QED BY <2>2, <3>1, Zenon DEF ApplyAdmit, Return
  <2>3. CASE ApplyReject(p) \/ ApplyDeleteOld(p) \/ ApplySave(p) \/ DeleteRuntime(p) \/ TransSave(p)
    BY <2>3, Zenon DEF ApplyReject, ApplyDeleteOld, ApplySave, DeleteRuntime, TransSave, Return
  <2>4. CASE ApplyFinal(p) \/ Commit(p) \/ FailRead(p) \/ Save(p) \/ VolumeFail(p) \/ TransRecheck(p)
    BY <2>4, Zenon DEF ApplyFinal, Commit, FailRead, Save, VolumeFail, TransRecheck, Return
  <2>5. CASE TransStatus(p)
    <3> DEFINE next(a) ==
          CASE proc[p].wl.desired = "Running" /\ a # "Running" -> "trans_start"
            [] proc[p].wl.desired = "Stopped" /\ a \in {"Running", "Pending"} -> "trans_stop"
            [] OTHER -> "trans_recheck"
    <3>1. \A a : next(a) \in L
      BY SMTT(30)
    <3>2. "save" \in L
      OBVIOUS
    <3> HIDE DEF L
    <3>3. \/ \E s : GotoWith(p, "save", s)
          \/ \E a, s : GotoWith(p, next(a), s)
      BY <2>5, Zenon DEF TransStatus
    <3> HIDE DEF next
    <3> QED BY <3>1, <3>2, <3>3, Zenon
  <2>6. CASE TransStart(p) \/ TransStop(p)
    BY <2>6, Zenon DEF TransStart, TransStop
  <2> QED BY <2>1, <2>2, <2>3, <2>4, <2>5, <2>6, Zenon
<1>5. \E l \in L \cup {"idle"} : \E w, vs, n : Leads(p, l, w, vs, n)
  <2> HIDE DEF L
  <2>1. ASSUME NEW l \in L, Goto(p, l) \/ \E s : GotoWith(p, l, s) PROVE \E w, vs, n : Leads(p, l, w, vs, n)
    BY <2>1, LeadsOn, Zenon
  <2>2. ASSUME NEW l \in L, NEW w, proc' = [proc EXCEPT ![p].wl = w, ![p].pc = l]
        PROVE  \E vs, n : Leads(p, l, w, vs, n)
    BY <2>2, LeadsOn, Zenon
  <2>3. ASSUME NEW l \in L, NEW s, NEW w, proc' = [proc EXCEPT ![p].pc = l, ![p].st = s, ![p].wl = w]
        PROVE  \E vs, n : Leads(p, l, w, vs, n)
    BY <2>3, LeadsOn, Zenon
  <2>4. ASSUME proc' = [proc EXCEPT ![p] = IdleProc] PROVE Leads(p, "idle", None, <<>>, None)
    BY <2>4, LeadsOn, Zenon
  <2> QED BY <1>4, <2>1, <2>2, <2>3, <2>4, Zenon
<1> QED BY <1>1, <1>3, <1>5, AwayFromVolumes, Zenon

\* The apply goes on to the first volume, or to the runtime.
LEMMA InitialStep ==
  ASSUME TypeInv, VolumeInv, LockInv, Alone, NEW p \in OpProc, ApplyInitial(p)
  PROVE  VolumeInv'
<1>1. proc[p].pc = "apply_initial" /\ UNCHANGED <<vol, crashes>> /\ p \in Proc
  BY Zenon DEF ApplyInitial, At, Proc
<1>2. PICK l \in {"apply_create", "vol_provision"} : Goto(p, l)
  BY Zenon DEF ApplyInitial
<1>3. proc[p].vols = <<>>
  BY <1>1, SMTT(30) DEF TypeInv, ProcTyped, Held, EarlyPC
<1>4. Leads(p, l, proc[p].wl, <<>>, proc[p].then)
  BY <1>2, <1>3, LeadsOn, Zenon
<1>5. Sound(l, proc[p].wl, <<>>, proc[p].then, vol) /\ Handled(l, proc[p].wl, <<>>, proc[p].then, vol)
  BY <1>2, SMTT(30) DEF Sound, Handled, FreePC, Allocated, Recorded
<1>6. proc[p].pc # "idle" /\ proc[p].pc \notin HandPC
  BY <1>1, SMTT(30) DEF HandPC
<1> QED BY <1>1, <1>4, <1>5, <1>6, QuietWork, Zenon

\* What an operation keeps in its hands when it starts to free the volumes, or goes on
\* to the runtime.
LEMMA RuntimeVolumes ==
  ASSUME VolumeInv, LockInv, Alone, NEW p \in OpProc, VolumeSave(p) \/ ApplyCreate(p) \/ ApplyStart(p)
  PROVE  VolumeInv'
<1>1. proc[p].pc \in {"vol_save", "apply_create", "apply_start"} /\ UNCHANGED <<vol, crashes>>
  BY Zenon DEF VolumeSave, ApplyCreate, ApplyStart, At
<1>2. \/ \E l \in {"apply_create", "apply_start", "apply_final"} : Goto(p, l)
      \/ \E n \in {"fail_read", "idle"} : FreeAndGoto(p, n)
  <2>1. CASE VolumeSave(p) \/ ApplyStart(p)
    BY <2>1, Zenon DEF VolumeSave, ApplyStart
  <2>2. CASE ApplyCreate(p)
    BY <2>2, SMTT(30) DEF ApplyCreate
  <2> QED BY <2>1, <2>2, Zenon
<1>3. PICK l \in {"apply_create", "apply_start", "apply_final", "fail_read", "idle", "free_detach"} :
        \E n : /\ Leads(p, l, proc[p].wl, proc[p].vols, n)
               /\ l = "free_detach" => n \in {"fail_read", "idle"}
  <2>1. ASSUME NEW m \in {"apply_create", "apply_start", "apply_final"}, Goto(p, m)
        PROVE  Leads(p, m, proc[p].wl, proc[p].vols, proc[p].then)
    BY <2>1, LeadsOn, Zenon
  <2>2. ASSUME NEW m \in {"fail_read", "idle"}, FreeAndGoto(p, m)
        PROVE  Leads(p, IF proc[p].vols = <<>> THEN m ELSE "free_detach", proc[p].wl, proc[p].vols, m)
    BY <2>2, LeadsOn, Zenon DEF FreeAndGoto
  <2>3. CASE \E m \in {"apply_create", "apply_start", "apply_final"} : Goto(p, m)
    BY <2>1, <2>3, SMTT(30)
  <2>4. CASE \E m \in {"fail_read", "idle"} : FreeAndGoto(p, m)
    BY <2>2, <2>4, SMTT(30)
  <2> QED BY <1>2, <2>3, <2>4, Zenon
<1>4. PICK n : Leads(p, l, proc[p].wl, proc[p].vols, n) /\ (l = "free_detach" => n \in {"fail_read", "idle"})
  BY <1>3, ZenonT(40)
<1>5. Sound(l, proc[p].wl, proc[p].vols, n, vol)
  <2>1. Sound(proc[p].pc, proc[p].wl, proc[p].vols, proc[p].then, vol)
    BY Zenon DEF VolumeInv
  <2>2. Allocated(proc[p].pc, proc[p].then)
    BY <1>1, ZenonT(40) DEF Allocated
  <2> QED BY <1>3, <2>1, <2>2, ZenonT(40) DEF Sound
<1>6. Handled(l, proc[p].wl, proc[p].vols, n, vol)
  BY <1>3, <1>4, ZenonT(40) DEF Handled, FreePC
<1>7. proc[p].pc # "idle" /\ proc[p].pc \notin HandPC
  BY <1>1, SMTT(30), Z3T(30) DEF HandPC
<1> QED BY <1>1, <1>4, <1>5, <1>6, <1>7, QuietWork, Zenon

-----------------------------------------------------------------------------
(* Setting volumes up.                                                     *)

\* The volumes of a workload: the one that is being set up, and those before it.
LEMMA AtHand ==
  ASSUME TypeInv, NEW p \in OpProc, proc[p].pc \in AllocatePC
  PROVE  /\ proc[p] \in LocalState /\ proc[p].wl \in Workload /\ proc[p].id \in WId
         /\ proc[p].vols \in Seq(Allocation) /\ Len(proc[p].vols) \in Nat
         /\ ManagedVolumes(proc[p].wl) \in Seq([vol : Vol, policy : {"delete", "retain"}])
         /\ Len(ManagedVolumes(proc[p].wl)) \in Nat
         /\ Len(proc[p].vols) < Len(ManagedVolumes(proc[p].wl))
         /\ NextOf(proc[p].wl, proc[p].vols).vol \in Vol
         /\ NextOf(proc[p].wl, proc[p].vols).policy \in {"delete", "retain"}
         /\ vol[NextOf(proc[p].wl, proc[p].vols).vol] \in Volume(WId)
<1> DEFINE M == ManagedVolumes(proc[p].wl)
           vs == proc[p].vols
<1>1. proc[p].pc \notin {"idle", "apply_admit", "get_workload"} /\ p \in Proc
  BY SMTT(30) DEF AllocatePC, Proc
<1>2. proc[p] \in LocalState /\ proc[p].wl \in Workload /\ proc[p].id \in WId /\ Len(vs) < Len(M)
  BY <1>1, Zenon DEF TypeInv, ProcTyped, Held
<1>3. vs \in Seq(Allocation)
  BY <1>2, Zenon DEF LocalState, Allocation
<1>4. M \in Seq([vol : Vol, policy : {"delete", "retain"}])
  <2> DEFINE S == [vol : Vol, policy : {"delete", "retain"}]
  <2>1. proc[p].wl.rev \in Rev
    BY <1>2, Zenon DEF Workload
  <2>2. VolumesOf[proc[p].wl.rev] \in Seq(S)
    BY <2>1, ConfigAssumption, Zenon
  <2>3. <<>> \in Seq(S)
    OBVIOUS
  <2> HIDE DEF S
  <2>4. M \in Seq(S)
    BY <2>2, <2>3, Zenon DEF ManagedVolumes
  <2> QED BY <2>4 DEF S
<1>5. NextOf(proc[p].wl, vs) \in [vol : Vol, policy : {"delete", "retain"}]
  <2> DEFINE S == [vol : Vol, policy : {"delete", "retain"}]
  <2>1. M \in Seq(S)
    BY <1>4
  <2> HIDE DEF M, vs, S
  <2>2. M[Len(vs) + 1] \in S
    BY <1>2, <1>3, <2>1, SMTT(30), Z3T(30)
  <2> QED BY <2>2, Zenon DEF NextOf, M, vs, S
<1>6. Len(vs) \in Nat /\ Len(M) \in Nat
  BY <1>3, <1>4, SMTT(30)
<1> QED BY <1>2, <1>3, <1>4, <1>5, <1>6, SMTT(30), Z3T(30) DEF TypeInv, StoreTyped

\* The managed volumes of a workload are as distinct as those of its revision.
LEMMA DistinctManaged ==
  ASSUME Distinct, NEW w \in Workload, NEW m \in 1 .. Len(ManagedVolumes(w)), NEW n \in 1 .. Len(ManagedVolumes(w)),
         ManagedVolumes(w)[m].vol = ManagedVolumes(w)[n].vol
  PROVE  m = n
<1>1. CASE w.type \in StorageTypes
  <2>1. w.rev \in Rev /\ ManagedVolumes(w) = VolumesOf[w.rev]
    BY <1>1, Zenon DEF Workload, ManagedVolumes
  <2> QED BY <2>1, Zenon DEF Distinct
<1>2. CASE w.type \notin StorageTypes
  <2>1. ManagedVolumes(w) = <<>>
    BY <1>2, Zenon DEF ManagedVolumes
  <2>2. Len(ManagedVolumes(w)) = 0
    BY <2>1, SMTT(30)
  <2> QED BY <2>2, SMTT(30)
<1> QED BY <1>1, <1>2, Zenon

\* The fields of a volume after a call of its provider: Provision ...
LEMMA ProvisionOutcome ==
  ASSUME NEW v \in Vol, NEW x \in Volume(WId), Placed(v, x), NEW o \in Provision(v, x)
  PROVE  /\ Placed(v, o.vol) /\ o.vol.stage = x.stage /\ o.vol.rec = x.rec /\ o.vol.att = x.att
         /\ o.ok => (DriverOf[v] = "local" => o.vol.dir)
         /\ ~o.ok => o.vol = x
<1> DEFINE made == [x EXCEPT !.dir = TRUE]
<1>1. DriverOf[v] \in {"local", "nfs", "ceph-rbd", "unknown"}
  BY VolumeAssumption, Zenon
<1>2. made.dir /\ made.stage = x.stage /\ made.rec = x.rec /\ made.att = x.att
  BY Zenon DEF Volume
<1>3. \/ o = [ok |-> FALSE, vol |-> x]
      \/ o = [ok |-> TRUE, vol |-> x] /\ DriverOf[v] # "local"
      \/ o = [ok |-> TRUE, vol |-> made] /\ DriverOf[v] = "local"
  <2> HIDE DEF made
  <2> QED BY <1>1, SMTT(30) DEF made, Provision, ResolveProvider, LocalProvision, NFSProvision, CephRBDProvision,
            VolumeFault, Done, StorageProviders
<1> HIDE DEF made
<1> QED BY <1>2, <1>3, SMTT(30) DEF Placed

\* ... Attach ...
LEMMA AttachOutcome ==
  ASSUME NEW v \in Vol, NEW x \in Volume(WId), Placed(v, x), NEW i \in WId, NEW o \in Attach(v, x, i)
  PROVE  /\ Placed(v, o.vol) /\ o.vol.dir = x.dir /\ o.vol.rec = x.rec /\ o.vol.att = x.att
         /\ o.vol.stage \subseteq x.stage \cup {i}
         /\ ~o.ok => o.vol = x /\ ~x.dir
<1> DEFINE staged == [x EXCEPT !.stage = x.stage \cup {i}]
<1>1. DriverOf[v] \in {"local", "nfs", "ceph-rbd", "unknown"}
  BY VolumeAssumption, Zenon
<1>2. staged.dir = x.dir /\ staged.rec = x.rec /\ staged.att = x.att /\ staged.stage = x.stage \cup {i}
  BY Zenon DEF Volume
<1>3. \/ o = [ok |-> FALSE, vol |-> x] /\ DriverOf[v] # "local"
      \/ o = [ok |-> TRUE, vol |-> x]
      \/ o = [ok |-> TRUE, vol |-> staged] /\ DriverOf[v] \in {"nfs", "ceph-rbd"}
  BY <1>1, SMTT(30), Z3T(30) DEF Attach, ResolveProvider, LocalAttach, NFSAttach, CephRBDAttach,
            VolumeFault, Done, StorageProviders
<1> HIDE DEF staged
<1> QED BY <1>2, <1>3, SMTT(30) DEF Placed

\* ... Detach ...
LEMMA DetachOutcome ==
  ASSUME NEW v \in Vol, NEW x \in Volume(WId), Placed(v, x), NEW i \in WId, NEW o \in Detach(v, x, i)
  PROVE  /\ Placed(v, o.vol) /\ o.vol.dir = x.dir /\ o.vol.rec = x.rec /\ o.vol.att = x.att
         /\ "detach" \notin VolumeFaults => o.vol.stage \subseteq x.stage \ {i}
<1> DEFINE left == [x EXCEPT !.stage = x.stage \ {i}]
<1>1. DriverOf[v] \in {"local", "nfs", "ceph-rbd", "unknown"}
  BY VolumeAssumption, Zenon
<1>2. left.dir = x.dir /\ left.rec = x.rec /\ left.att = x.att /\ left.stage = x.stage \ {i}
  BY Zenon DEF Volume
<1>3. \/ o.vol = x /\ ("detach" \in VolumeFaults \/ DriverOf[v] \notin {"nfs", "ceph-rbd"})
      \/ o.vol = left /\ DriverOf[v] \in {"nfs", "ceph-rbd"}
  BY <1>1, SMTT(30), Z3T(30) DEF Detach, ResolveProvider, LocalDetach, NFSDetach, CephRBDDetach,
            VolumeFault, Done, StorageProviders
<1> HIDE DEF left
<1> QED BY <1>2, <1>3, SMTT(30) DEF Placed

\* ... and Delete.
LEMMA DestroyOutcome ==
  ASSUME NEW v \in Vol, NEW x \in Volume(WId), Placed(v, x), NEW o \in Destroy(v, x)
  PROVE  /\ o.vol.stage = x.stage /\ o.vol.rec = x.rec /\ o.vol.att = x.att
         /\ x.att = {} => Placed(v, o.vol)
         /\ "remove" \notin VolumeFaults => ~o.vol.dir
<1> DEFINE gone == [x EXCEPT !.dir = FALSE]
<1>1. DriverOf[v] \in {"local", "nfs", "ceph-rbd", "unknown"}
  BY VolumeAssumption, Zenon
<1>2. ~gone.dir /\ gone.stage = x.stage /\ gone.rec = x.rec /\ gone.att = x.att
  BY Zenon DEF Volume
<1>3. \/ o.vol = x /\ ("remove" \in VolumeFaults \/ DriverOf[v] # "local")
      \/ o.vol = gone /\ DriverOf[v] = "local"
  <2>1. CASE DriverOf[v] = "local"
    <3>1. Destroy(v, x) = LocalDelete(x)
      <4> DEFINE D == DriverOf[v]
                 local == LocalDelete(x)
                 nfs == NFSDelete(x)
                 ceph == CephRBDDelete(x)
                 none == {[ok |-> FALSE, vol |-> x]}
      <4>1. Destroy(v, x) = CASE D = "local" -> local [] D = "nfs" -> nfs [] D = "ceph-rbd" -> ceph
                              [] D \notin StorageProviders -> none
        BY Zenon DEF Destroy, ResolveProvider
      <4> HIDE DEF local, nfs, ceph, none, D
      <4>2. D = "local"
        BY <2>1 DEF D
      <4>3. Destroy(v, x) = local
        BY <4>1, <4>2, SMTT(30) DEF StorageProviders
      <4> QED BY <4>3 DEF local
    <3>2. o = [ok |-> TRUE, vol |-> gone] \/ (o = [ok |-> FALSE, vol |-> x] /\ "remove" \in VolumeFaults)
      BY <3>1, Zenon DEF LocalDelete, Done, VolumeFault
    <3> HIDE DEF gone
    <3> QED BY <2>1, <3>2, SMTT(30), Z3T(30)
  <2>2. CASE DriverOf[v] # "local"
    <3>1. o \in NFSDelete(x) \/ o \in CephRBDDelete(x) \/ o = [ok |-> FALSE, vol |-> x]
      BY <1>1, <2>2, SMTT(30) DEF Destroy, ResolveProvider, StorageProviders
    <3> QED BY <2>2, <3>1, SMTT(30) DEF NFSDelete, CephRBDDelete, Done
  <2> QED BY <2>1, <2>2, Zenon
<1> HIDE DEF gone
<1> QED BY <1>2, <1>3, SMTT(30), Z3T(30) DEF Placed

\* A step that writes one volume.
LEMMA Written ==
  ASSUME TypeInv, NEW v \in Vol, NEW y, SetVolume(v, y)
  PROVE  vol'[v] = y /\ \A u \in Vol : u # v => vol'[u] = vol[u]
BY Zenon DEF TypeInv, StoreTyped, SetVolume

\* Handles that stay as they are keep the allocations recorded.
LEMMA StillRecorded ==
  ASSUME NEW w, NEW vs \in Seq(Allocation), Recorded(w, vs, vol),
         \A u \in Vol : (\E k \in 1 .. Len(vs) : vs[k].vol = u) => vol'[u].rec = vol[u].rec
  PROVE  Recorded(w, vs, vol')
<1> SUFFICES ASSUME NEW k \in 1 .. Len(vs)
             PROVE  /\ k <= Len(ManagedVolumes(w)) /\ vs[k] = ManagedVolumes(w)[k]
                    /\ vol'[vs[k].vol].rec = vs[k].policy
  BY Zenon DEF Recorded
<1>1. vs[k] \in Allocation
  BY SMTT(30)
<1>2. vs[k].vol \in Vol
  BY <1>1, Zenon DEF Allocation
<1> QED BY <1>2, Zenon DEF Recorded

\* Provision makes the directory of a local volume, or fails and leaves nothing new.
LEMMA ProvisionStep ==
  ASSUME TypeInv, VolumeInv, LockInv, Alone, NEW p \in OpProc, VolumeProvision(p)
  PROVE  VolumeInv'
<1> DEFINE w == proc[p].wl
           vs == proc[p].vols
           n == proc[p].then
           v == NextOf(w, vs).vol
<1>1. proc[p].pc = "vol_provision" /\ crashes' = crashes /\ proc[p].pc # "idle" /\ proc[p].pc \in AllocatePC
  BY Zenon DEF VolumeProvision, At, AllocatePC
<1>2. v \in Vol /\ vol[v] \in Volume(WId) /\ vs \in Seq(Allocation) /\ proc[p].id \in WId
  BY <1>1, AtHand, Zenon
<1>3. /\ \A u \in Vol : Placed(u, vol[u])
      /\ Sound("vol_provision", w, vs, n, vol)
      /\ Tidy /\ crashes = 0 => \A u \in Vol : Clean(vol[u])
  <2>1. Hand("vol_provision", w, vs) = {}
    BY SMTT(30) DEF Hand
  <2> QED BY <1>1, <2>1, AtWork, Zenon
<1>4. PICK o \in Provision(v, vol[v]) : SetVolume(v, o.vol) /\ Goto(p, IF o.ok THEN "vol_record" ELSE "vol_fail")
  BY Zenon DEF VolumeProvision, VolumeCall, Wanted, NextOf
<1> HIDE DEF w, vs, n, v
<1>5. /\ Placed(v, o.vol) /\ o.vol.stage = vol[v].stage /\ o.vol.rec = vol[v].rec /\ o.vol.att = vol[v].att
      /\ o.ok => (DriverOf[v] = "local" => o.vol.dir)
      /\ ~o.ok => o.vol = vol[v]
  BY <1>2, <1>3, <1>4, ProvisionOutcome, ZenonT(40)
<1>6. vol'[v] = o.vol /\ \A u \in Vol : u # v => vol'[u] = vol[u]
  BY <1>2, <1>4, Written, Zenon
<1>7. \A u \in Vol : Placed(u, vol'[u]) /\ vol'[u].rec = vol[u].rec
  BY <1>3, <1>5, <1>6, Zenon
<1>8. CASE o.ok
  <2>1. Leads(p, "vol_record", w, vs, n)
    BY <1>4, <1>8, LeadsOn, Zenon DEF w, vs, n
  <2>2. Sound("vol_record", w, vs, n, vol')
    <3>1. DriverOf[v] = "local" => vol'[v].dir
      BY <1>5, <1>6, <1>8, Zenon
    <3>2. Distinct => Recorded(w, vs, vol')
      <4>1. Distinct => Recorded(w, vs, vol)
        BY <1>3, Zenon DEF Sound, Allocated, AllocatePC
      <4> QED BY <1>2, <1>7, <4>1, StillRecorded, Zenon
    <3> QED BY <3>1, <3>2, SMTT(30) DEF Sound, v
  <2>3. Tidy /\ crashes = 0 =>
          Handled("vol_record", w, vs, n, vol') /\ \A u \in Vol : u \notin Hand("vol_record", w, vs) => Clean(vol'[u])
    <3> SUFFICES ASSUME Tidy, crashes = 0
                 PROVE  /\ Handled("vol_record", w, vs, n, vol')
                        /\ \A u \in Vol : u \notin Hand("vol_record", w, vs) => Clean(vol'[u])
      OBVIOUS
    <3>1. vol'[v].stage \subseteq vol'[v].att
      BY <1>2, <1>3, <1>5, <1>6, Zenon DEF Clean
    <3>2. Handled("vol_record", w, vs, n, vol')
      BY <3>1, SMTT(30) DEF Handled, FreePC, v
    <3>3. v \in Hand("vol_record", w, vs)
      BY SMTT(30) DEF Hand, v
    <3> QED BY <1>3, <1>6, <3>2, <3>3, Zenon
  <2> QED BY <1>1, <1>7, <2>1, <2>2, <2>3, WorkStep, Zenon
<1>9. CASE ~o.ok
  <2>1. Leads(p, "vol_fail", w, vs, n)
    BY <1>4, <1>9, LeadsOn, Zenon DEF w, vs, n
  <2>2. "vol_fail" \notin BusyPC
    BY SMTT(30) DEF BusyPC, AllocatePC, FreePC
  <2>3. \A u \in Vol : vol'[u] = vol[u]
    BY <1>5, <1>6, <1>9, Zenon
  <2> QED BY <1>1, <1>3, <1>7, <2>1, <2>2, <2>3, NotBusy, WorkStep, Zenon
<1> QED BY <1>8, <1>9, Zenon

\* The volume at hand is none of those allocated before it.
LEMMA AnotherVolume ==
  ASSUME TypeInv, Distinct, NEW p \in OpProc, proc[p].pc \in AllocatePC, Recorded(proc[p].wl, proc[p].vols, vol)
  PROVE  \A k \in 1 .. Len(proc[p].vols) : proc[p].vols[k].vol # NextOf(proc[p].wl, proc[p].vols).vol
<1> DEFINE w == proc[p].wl
           vs == proc[p].vols
           M == ManagedVolumes(w)
<1>1. w \in Workload /\ Len(vs) \in Nat /\ Len(M) \in Nat /\ Len(vs) < Len(M)
  BY AtHand, Zenon
<1>2. \A k \in 1 .. Len(vs) : k <= Len(M) /\ vs[k] = M[k]
  BY Zenon DEF Recorded
<1>3. NextOf(w, vs) = M[Len(vs) + 1]
  BY Zenon DEF NextOf
<1> HIDE DEF w, vs, M
<1> SUFFICES ASSUME NEW k \in 1 .. Len(vs), vs[k].vol = NextOf(w, vs).vol PROVE FALSE
  BY Zenon DEF w, vs
<1>4. k \in 1 .. Len(M) /\ Len(vs) + 1 \in 1 .. Len(M) /\ k # Len(vs) + 1
  BY <1>1, SMTT(30)
<1>5. M[k].vol = M[Len(vs) + 1].vol
  BY <1>2, <1>3, Zenon
<1> QED BY <1>1, <1>4, <1>5, DistinctManaged, Zenon DEF M

\* SaveVolume writes the policy of the revision to the handle.
LEMMA RecordStep ==
  ASSUME TypeInv, VolumeInv, LockInv, Alone, ~StoreFaults, NEW p \in OpProc, VolumeRecord(p)
  PROVE  VolumeInv'
<1> DEFINE w == proc[p].wl
           vs == proc[p].vols
           n == proc[p].then
           v == NextOf(w, vs).vol
           a == NextOf(w, vs).policy
<1>1. proc[p].pc = "vol_record" /\ crashes' = crashes /\ proc[p].pc # "idle" /\ proc[p].pc \in AllocatePC
  BY Zenon DEF VolumeRecord, At, AllocatePC
<1>2. v \in Vol /\ vol[v] \in Volume(WId) /\ vs \in Seq(Allocation)
  BY <1>1, AtHand, Zenon
<1>3. /\ \A u \in Vol : Placed(u, vol[u])
      /\ Sound("vol_record", w, vs, n, vol)
      /\ Tidy /\ crashes = 0 => /\ Handled("vol_record", w, vs, n, vol)
                                /\ \A u \in Vol : u # v => Clean(vol[u])
  <2>1. Hand("vol_record", w, vs) = {v}
    BY SMTT(30) DEF Hand
  <2> QED BY <1>1, <2>1, AtWork, Zenon
<1>4. SetVolume(v, SaveVolume(vol[v], a)) /\ Goto(p, "vol_attach")
  BY Zenon DEF VolumeRecord, Wanted, NextOf, Write
<1>a. Distinct => \A k \in 1 .. Len(vs) : vs[k].vol # v
  <2>1. Distinct => Recorded(w, vs, vol)
    BY <1>3, Zenon DEF Sound, Allocated, AllocatePC
  <2> QED BY <1>1, <2>1, AnotherVolume, Zenon
<1> HIDE DEF w, vs, n, v, a
<1>5. /\ vol'[v].dir = vol[v].dir /\ vol'[v].stage = vol[v].stage /\ vol'[v].att = vol[v].att /\ vol'[v].rec = a
      /\ \A u \in Vol : u # v => vol'[u] = vol[u]
  <2>1. vol'[v] = SaveVolume(vol[v], a) /\ \A u \in Vol : u # v => vol'[u] = vol[u]
    BY <1>2, <1>4, Written, Zenon
  <2> QED BY <1>2, <2>1, SMTT(30) DEF SaveVolume, Volume
<1>6. \A u \in Vol : Placed(u, vol'[u])
  BY <1>2, <1>3, <1>5, Zenon DEF Placed
<1>7. Leads(p, "vol_attach", w, vs, n)
  BY <1>4, LeadsOn, Zenon DEF w, vs, n
<1>8. Sound("vol_attach", w, vs, n, vol')
  <2>1. DriverOf[v] = "local" => vol'[v].dir
    BY <1>3, <1>5, Zenon DEF Sound, v
  <2>2. Distinct => Recorded(w, vs, vol')
    <3>1. Distinct => Recorded(w, vs, vol)
      BY <1>3, Zenon DEF Sound, Allocated, AllocatePC
    <3> QED BY <1>2, <1>5, <1>a, <3>1, StillRecorded, Zenon
  <2> QED BY <1>5, <2>1, <2>2, SMTT(30), Z3T(30) DEF Sound, v, a
<1>9. ASSUME Tidy, crashes = 0
      PROVE  /\ Handled("vol_attach", w, vs, n, vol')
             /\ \A u \in Vol : u \notin Hand("vol_attach", w, vs) => Clean(vol'[u])
  <2>1. vol'[v].stage \subseteq vol'[v].att
    BY <1>3, <1>5, <1>9, Zenon DEF Handled, v
  <2>2. Handled("vol_attach", w, vs, n, vol')
    BY <2>1, SMTT(30), Z3T(30) DEF Handled, FreePC, v
  <2>3. v \in Hand("vol_attach", w, vs)
    BY SMTT(30) DEF Hand, v
  <2> QED BY <1>3, <1>5, <1>9, <2>2, <2>3, Zenon
<1> QED BY <1>1, <1>6, <1>7, <1>8, <1>9, WorkStep, Zenon

\* Attach makes a staging directory; where it fails there is no volume on the node.
LEMMA AttachStep ==
  ASSUME TypeInv, VolumeInv, LockInv, Alone, NEW p \in OpProc, VolumeAttach(p)
  PROVE  VolumeInv'
<1> DEFINE w == proc[p].wl
           vs == proc[p].vols
           n == proc[p].then
           v == NextOf(w, vs).vol
           a == NextOf(w, vs).policy
<1>1. proc[p].pc = "vol_attach" /\ crashes' = crashes /\ proc[p].pc # "idle" /\ proc[p].pc \in AllocatePC
  BY Zenon DEF VolumeAttach, At, AllocatePC
<1>2. v \in Vol /\ vol[v] \in Volume(WId) /\ vs \in Seq(Allocation) /\ proc[p].id \in WId
  BY <1>1, AtHand, Zenon
<1>3. /\ \A u \in Vol : Placed(u, vol[u])
      /\ Sound("vol_attach", w, vs, n, vol)
      /\ Tidy /\ crashes = 0 => /\ Handled("vol_attach", w, vs, n, vol)
                                /\ \A u \in Vol : u # v => Clean(vol[u])
  <2>1. Hand("vol_attach", w, vs) = {v}
    BY SMTT(30) DEF Hand
  <2> QED BY <1>1, <2>1, AtWork, Zenon
<1>4. PICK o \in Attach(v, vol[v], proc[p].id) :
        SetVolume(v, o.vol) /\ Goto(p, IF o.ok THEN "vol_attachment" ELSE "vol_fail")
  BY Zenon DEF VolumeAttach, VolumeCall, Wanted, NextOf
<1> HIDE DEF w, vs, n, v, a
<1>5. /\ Placed(v, o.vol) /\ o.vol.dir = vol[v].dir /\ o.vol.rec = vol[v].rec /\ o.vol.att = vol[v].att
      /\ ~o.ok => o.vol = vol[v] /\ ~vol[v].dir
  <2>1. Placed(v, vol[v])
    BY <1>2, <1>3, Zenon
  <2> QED BY ONLY <1>2, <1>4, <2>1, AttachOutcome, SMTT(30)
<1>6. vol'[v] = o.vol /\ \A u \in Vol : u # v => vol'[u] = vol[u]
  BY <1>2, <1>4, Written, Zenon
<1>7. \A u \in Vol : Placed(u, vol'[u]) /\ vol'[u].rec = vol[u].rec
  BY <1>3, <1>5, <1>6, Zenon
<1>8. CASE o.ok
  <2>1. Leads(p, "vol_attachment", w, vs, n)
    BY <1>4, <1>8, LeadsOn, Zenon DEF w, vs, n
  <2>2. Sound("vol_attachment", w, vs, n, vol')
    <3>1. DriverOf[v] = "local" => vol'[v].dir
      BY <1>3, <1>5, <1>6, Zenon DEF Sound, v
    <3>2. Distinct => Recorded(w, vs, vol')
      <4>1. Distinct => Recorded(w, vs, vol)
        BY <1>3, Zenon DEF Sound, Allocated, AllocatePC
      <4> QED BY <1>2, <1>7, <4>1, StillRecorded, Zenon
    <3>3. Distinct => vol'[v].rec = a
      BY <1>2, <1>3, <1>7, Zenon DEF Sound, v, a
    <3> QED BY <3>1, <3>2, <3>3, ZenonT(40) DEF Sound, v, a
  <2>3. ASSUME Tidy, crashes = 0
        PROVE  /\ Handled("vol_attachment", w, vs, n, vol')
               /\ \A u \in Vol : u \notin Hand("vol_attachment", w, vs) => Clean(vol'[u])
    <3>1. Handled("vol_attachment", w, vs, n, vol')
      BY SMTT(30) DEF Handled, FreePC
    <3>2. v \in Hand("vol_attachment", w, vs)
      BY SMTT(30) DEF Hand, v
    <3> QED BY <1>3, <1>6, <2>3, <3>1, <3>2, Zenon
  <2> QED BY <1>1, <1>7, <2>1, <2>2, <2>3, WorkStep, Zenon
<1>9. CASE ~o.ok
  <2>1. Leads(p, "vol_fail", w, vs, n)
    BY <1>4, <1>9, LeadsOn, Zenon DEF w, vs, n
  <2>2. "vol_fail" \notin BusyPC
    BY SMTT(30) DEF BusyPC, AllocatePC, FreePC
  <2>3. \A u \in Vol : vol'[u] = vol[u]
    BY <1>5, <1>6, <1>9, Zenon
  <2>4. ASSUME Tidy, crashes = 0 PROVE \A u \in Vol : Clean(vol'[u])
    <3>1. vol[v].stage \subseteq vol[v].att
      BY <1>3, <2>4, Zenon DEF Handled, v
    <3>2. Clean(vol[v])
      BY <1>5, <1>9, <3>1, Zenon DEF Clean
    <3> QED BY <1>3, <2>3, <2>4, <3>2, Zenon
  <2> QED BY <1>1, <1>7, <2>1, <2>2, <2>4, NotBusy, WorkStep, Zenon
<1> QED BY <1>8, <1>9, Zenon

\* A staged volume and an attached one are so for the one workload there is.
LEMMA OneWorkload ==
  ASSUME Alone, NEW i \in WId, NEW S \in SUBSET WId
  PROVE  S \subseteq {i} /\ S \ {i} = {} /\ (S # {} => i \in S)
BY Zenon DEF Alone

\* SaveAttachment completes the allocation.
LEMMA AttachmentStep ==
  ASSUME TypeInv, VolumeInv, LockInv, Alone, ~StoreFaults, NEW p \in OpProc, VolumeAttachment(p)
  PROVE  VolumeInv'
<1> DEFINE w == proc[p].wl
           vs == proc[p].vols
           n == proc[p].then
           i == proc[p].id
           v == NextOf(w, vs).vol
           a == NextOf(w, vs).policy
           M == ManagedVolumes(w)
           all == Append(vs, NextOf(w, vs))
           last == Len(all) = Len(M)
           x == [w EXCEPT !.bound = last]
           l == IF last THEN "vol_save" ELSE "vol_provision"
<1>1. proc[p].pc = "vol_attachment" /\ crashes' = crashes /\ proc[p].pc # "idle" /\ proc[p].pc \in AllocatePC
  BY Zenon DEF VolumeAttachment, At, AllocatePC
<1>2. /\ v \in Vol /\ a \in {"delete", "retain"} /\ vol[v] \in Volume(WId) /\ vs \in Seq(Allocation) /\ i \in WId
      /\ w \in Workload /\ Len(vs) \in Nat /\ Len(M) \in Nat /\ Len(vs) < Len(M)
  BY <1>1, AtHand, Zenon
<1>3. /\ \A u \in Vol : Placed(u, vol[u])
      /\ Sound("vol_attachment", w, vs, n, vol)
      /\ Tidy /\ crashes = 0 => \A u \in Vol : u # v => Clean(vol[u])
  <2>1. Hand("vol_attachment", w, vs) = {v}
    BY SMTT(30) DEF Hand
  <2> QED BY <1>1, <2>1, AtWork, Zenon
<1>4. SetVolume(v, SaveAttachment(vol[v], i)) /\ proc' = [proc EXCEPT ![p].vols = all, ![p].wl = x, ![p].pc = l]
  BY Zenon DEF VolumeAttachment, Wanted, NextOf, Write
<1>a. ManagedVolumes(x) = M
  <2>1. x.type = w.type /\ x.rev = w.rev
    BY <1>2, Zenon DEF Workload
  <2> HIDE DEF x, w
  <2> QED BY <2>1, Zenon DEF ManagedVolumes
<1>b. l \in {"vol_save", "vol_provision"}
  OBVIOUS
<1>c. NextOf(w, vs) = M[Len(vs) + 1]
  BY Zenon DEF NextOf
<1>d. Len(all) = Len(vs) + 1 /\ all[Len(vs) + 1] = NextOf(w, vs) /\ \A k \in 1 .. Len(vs) : all[k] = vs[k]
  <2> DEFINE e == NextOf(w, vs)
  <2> HIDE DEF vs, e
  <2>1. Len(Append(vs, e)) = Len(vs) + 1 /\ Append(vs, e)[Len(vs) + 1] = e
        /\ \A k \in 1 .. Len(vs) : Append(vs, e)[k] = vs[k]
    BY <1>2, SMTT(30)
  <2> QED BY <2>1 DEF e
<1> HIDE DEF w, vs, n, i, v, a, M, all, x, l
<1>5. /\ vol'[v].dir = vol[v].dir /\ vol'[v].stage = vol[v].stage /\ vol'[v].rec = vol[v].rec
      /\ vol'[v].att = vol[v].att \cup {i}
      /\ \A u \in Vol : u # v => vol'[u] = vol[u]
  <2>1. vol'[v] = SaveAttachment(vol[v], i) /\ \A u \in Vol : u # v => vol'[u] = vol[u]
    BY <1>2, <1>4, Written, Zenon
  <2> QED BY <1>2, <2>1, SMTT(30) DEF SaveAttachment, Volume
<1>6. \A u \in Vol : Placed(u, vol'[u]) /\ vol'[u].rec = vol[u].rec
  <2>1. DriverOf[v] = "local" => vol[v].dir
    BY <1>3, Zenon DEF Sound, v
  <2> QED BY <1>2, <1>3, <1>5, <2>1, Zenon DEF Placed
<1>7. Leads(p, l, x, all, n)
  BY <1>4, LeadsOn, Zenon DEF n
<1>8. Sound(l, x, all, n, vol')
  <2>1. Distinct => Recorded(x, all, vol')
    <3> SUFFICES ASSUME Distinct, NEW k \in 1 .. Len(all)
                 PROVE  k <= Len(M) /\ all[k] = M[k] /\ vol'[all[k].vol].rec = all[k].policy
      BY <1>a, Zenon DEF Recorded
    <3>1. Recorded(w, vs, vol')
      <4>1. Recorded(w, vs, vol)
        BY <1>3, Zenon DEF Sound, Allocated, AllocatePC
      <4> QED BY <1>2, <1>6, <4>1, StillRecorded, Zenon
    <3>2. CASE k \in 1 .. Len(vs)
      BY <1>d, <3>1, <3>2, Zenon DEF Recorded, M
    <3>3. CASE k = Len(vs) + 1
      <4>1. vol[v].rec = a
        BY <1>3, Zenon DEF Sound, v, a
      <4>2. vol'[v].rec = a /\ all[k] = NextOf(w, vs) /\ k <= Len(M)
        BY <1>2, <1>5, <1>d, <3>3, <4>1, SMTT(30), Z3T(30)
      <4> QED BY <1>c, <3>3, <4>2, Zenon DEF v, a
    <3> QED BY <1>2, <1>d, <3>2, <3>3, SMTT(30), Z3T(30)
  <2> QED BY <1>b, <2>1, SMTT(30), Z3T(30) DEF Sound
<1>9. ASSUME Tidy, crashes = 0
      PROVE  Handled(l, x, all, n, vol') /\ \A u \in Vol : u \notin Hand(l, x, all) => Clean(vol'[u])
  <2>1. Handled(l, x, all, n, vol')
    BY <1>b, SMTT(30) DEF Handled, FreePC
  <2>2. Clean(vol'[v])
    <3>1. vol[v].stage \subseteq {i}
      BY <1>2, OneWorkload, Zenon DEF Volume
    <3>2. vol[v].rec = a /\ a # "none"
      BY <1>2, <1>3, <1>9, SMTT(30), Z3T(30) DEF Sound, v, a, Tidy
    <3> QED BY <1>5, <3>1, <3>2, Zenon DEF Clean
  <2> QED BY <1>3, <1>5, <1>9, <2>1, <2>2, Zenon
<1> QED BY <1>1, <1>6, <1>7, <1>8, <1>9, WorkStep, Zenon

-----------------------------------------------------------------------------
(* Rolling back and releasing them.                                        *)

\* A list of volumes without its last one.
LEMMA WithoutLast ==
  ASSUME NEW S, NEW s \in Seq(S), s # <<>>
  PROVE  LET r == SubSeq(s, 1, Len(s) - 1)
         IN  r \in Seq(S) /\ Len(r) = Len(s) - 1 /\ \A k \in 1 .. Len(s) - 1 : r[k] = s[k]
<1> DEFINE n == Len(s) - 1
<1>1. n \in Int /\ n >= 0 /\ \A k \in 1 .. n : s[k] \in S
  OBVIOUS
<1> HIDE DEF n
<1>2. /\ SubSeq(s, 1, n) \in Seq(S) /\ Len(SubSeq(s, 1, n)) = IF 1 <= n THEN n - 1 + 1 ELSE 0
      /\ \A k \in 1 .. n - 1 + 1 : SubSeq(s, 1, n)[k] = s[1 + k - 1]
  BY <1>1
<1>3. Len(SubSeq(s, 1, n)) = n /\ \A k \in 1 .. n : SubSeq(s, 1, n)[k] = s[k]
  BY <1>1, <1>2, SMTT(30)
<1> QED BY <1>2, <1>3, Zenon DEF n

\* The volume that is being freed, and those that are still to be.
LEMMA AtFreeing ==
  ASSUME TypeInv, NEW p \in OpProc, proc[p].pc \in FreePC
  PROVE  /\ proc[p].pc # "idle" /\ proc[p].wl \in Workload /\ proc[p].id \in WId
         /\ proc[p].then \in {"fail_read", "delete_store", "idle"}
         /\ proc[p].vols \in Seq(Allocation) /\ Len(proc[p].vols) \in Nat /\ Len(proc[p].vols) > 0
         /\ LastOf(proc[p].vols).vol \in Vol
         /\ vol[LastOf(proc[p].vols).vol] \in Volume(WId)
         /\ StillToFree(p) \in Seq(Allocation) /\ Len(StillToFree(p)) = Len(proc[p].vols) - 1
         /\ \A k \in 1 .. Len(proc[p].vols) - 1 : StillToFree(p)[k] = proc[p].vols[k]
<1> DEFINE vs == proc[p].vols
<1>1. proc[p].pc \notin {"idle", "apply_admit", "get_workload"} /\ p \in Proc
  BY SMTT(30) DEF FreePC, Proc
<1>2. /\ proc[p] \in LocalState /\ proc[p].wl \in Workload /\ proc[p].id \in WId /\ vs # <<>>
      /\ proc[p].then \in {"fail_read", "delete_store", "idle"}
  BY <1>1, Zenon DEF TypeInv, ProcTyped, Held
<1>3. vs \in Seq(Allocation)
  BY <1>2, Zenon DEF LocalState, Allocation
<1>4. StillToFree(p) = SubSeq(vs, 1, Len(vs) - 1) /\ LastOf(vs) = vs[Len(vs)]
  BY Zenon DEF StillToFree, LastOf
<1> HIDE DEF vs
<1>5. Len(vs) \in Nat /\ Len(vs) > 0 /\ vs[Len(vs)] \in Allocation
  BY <1>2, <1>3, SMTT(30)
<1>6. /\ SubSeq(vs, 1, Len(vs) - 1) \in Seq(Allocation) /\ Len(SubSeq(vs, 1, Len(vs) - 1)) = Len(vs) - 1
      /\ \A k \in 1 .. Len(vs) - 1 : SubSeq(vs, 1, Len(vs) - 1)[k] = vs[k]
  BY <1>2, <1>3, WithoutLast, Zenon
<1>7. LastOf(vs).vol \in Vol
  BY <1>4, <1>5, Zenon DEF Allocation
<1>8. vol[LastOf(vs).vol] \in Volume(WId)
  BY <1>7, Zenon DEF TypeInv, StoreTyped
<1> QED BY <1>1, <1>2, <1>3, <1>4, <1>5, <1>6, <1>7, <1>8, Zenon DEF vs

\* On with the next volume to free: the one in hand is in order.
LEMMA NextFreed ==
  ASSUME TypeInv, VolumeInv, LockInv, Alone, NEW p \in OpProc, proc[p].pc \in FreePC, FreeNext(p), crashes' = crashes,
         \A u \in Vol : Placed(u, vol'[u]),
         Distinct /\ proc[p].then # "delete_store" =>
           Recorded(proc[p].wl, proc[p].vols, vol) /\
           \A u \in Vol : u # LastOf(proc[p].vols).vol => vol'[u] = vol[u],
         Tidy /\ crashes = 0 =>
           /\ \A u \in Vol : Clean(vol'[u])
           /\ proc[p].then = "delete_store" =>
                /\ \A u \in Vol : vol'[u].att # {} => \E k \in 1 .. Len(proc[p].vols) : proc[p].vols[k].vol = u
                /\ vol'[LastOf(proc[p].vols).vol].att = {}
  PROVE  VolumeInv'
<1> DEFINE w == proc[p].wl
           vs == proc[p].vols
           n == proc[p].then
           rest == StillToFree(p)
           l == IF rest = <<>> THEN n ELSE "free_detach"
<1>1. /\ proc[p].pc # "idle" /\ w \in Workload /\ n \in {"fail_read", "delete_store", "idle"}
      /\ vs \in Seq(Allocation) /\ Len(vs) \in Nat /\ Len(vs) > 0
      /\ rest \in Seq(Allocation) /\ Len(rest) = Len(vs) - 1 /\ \A k \in 1 .. Len(vs) - 1 : rest[k] = vs[k]
  BY AtFreeing, Zenon
<1>2. CASE rest = <<>> /\ n = "idle"
  <2>1. Leads(p, "idle", None, <<>>, None)
    BY <1>2, LeadsOn, Zenon DEF FreeNext, Return
  <2>2. "idle" \notin BusyPC
    BY ZenonT(40) DEF BusyPC, AllocatePC, FreePC
  <2> QED BY <1>1, <2>1, <2>2, NotBusy, WorkStep, Zenon
<1>3. CASE ~(rest = <<>> /\ n = "idle")
  <2>1. Leads(p, l, w, rest, n)
    BY <1>3, LeadsOn, ZenonT(40) DEF FreeNext
  <2>2. l \in {"fail_read", "delete_store", "free_detach"} /\ (l = "delete_store" => rest = <<>> /\ n = "delete_store")
    BY <1>1, <1>3, ZenonT(40)
  <2> HIDE DEF w, vs, n, rest, l
  <2>3. Sound(l, w, rest, n, vol')
    <3>1. ASSUME Distinct, n # "delete_store" PROVE Recorded(w, rest, vol')
      <4> SUFFICES ASSUME NEW k \in 1 .. Len(rest)
                   PROVE  /\ k <= Len(ManagedVolumes(w)) /\ rest[k] = ManagedVolumes(w)[k]
                          /\ vol'[rest[k].vol].rec = rest[k].policy
        BY ZenonT(40) DEF Recorded
      <4>1. k \in 1 .. Len(vs) /\ Len(vs) \in 1 .. Len(vs) /\ k # Len(vs) /\ rest[k] = vs[k] /\ vs[k] \in Allocation
        BY <1>1, SMTT(30)
      <4>2. Recorded(w, vs, vol) /\ \A u \in Vol : u # LastOf(vs).vol => vol'[u] = vol[u]
        BY <3>1, Zenon DEF w, vs, n
      <4>3. /\ k <= Len(ManagedVolumes(w)) /\ vs[k] = ManagedVolumes(w)[k] /\ vol[vs[k].vol].rec = vs[k].policy
            /\ Len(vs) <= Len(ManagedVolumes(w)) /\ vs[Len(vs)] = ManagedVolumes(w)[Len(vs)]
        BY <4>1, <4>2, Zenon DEF Recorded
      <4>4. vs[k].vol # LastOf(vs).vol
        <5>1. k \in 1 .. Len(ManagedVolumes(w)) /\ Len(vs) \in 1 .. Len(ManagedVolumes(w))
          BY <1>1, <4>1, <4>3, SMTT(30), Z3T(30)
        <5> QED BY <1>1, <3>1, <4>1, <4>3, <5>1, DistinctManaged, ZenonT(40) DEF LastOf
      <4>5. vs[k].vol \in Vol
        BY <4>1, Zenon DEF Allocation
      <4> QED BY <4>1, <4>2, <4>3, <4>4, <4>5, Zenon
    <3> QED BY <2>2, <3>1, ZenonT(40) DEF Sound, Allocated, AllocatePC
  <2>4. ASSUME Tidy, crashes = 0
        PROVE  Handled(l, w, rest, n, vol') /\ \A u \in Vol : u \notin Hand(l, w, rest) => Clean(vol'[u])
    <3>1. \A u \in Vol : Clean(vol'[u])
      BY <2>4, Zenon
    <3>2. ASSUME n = "delete_store", NEW u \in Vol, vol'[u].att # {} PROVE \E k \in 1 .. Len(rest) : rest[k].vol = u
      <4>1. PICK k \in 1 .. Len(vs) : vs[k].vol = u
        BY <2>4, <3>2, Zenon DEF n, vs
      <4>2. vol'[LastOf(vs).vol].att = {}
        BY <2>4, <3>2, Zenon DEF n, vs
      <4>3. k # Len(vs)
        BY <3>2, <4>1, <4>2, Zenon DEF LastOf
      <4>4. k \in 1 .. Len(rest) /\ k \in 1 .. Len(vs) - 1
        BY <1>1, <4>1, <4>3, SMTT(30), Z3T(30)
      <4> QED BY <1>1, <4>1, <4>4, Zenon
    <3>3. Handled(l, w, rest, n, vol')
      <4>1. CASE l = "delete_store"
        <5>1. n = "delete_store" /\ Len(rest) = 0
          BY <2>2, <4>1, ZenonT(40)
        <5>2. \A u \in Vol : vol'[u].att = {}
          BY <3>2, <5>1, SMTT(30), Z3T(30)
        <5> QED BY <4>1, <5>2, ZenonT(40) DEF Handled, FreePC
      <4>2. CASE l # "delete_store"
        BY <2>2, <3>2, <4>2, ZenonT(40) DEF Handled, FreePC
      <4> QED BY <4>1, <4>2, Zenon
    <3> QED BY <3>1, <3>3, Zenon
  <2> QED BY <1>1, <2>1, <2>3, <2>4, WorkStep, Zenon
<1> QED BY <1>2, <1>3, Zenon

\* Detach removes the staging directory.
LEMMA DetachStep ==
  ASSUME TypeInv, VolumeInv, LockInv, Alone, NEW p \in OpProc, FreeDetach(p)
  PROVE  VolumeInv'
<1> DEFINE w == proc[p].wl
           vs == proc[p].vols
           n == proc[p].then
           i == proc[p].id
           v == LastOf(vs).vol
<1>1. proc[p].pc = "free_detach" /\ crashes' = crashes /\ proc[p].pc # "idle" /\ proc[p].pc \in FreePC
  BY Zenon DEF FreeDetach, At, FreePC
<1>2. v \in Vol /\ vol[v] \in Volume(WId) /\ vs \in Seq(Allocation) /\ i \in WId
  BY <1>1, AtFreeing, Zenon
<1>3. /\ \A u \in Vol : Placed(u, vol[u])
      /\ Sound("free_detach", w, vs, n, vol)
      /\ Tidy /\ crashes = 0 => Handled("free_detach", w, vs, n, vol) /\ \A u \in Vol : Clean(vol[u])
  <2>1. Hand("free_detach", w, vs) = {}
    BY SMTT(30) DEF Hand
  <2> QED BY <1>1, <2>1, AtWork, Zenon
<1>4. PICK o \in Detach(v, vol[v], i) : SetVolume(v, o.vol) /\ Goto(p, "free_attachment")
  BY Zenon DEF FreeDetach, Freed, LastOf
<1> HIDE DEF w, vs, n, i, v
<1>5. /\ Placed(v, o.vol) /\ o.vol.dir = vol[v].dir /\ o.vol.rec = vol[v].rec /\ o.vol.att = vol[v].att
      /\ "detach" \notin VolumeFaults => o.vol.stage \subseteq vol[v].stage \ {i}
  <2>1. Placed(v, vol[v])
    BY <1>2, <1>3, Zenon
  <2> QED BY ONLY <1>2, <1>4, <2>1, DetachOutcome, ZenonT(40)
<1>6. vol'[v] = o.vol /\ \A u \in Vol : u # v => vol'[u] = vol[u]
  BY <1>2, <1>4, Written, Zenon
<1>7. \A u \in Vol : Placed(u, vol'[u]) /\ vol'[u].rec = vol[u].rec /\ vol'[u].att = vol[u].att
  BY <1>3, <1>5, <1>6, Zenon
<1>8. Leads(p, "free_attachment", w, vs, n)
  BY <1>4, LeadsOn, Zenon DEF w, vs, n
<1>9. Sound("free_attachment", w, vs, n, vol')
  <2>1. ASSUME Distinct, n # "delete_store" PROVE Recorded(w, vs, vol')
    <3>1. Recorded(w, vs, vol)
      BY <1>3, <2>1, Zenon DEF Sound, Allocated, FreePC
    <3> QED BY <1>2, <1>7, <3>1, StillRecorded, Zenon
  <2> QED BY <2>1, ZenonT(40) DEF Sound, Allocated, AllocatePC
<1>10. ASSUME Tidy, crashes = 0
       PROVE  /\ Handled("free_attachment", w, vs, n, vol')
              /\ \A u \in Vol : u \notin Hand("free_attachment", w, vs) => Clean(vol'[u])
  <2>1. vol'[v].stage = {}
    <3>1. "detach" \notin VolumeFaults
      BY <1>10, Zenon DEF Tidy
    <3>2. vol[v].stage \in SUBSET WId
      BY <1>2, Zenon DEF Volume
    <3>3. vol[v].stage \ {i} = {}
      BY <1>2, <3>2, OneWorkload, Zenon
    <3> QED BY <1>5, <1>6, <3>1, <3>3, Zenon
  <2>2. vol'[v].dir => vol'[v].rec # "none"
    BY <1>2, <1>3, <1>5, <1>6, <1>10, Zenon DEF Clean
  <2>3. n = "delete_store" => \A u \in Vol : vol'[u].att # {} => \E k \in 1 .. Len(vs) : vs[k].vol = u
    BY <1>3, <1>7, <1>10, Zenon DEF Handled, FreePC
  <2>4. Handled("free_attachment", w, vs, n, vol')
    BY <2>1, <2>2, <2>3, ZenonT(40) DEF Handled, v
  <2>5. v \in Hand("free_attachment", w, vs)
    BY SMTT(30) DEF Hand, v
  <2> QED BY <1>3, <1>6, <1>10, <2>4, <2>5, Zenon
<1> QED BY <1>1, <1>7, <1>8, <1>9, <1>10, WorkStep, Zenon

\* DeleteAttachment, after which the volume is attached to nobody: the handle of the
\* store or of this apply says whether it goes too.
LEMMA DetachedStep ==
  ASSUME TypeInv, VolumeInv, LockInv, Alone, ~StoreFaults, NEW p \in OpProc, FreeAttachment(p)
  PROVE  VolumeInv'
<1> DEFINE w == proc[p].wl
           vs == proc[p].vols
           n == proc[p].then
           i == proc[p].id
           v == LastOf(vs).vol
           listed == \A u \in Vol : vol'[u].att # {} => \E k \in 1 .. Len(vs) : vs[k].vol = u
<1>1. proc[p].pc = "free_attachment" /\ crashes' = crashes /\ proc[p].pc # "idle" /\ proc[p].pc \in FreePC
  BY Zenon DEF FreeAttachment, At, FreePC
<1>2. /\ v \in Vol /\ vol[v] \in Volume(WId) /\ vs \in Seq(Allocation) /\ i \in WId /\ Len(vs) \in Nat /\ Len(vs) > 0
      /\ n \in {"fail_read", "delete_store", "idle"}
  BY <1>1, AtFreeing, Zenon
<1>3. /\ \A u \in Vol : Placed(u, vol[u])
      /\ Sound("free_attachment", w, vs, n, vol)
      /\ Tidy /\ crashes = 0 => /\ Handled("free_attachment", w, vs, n, vol)
                                /\ \A u \in Vol : u # v => Clean(vol[u])
  <2>1. Hand("free_attachment", w, vs) = {v}
    BY SMTT(30) DEF Hand
  <2> QED BY <1>1, <2>1, AtWork, Zenon
<1>4. /\ SetVolume(v, DeleteAttachment(vol[v], i))
      /\ \/ n = "delete_store" /\ Goto(p, "free_lookup")
         \/ n # "delete_store" /\ LastOf(vs).policy = "retain" /\ FreeNext(p)
         \/ n # "delete_store" /\ LastOf(vs).policy # "retain" /\ Goto(p, "free_delete")
  <2>1. SetVolume(v, DeleteAttachment(vol[v], i))
    BY Zenon DEF FreeAttachment, Freed, LastOf, Write
  <2>2. CASE Releasing(p)
    BY <2>1, <2>2, Zenon DEF FreeAttachment, Releasing
  <2>3. CASE ~Releasing(p) /\ Freed(p).policy = "retain"
    BY <2>1, <2>3, Zenon DEF FreeAttachment, Releasing, Freed, LastOf
  <2>4. CASE ~Releasing(p) /\ Freed(p).policy # "retain"
    BY <2>1, <2>4, Zenon DEF FreeAttachment, Releasing, Freed, LastOf
  <2> QED BY <2>2, <2>3, <2>4, Zenon
<1> HIDE DEF w, vs, n, i, v, listed
<1>5. /\ vol'[v].dir = vol[v].dir /\ vol'[v].stage = vol[v].stage /\ vol'[v].rec = vol[v].rec /\ vol'[v].att = {}
      /\ \A u \in Vol : u # v => vol'[u] = vol[u]
  <2>1. vol'[v] = DeleteAttachment(vol[v], i) /\ \A u \in Vol : u # v => vol'[u] = vol[u]
    BY <1>2, <1>4, Written, Zenon
  <2>2. vol[v].att \in SUBSET WId
    BY <1>2, Zenon DEF Volume
  <2>3. vol[v].att \ {i} = {}
    BY <1>2, <2>2, OneWorkload, Zenon
  <2> QED BY <1>2, <2>1, <2>3, SMTT(30) DEF DeleteAttachment, Volume
<1>6. \A u \in Vol : Placed(u, vol'[u]) /\ vol'[u].rec = vol[u].rec
  BY <1>2, <1>3, <1>5, Zenon DEF Placed
<1>7. Distinct /\ n # "delete_store" => Recorded(w, vs, vol)
  BY <1>3, Zenon DEF Sound, Allocated, FreePC
<1>8. ASSUME Tidy, crashes = 0
      PROVE  /\ vol'[v].stage = {} /\ (vol'[v].dir => vol'[v].rec # "none") /\ (n = "delete_store" => listed)
             /\ \A u \in Vol : u # v => Clean(vol'[u])
  <2>1. Handled("free_attachment", w, vs, n, vol)
    BY <1>3, <1>8, Zenon
  <2>2. vol[v].stage = {} /\ (vol[v].dir => vol[v].rec # "none")
    BY <2>1, Zenon DEF Handled, v
  <2>3. n = "delete_store" => listed
    BY <1>5, <2>1, Zenon DEF Handled, FreePC, listed
  <2> QED BY <1>3, <1>5, <1>8, <2>2, <2>3, Zenon
<1>9. ASSUME NEW l \in {"free_lookup", "free_delete"}, Goto(p, l), l = "free_lookup" => n = "delete_store",
             l = "free_delete" => n # "delete_store" /\ LastOf(vs).policy # "retain"
      PROVE  VolumeInv'
  <2>1. Leads(p, l, w, vs, n)
    BY <1>9, LeadsOn, Zenon DEF w, vs, n
  <2>2. Sound(l, w, vs, n, vol')
    <3>1. Distinct /\ n # "delete_store" => Recorded(w, vs, vol')
      BY <1>2, <1>6, <1>7, StillRecorded, Zenon
    <3> QED BY <1>5, <1>9, <3>1, ZenonT(40) DEF Sound, Allocated, AllocatePC, v
  <2>3. ASSUME Tidy, crashes = 0
        PROVE  Handled(l, w, vs, n, vol') /\ \A u \in Vol : u \notin Hand(l, w, vs) => Clean(vol'[u])
    <3>1. Handled(l, w, vs, n, vol')
      BY <1>8, <1>9, <2>3, ZenonT(40) DEF Handled, v, listed
    <3>2. v \in Hand(l, w, vs)
      BY <1>9, SMTT(30) DEF Hand, v
    <3> QED BY <1>8, <2>3, <3>1, <3>2, ZenonT(40)
  <2> QED BY <1>1, <1>6, <2>1, <2>2, <2>3, WorkStep, Zenon
<1>10. CASE n # "delete_store" /\ LastOf(vs).policy = "retain" /\ FreeNext(p)
  <2>1. ASSUME Tidy, crashes = 0 PROVE \A u \in Vol : Clean(vol'[u])
    <3>1. Distinct
      BY <2>1, Zenon DEF Tidy
    <3>2. Len(vs) \in 1 .. Len(vs)
      BY <1>2, SMTT(30)
    <3>3. vol[v].rec = "retain"
      BY <1>7, <1>10, <3>1, <3>2, Zenon DEF Recorded, LastOf, v
    <3>4. Clean(vol'[v])
      BY <1>5, <1>8, <2>1, <3>3, ZenonT(40) DEF Clean
    <3> QED BY <1>8, <2>1, <3>4, Zenon
  <2> QED BY <1>1, <1>5, <1>6, <1>7, <1>10, <2>1, NextFreed, Zenon DEF w, vs, n, v
<1>11. CASE n = "delete_store" /\ Goto(p, "free_lookup")
  BY <1>9, <1>11, SMTT(30), Z3T(30)
<1>12. CASE n # "delete_store" /\ LastOf(vs).policy # "retain" /\ Goto(p, "free_delete")
  BY <1>9, <1>12, SMTT(30)
<1> QED BY <1>4, <1>10, <1>11, <1>12, Zenon

\* A release looks the handle up: what the store does not know is not on the node.
LEMMA LookupStep ==
  ASSUME TypeInv, VolumeInv, LockInv, Alone, NEW p \in OpProc, FreeLookup(p)
  PROVE  VolumeInv'
<1> DEFINE w == proc[p].wl
           vs == proc[p].vols
           n == proc[p].then
           v == LastOf(vs).vol
           listed == \A u \in Vol : vol[u].att # {} => \E k \in 1 .. Len(vs) : vs[k].vol = u
<1>1. /\ proc[p].pc = "free_lookup" /\ UNCHANGED <<vol, crashes>> /\ proc[p].pc # "idle" /\ proc[p].pc \in FreePC
  BY Zenon DEF FreeLookup, At, FreePC
<1>2. v \in Vol /\ vol[v] \in Volume(WId)
  BY <1>1, AtFreeing, Zenon
<1>3. /\ \A u \in Vol : Placed(u, vol[u])
      /\ Sound("free_lookup", w, vs, n, vol)
      /\ Tidy /\ crashes = 0 => /\ Handled("free_lookup", w, vs, n, vol)
                                /\ \A u \in Vol : u # v => Clean(vol[u])
  <2>1. Hand("free_lookup", w, vs) = {v}
    BY SMTT(30) DEF Hand
  <2> QED BY <1>1, <2>1, AtWork, Zenon
<1>4. \/ vol[v].rec = "delete" /\ Goto(p, "free_delete")
      \/ vol[v].rec # "delete" /\ FreeNext(p)
  BY Zenon DEF FreeLookup, Freed, LastOf, GetVolume
<1> HIDE DEF w, vs, n, v, listed
<1>5. vol[v].att = {} /\ n = "delete_store"
  BY <1>3, Zenon DEF Sound, v
<1>6. ASSUME Tidy, crashes = 0
      PROVE  vol[v].stage = {} /\ (vol[v].dir => vol[v].rec # "none") /\ listed
  <2>1. Handled("free_lookup", w, vs, n, vol)
    BY <1>3, <1>6, Zenon
  <2> QED BY <1>5, <2>1, Zenon DEF Handled, FreePC, v, listed
<1>7. CASE vol[v].rec = "delete" /\ Goto(p, "free_delete")
  <2>1. Leads(p, "free_delete", w, vs, n)
    BY <1>7, LeadsOn, Zenon DEF w, vs, n
  <2>2. Sound("free_delete", w, vs, n, vol)
    BY <1>5, <1>7, ZenonT(40) DEF Sound, Allocated, AllocatePC, v
  <2>3. ASSUME Tidy, crashes = 0
        PROVE  Handled("free_delete", w, vs, n, vol) /\ \A u \in Vol : u \notin Hand("free_delete", w, vs) => Clean(vol[u])
    <3>1. Handled("free_delete", w, vs, n, vol)
      BY <1>6, <2>3, ZenonT(40) DEF Handled, v, listed
    <3>2. v \in Hand("free_delete", w, vs)
      BY SMTT(30) DEF Hand, v
    <3> QED BY <1>3, <2>3, <3>1, <3>2, Zenon
  <2>4. vol' = vol /\ crashes' = crashes
    BY <1>1, Zenon
  <2> QED BY <1>1, <1>3, <2>1, <2>2, <2>3, <2>4, WorkStep, Zenon
<1>8. CASE vol[v].rec # "delete" /\ FreeNext(p)
  <2>1. ASSUME Tidy, crashes = 0 PROVE \A u \in Vol : Clean(vol[u])
    <3>1. vol[v].rec \in {"none", "delete", "retain"}
      BY <1>2, Zenon DEF Volume
    <3>2. Clean(vol[v])
      BY <1>6, <1>8, <2>1, <3>1, ZenonT(40) DEF Clean
    <3> QED BY <1>3, <2>1, <3>2, Zenon
  <2>2. vol' = vol /\ crashes' = crashes
    BY <1>1, Zenon
  <2> QED BY <1>1, <1>3, <1>5, <1>6, <1>8, <2>1, <2>2, NextFreed, Zenon DEF w, vs, n, v, listed
<1> QED BY <1>4, <1>7, <1>8, Zenon

\* Delete removes the directory of a local volume.
LEMMA DestroyStep ==
  ASSUME TypeInv, VolumeInv, LockInv, Alone, NEW p \in OpProc, FreeDelete(p)
  PROVE  VolumeInv'
<1> DEFINE w == proc[p].wl
           vs == proc[p].vols
           n == proc[p].then
           v == LastOf(vs).vol
           listed == \A u \in Vol : vol'[u].att # {} => \E k \in 1 .. Len(vs) : vs[k].vol = u
<1>1. proc[p].pc = "free_delete" /\ crashes' = crashes /\ proc[p].pc # "idle" /\ proc[p].pc \in FreePC
  BY Zenon DEF FreeDelete, At, FreePC
<1>2. v \in Vol /\ vol[v] \in Volume(WId) /\ vs \in Seq(Allocation)
  BY <1>1, AtFreeing, Zenon
<1>3. /\ \A u \in Vol : Placed(u, vol[u])
      /\ Sound("free_delete", w, vs, n, vol)
      /\ Tidy /\ crashes = 0 => /\ Handled("free_delete", w, vs, n, vol)
                                /\ \A u \in Vol : u # v => Clean(vol[u])
  <2>1. Hand("free_delete", w, vs) = {v}
    BY SMTT(30) DEF Hand
  <2> QED BY <1>1, <2>1, AtWork, Zenon
<1>4. PICK o \in Destroy(v, vol[v]) :
        SetVolume(v, o.vol) /\ (Goto(p, "free_record") \/ (n = "delete_store" /\ FreeNext(p)))
  BY Zenon DEF FreeDelete, Freed, LastOf, Releasing
<1> HIDE DEF w, vs, n, v, listed
<1>5. vol[v].att = {}
  BY <1>3, Zenon DEF Sound, v
<1>6. /\ vol'[v].stage = vol[v].stage /\ vol'[v].rec = vol[v].rec /\ vol'[v].att = {} /\ Placed(v, vol'[v])
      /\ "remove" \notin VolumeFaults => ~vol'[v].dir
      /\ \A u \in Vol : u # v => vol'[u] = vol[u]
  <2>1. vol'[v] = o.vol /\ \A u \in Vol : u # v => vol'[u] = vol[u]
    BY <1>2, <1>4, Written, Zenon
  <2>2. Placed(v, vol[v])
    BY <1>2, <1>3, Zenon
  <2>3. /\ o.vol.stage = vol[v].stage /\ o.vol.rec = vol[v].rec /\ o.vol.att = vol[v].att
        /\ vol[v].att = {} => Placed(v, o.vol)
        /\ "remove" \notin VolumeFaults => ~o.vol.dir
    BY ONLY <1>2, <1>4, <2>2, DestroyOutcome, SMTT(30), Z3T(30)
  <2> QED BY <1>5, <2>1, <2>3, Zenon
<1>7. \A u \in Vol : Placed(u, vol'[u]) /\ vol'[u].rec = vol[u].rec
  BY <1>2, <1>3, <1>6, Zenon
<1>8. ASSUME Tidy, crashes = 0
      PROVE  /\ vol'[v].stage = {} /\ ~vol'[v].dir /\ (n = "delete_store" => listed)
             /\ \A u \in Vol : u # v => Clean(vol'[u])
  <2>1. Handled("free_delete", w, vs, n, vol)
    BY <1>3, <1>8, Zenon
  <2>2. vol[v].stage = {} /\ "remove" \notin VolumeFaults
    BY <1>8, <2>1, Zenon DEF Handled, v, Tidy
  <2>3. n = "delete_store" => listed
    BY <1>6, <2>1, Zenon DEF Handled, FreePC, listed
  <2> QED BY <1>3, <1>6, <1>8, <2>2, <2>3, Zenon
<1>9. CASE Goto(p, "free_record")
  <2>1. Leads(p, "free_record", w, vs, n)
    BY <1>9, LeadsOn, Zenon DEF w, vs, n
  <2>2. Sound("free_record", w, vs, n, vol')
    <3>1. Distinct /\ n # "delete_store" => Recorded(w, vs, vol')
      <4>1. Distinct /\ n # "delete_store" => Recorded(w, vs, vol)
        BY <1>3, Zenon DEF Sound, Allocated, FreePC
      <4> QED BY <1>2, <1>7, <4>1, StillRecorded, Zenon
    <3> QED BY <1>6, <3>1, ZenonT(40) DEF Sound, Allocated, AllocatePC, v
  <2>3. ASSUME Tidy, crashes = 0
        PROVE  Handled("free_record", w, vs, n, vol') /\ \A u \in Vol : u \notin Hand("free_record", w, vs) => Clean(vol'[u])
    <3>1. Handled("free_record", w, vs, n, vol')
      BY <1>8, <2>3, ZenonT(40) DEF Handled, v, listed
    <3>2. v \in Hand("free_record", w, vs)
      BY SMTT(30) DEF Hand, v
    <3> QED BY <1>8, <2>3, <3>1, <3>2, ZenonT(40)
  <2> QED BY <1>1, <1>7, <2>1, <2>2, <2>3, WorkStep, Zenon
<1>10. CASE n = "delete_store" /\ FreeNext(p)
  <2>1. ASSUME Tidy, crashes = 0 PROVE \A u \in Vol : Clean(vol'[u])
    <3>1. Clean(vol'[v])
      BY <1>8, <2>1, Zenon DEF Clean
    <3> QED BY <1>8, <2>1, <3>1, Zenon
  <2> QED BY <1>1, <1>6, <1>7, <1>8, <1>10, <2>1, NextFreed, Zenon DEF w, vs, n, v, listed
<1> QED BY <1>4, <1>9, <1>10, Zenon

\* DeleteVolume removes the handle last.
LEMMA ForgetStep ==
  ASSUME TypeInv, VolumeInv, LockInv, Alone, ~StoreFaults, NEW p \in OpProc, FreeRecord(p)
  PROVE  VolumeInv'
<1> DEFINE w == proc[p].wl
           vs == proc[p].vols
           n == proc[p].then
           v == LastOf(vs).vol
           listed == \A u \in Vol : vol'[u].att # {} => \E k \in 1 .. Len(vs) : vs[k].vol = u
<1>1. proc[p].pc = "free_record" /\ crashes' = crashes /\ proc[p].pc # "idle" /\ proc[p].pc \in FreePC
  BY Zenon DEF FreeRecord, At, FreePC
<1>2. v \in Vol /\ vol[v] \in Volume(WId)
  BY <1>1, AtFreeing, Zenon
<1>3. /\ \A u \in Vol : Placed(u, vol[u])
      /\ Sound("free_record", w, vs, n, vol)
      /\ Tidy /\ crashes = 0 => /\ Handled("free_record", w, vs, n, vol)
                                /\ \A u \in Vol : u # v => Clean(vol[u])
  <2>1. Hand("free_record", w, vs) = {v}
    BY SMTT(30) DEF Hand
  <2> QED BY <1>1, <2>1, AtWork, Zenon
<1>4. SetVolume(v, DeleteVolume(vol[v])) /\ FreeNext(p)
  BY Zenon DEF FreeRecord, Freed, LastOf, Write
<1> HIDE DEF w, vs, n, v, listed
<1>5. /\ vol'[v].dir = vol[v].dir /\ vol'[v].stage = vol[v].stage /\ vol'[v].att = vol[v].att
      /\ \A u \in Vol : u # v => vol'[u] = vol[u]
  <2>1. vol'[v] = DeleteVolume(vol[v]) /\ \A u \in Vol : u # v => vol'[u] = vol[u]
    BY <1>2, <1>4, Written, Zenon
  <2> QED BY <1>2, <2>1, SMTT(30) DEF DeleteVolume, Volume
<1>6. vol'[v].att = {}
  BY <1>3, <1>5, Zenon DEF Sound, v
<1>7. \A u \in Vol : Placed(u, vol'[u])
  BY <1>2, <1>3, <1>5, Zenon DEF Placed
<1>8. Distinct /\ n # "delete_store" => Recorded(w, vs, vol)
  BY <1>3, Zenon DEF Sound, Allocated, FreePC
<1>9. ASSUME Tidy, crashes = 0 PROVE (\A u \in Vol : Clean(vol'[u])) /\ (n = "delete_store" => listed)
  <2>1. Handled("free_record", w, vs, n, vol)
    BY <1>3, <1>9, Zenon
  <2>2. vol[v].stage = {} /\ ~vol[v].dir
    BY <2>1, Zenon DEF Handled, v
  <2>3. n = "delete_store" => listed
    BY <1>5, <2>1, Zenon DEF Handled, FreePC, listed
  <2>4. Clean(vol'[v])
    BY <1>5, <2>2, Zenon DEF Clean
  <2> QED BY <1>3, <1>5, <1>9, <2>3, <2>4, Zenon
<1> QED BY <1>1, <1>4, <1>5, <1>6, <1>7, <1>8, <1>9, NextFreed, Zenon DEF w, vs, n, v, listed

\* A delete lists all that is attached.
LEMMA ListStep ==
  ASSUME TypeInv, TypeInv', VolumeInv, LockInv, Alone, NEW p \in OpProc, DeleteList(p)
  PROVE  VolumeInv'
<1> DEFINE w == proc[p].wl
           i == proc[p].id
           attached == {[vol |-> v, policy |-> "none"] : v \in ListAttachments(i)}
<1>1. /\ proc[p].pc = "delete_list" /\ UNCHANGED <<vol, crashes>> /\ proc[p].pc # "idle" /\ p \in Proc
      /\ proc[p].pc \notin HandPC
  BY Zenon DEF DeleteList, At, HandPC, Proc
<1>2. PICK order \in Orders(attached) :
        proc' = [proc EXCEPT ![p].pc = IF order = <<>> THEN "delete_store" ELSE "free_detach",
                             ![p].vols = order, ![p].then = "delete_store"]
  BY Zenon DEF DeleteList
<1> DEFINE l == IF order = <<>> THEN "delete_store" ELSE "free_detach"
<1>3. l \in {"delete_store", "free_detach"} /\ (l = "delete_store" => order = <<>>)
  OBVIOUS
<1>4. Leads(p, l, w, order, "delete_store")
  BY <1>2, LeadsOn, Zenon
<1> HIDE DEF l
<1>5. order \in Seq(Allocation)
  <2>1. proc'[p] \in LocalState /\ proc'[p].vols = order
    BY <1>1, <1>4, Zenon DEF TypeInv, ProcTyped, Leads
  <2> QED BY <2>1, Zenon DEF LocalState, Allocation
<1>6. i \in WId
  BY <1>1, Zenon DEF TypeInv, ProcTyped, Held
<1>7. ASSUME NEW v \in Vol, vol[v].att # {} PROVE \E k \in 1 .. Len(order) : order[k].vol = v
  <2>1. vol[v].att \in SUBSET WId
    BY Zenon DEF TypeInv, StoreTyped, Volume
  <2>2. i \in vol[v].att
    BY <1>6, <1>7, <2>1, OneWorkload, Zenon
  <2>3. [vol |-> v, policy |-> "none"] \in attached
    BY <2>2, Zenon DEF ListAttachments
  <2>4. {order[k] : k \in DOMAIN order} = attached
    BY <1>2, Zenon DEF Orders
  <2>5. PICK k \in DOMAIN order : order[k] = [vol |-> v, policy |-> "none"]
    BY <2>3, <2>4, Zenon
  <2>6. DOMAIN order = 1 .. Len(order)
    BY <1>5, SMTT(30), Z3T(30)
  <2> QED BY <2>5, <2>6, SMTT(30)
<1>8. Sound(l, w, order, "delete_store", vol)
  BY <1>3, ZenonT(40) DEF Sound, Allocated, AllocatePC
<1>9. Handled(l, w, order, "delete_store", vol)
  <2>1. CASE l = "delete_store"
    <3>1. Len(order) = 0
      BY <1>3, <2>1, SMTT(30), Z3T(30)
    <3>2. \A v \in Vol : vol[v].att = {}
      BY <1>7, <3>1, SMTT(30), Z3T(30)
    <3> QED BY <2>1, <3>2, ZenonT(40) DEF Handled, FreePC
  <2>2. CASE l = "free_detach"
    BY <1>7, <2>2, ZenonT(40) DEF Handled, FreePC
  <2> QED BY <1>3, <2>1, <2>2, Zenon
<1> QED BY <1>1, <1>4, <1>8, <1>9, QuietWork, Zenon

-----------------------------------------------------------------------------
(* The rest of the manager.                                                *)

\* The store's DeleteWorkload finds nothing attached any more.
LEMMA RecordsStep ==
  ASSUME TypeInv, VolumeInv, LockInv, Alone, NEW p \in OpProc, DeleteStore(p)
  PROVE  VolumeInv'
<1> DEFINE i == proc[p].id
<1>1. proc[p].pc = "delete_store" /\ proc[p].pc # "idle" /\ crashes' = crashes
  BY Zenon DEF DeleteStore, At
<1>2. Leads(p, "idle", None, <<>>, None)
  BY LeadsOn, Zenon DEF DeleteStore, Return
<1>3. /\ \A u \in Vol : Placed(u, vol[u])
      /\ Tidy /\ crashes = 0 => \A u \in Vol : Clean(vol[u]) /\ vol[u].att = {}
  <2>1. Hand("delete_store", proc[p].wl, proc[p].vols) = {}
    BY SMTT(30) DEF Hand
  <2> QED BY <1>1, <2>1, AtWork, Zenon DEF Handled
<1>4. ASSUME NEW u \in Vol
      PROVE  /\ vol'[u].dir = vol[u].dir /\ vol'[u].stage = vol[u].stage /\ vol'[u].rec = vol[u].rec
             /\ vol'[u].att \subseteq vol[u].att
  <2>1. vol[u] \in Volume(WId)
    BY Zenon DEF TypeInv, StoreTyped
  <2>2. vol'[u] = vol[u] \/ vol'[u] = DeleteAttachment(vol[u], i)
    BY Zenon DEF DeleteStore, DeleteRecords
  <2> QED BY <2>1, <2>2, SMTT(30) DEF DeleteAttachment, Volume
<1>5. \A u \in Vol : Placed(u, vol'[u])
  BY <1>3, <1>4, ZenonT(40) DEF Placed
<1>6. Tidy /\ crashes = 0 => \A u \in Vol : Clean(vol'[u])
  BY <1>3, <1>4, SMTT(30), Z3T(30) DEF Clean
<1>7. "idle" \notin BusyPC
  BY SMTT(30) DEF BusyPC, AllocatePC, FreePC
<1> QED BY <1>1, <1>2, <1>5, <1>6, <1>7, NotBusy, WorkStep, Zenon

\* The steps of others: of the reconcile loop, of GetStatus and of the surroundings.
LEMMA ElsewhereSteps ==
  ASSUME LockInv, VolumeInv,
         \/ \E p \in RecProc : ReconcileStep(p) \/ \E i \in WId : ReconcileWorkload(p, i)
         \/ \E p \in GetProc : GetStep(p) \/ \E i \in WId : GetStatus(p, i)
         \/ Surroundings \/ UNCHANGED vars
  PROVE  VolumeInv'
<1>0. proc = [q \in Proc |-> proc[q]] /\ OpProc \subseteq Proc
  BY Zenon DEF LockInv, Proc
<1>a. ASSUME UNCHANGED <<vol, crashes>>, \A q \in OpProc : proc'[q] = proc[q] PROVE VolumeInv'
  BY <1>a, CalmStep, Zenon DEF Unmoved
<1>1. ASSUME NEW p \in RecProc, ReconcileStep(p) \/ \E i \in WId : ReconcileWorkload(p, i) PROVE VolumeInv'
  <2>1. UNCHANGED <<vol, crashes>>
    BY <1>1, Zenon DEF ReconcileStep, ReconcileWorkload, ReconcileLoad, ReconcileObserve, ReconcileDelete, ReconcileCreate,
         ReconcileRestart, ReconcileStart, ReconcileStop, ReconcileRecheck, PendingStop, PendingStart, PendingDelete,
         PendingSave, Save
  <2>2. ASSUME NEW q \in OpProc PROVE proc'[q] = proc[q]
    <3>1. q # p /\ q \in Proc
      BY <1>0, ProcAssumption, Zenon
    <3>2. CASE \E i \in WId : ReconcileWorkload(p, i)
      BY <1>0, <3>1, <3>2, Zenon DEF ReconcileWorkload
    <3>3. CASE Return(p)
      BY <1>0, <3>1, <3>3, Zenon DEF Return
    <3>4. CASE \E l : Goto(p, l)
      BY <1>0, <3>1, <3>4, Zenon DEF Goto
    <3>5. CASE \E l, s : GotoWith(p, l, s)
      BY <1>0, <3>1, <3>5, Zenon DEF GotoWith
    <3>6. CASE \E l, w : proc' = [proc EXCEPT ![p].pc = l, ![p].wl = w]
      BY <1>0, <3>1, <3>6, Zenon
    <3>7. CASE \E l, s, t : proc' = [proc EXCEPT ![p].pc = l, ![p].st = s, ![p].tr = t]
      BY <1>0, <3>1, <3>7, Zenon
    <3>8. CASE ReconcileStep(p)
      <4>1. CASE ReconcileLoad(p) \/ ReconcileDelete(p) \/ ReconcileCreate(p) \/ ReconcileRestart(p) \/ ReconcileStart(p)
                 \/ ReconcileStop(p) \/ ReconcileRecheck(p)
        <5>1. Return(p) \/ (\E l : Goto(p, l)) \/ \E l, s : GotoWith(p, l, s)
          BY <4>1, Zenon DEF ReconcileLoad, ReconcileDelete, ReconcileCreate, ReconcileRestart, ReconcileStart,
               ReconcileStop, ReconcileRecheck
        <5> QED BY <5>1, <3>3, <3>4, <3>5, Zenon
      <4>2. CASE PendingStop(p) \/ PendingStart(p) \/ PendingDelete(p) \/ Save(p)
        <5>1. Return(p) \/ (\E l : Goto(p, l)) \/ \E l, s : GotoWith(p, l, s)
          BY <4>2, Zenon DEF PendingStop, PendingStart, PendingDelete, Save
        <5> QED BY <5>1, <3>3, <3>4, <3>5, Zenon
      <4>3. CASE PendingSave(p)
        BY <3>6, <4>3, Zenon DEF PendingSave
      <4>4. CASE ReconcileObserve(p)
        <5>1. CASE \E a : ReconcileStopped(p, a)
          BY <3>5, <5>1, Zenon DEF ReconcileStopped
        <5>2. CASE ReconcilePending(p)
          BY <3>5, <5>2, SMTT(30), Z3T(30) DEF ReconcilePending
        <5>3. CASE ReconcileMissing(p)
          BY <3>5, <5>3, Zenon DEF ReconcileMissing, Readmit
        <5>4. CASE ReconcileFailed(p)
          <6> DEFINE s == [proc[p].st EXCEPT !.actual = "Failed"]
                     after(r) ==
                       CASE ~r.retryable -> GotoWith(p, "save", [s EXCEPT !.terminal = TRUE])
                         [] r.retryable /\ ~CanRetryNow(r.tracker) -> GotoWith(p, "save", s)
                         [] OTHER -> Readmit(p, s)
          <6>1. GotoWith(p, "save", s) \/ \E r : after(r)
            BY <5>4, Zenon DEF ReconcileFailed
          <6>2. ASSUME NEW r, after(r) PROVE \E l, t : GotoWith(p, l, t)
            <7> HIDE DEF s
            <7>1. GotoWith(p, "save", [s EXCEPT !.terminal = TRUE]) \/ GotoWith(p, "save", s) \/ Readmit(p, s)
              BY <6>2, SMTT(30)
            <7> QED BY <7>1, Zenon DEF Readmit
          <6> HIDE DEF after, s
          <6> QED BY <3>5, <6>1, <6>2, Zenon
        <5>5. CASE ReconcileNotRunning(p)
          <6> DEFINE s == [proc[p].st EXCEPT !.actual = "Stopped"]
                     t == getRetryTracker(proc[p].id)
                     failed == [s EXCEPT !.actual = "Failed"]
                     starts == proc' = [proc EXCEPT ![p].pc = "rec_start", ![p].st = s, ![p].tr = t]
          <6>1. (CASE s.terminal -> GotoWith(p, "save", failed)
                   [] ~s.terminal /\ BackingOff(t) -> GotoWith(p, "save", s)
                   [] OTHER -> starts)
            BY <5>5, Zenon DEF ReconcileNotRunning
          <6>2. starts => proc'[q] = proc[q]
            BY <3>7, Zenon
          <6> HIDE DEF s, t, failed, starts
          <6>3. GotoWith(p, "save", failed) \/ GotoWith(p, "save", s) \/ starts
            BY <6>1, SMTT(30)
          <6> QED BY <3>5, <6>2, <6>3, Zenon
        <5>6. CASE \E s : GotoWith(p, "save", s)
          BY <3>5, <5>6, Zenon
        <5>7. \/ \E a : ReconcileStopped(p, a) \/ ReconcilePending(p) \/ ReconcileMissing(p) \/ ReconcileFailed(p)
              \/ ReconcileNotRunning(p) \/ \E s : GotoWith(p, "save", s)
          BY <4>4, SMTT(30) DEF ReconcileObserve
        <5> QED BY <5>1, <5>2, <5>3, <5>4, <5>5, <5>6, <5>7, Zenon
      <4> QED BY <3>8, <4>1, <4>2, <4>3, <4>4, Zenon DEF ReconcileStep
    <3> QED BY <1>1, <3>2, <3>8, Zenon
  <2> QED BY <1>a, <2>1, <2>2, Zenon
<1>2. ASSUME NEW p \in GetProc, GetStep(p) \/ \E i \in WId : GetStatus(p, i) PROVE VolumeInv'
  <2>1. UNCHANGED <<vol, crashes>>
    BY <1>2, Zenon DEF GetStep, GetStatus, GetStatusWorkload, GetStatusObserve, GetStatusSave
  <2>2. ASSUME NEW q \in OpProc PROVE proc'[q] = proc[q]
    <3>1. q # p /\ q \in Proc
      BY <1>0, ProcAssumption, Zenon
    <3> QED BY <1>0, <1>2, <3>1, Zenon DEF GetStep, GetStatus, GetStatusWorkload, GetStatusObserve, GetStatusSave, GotoWith
  <2> QED BY <1>a, <2>1, <2>2, Zenon
<1>3. CASE Surroundings \/ UNCHANGED vars
  <2>1. UNCHANGED <<proc, vol, crashes>>
    BY <1>3, SMTT(30) DEF Surroundings, BackoffElapses, Drift, vars
  <2> QED BY <1>a, <2>1, Zenon
<1> QED BY <1>1, <1>2, <1>3, Zenon

\* An apply or a delete begins, the agent crashes, or time passes.
LEMMA OutsideSteps ==
  ASSUME TypeInv, LockInv, VolumeInv,
         \/ \E p \in OpProc, i \in WId : DeleteWorkload(p, i) \/ \E w \in Request : ApplyWorkload(p, i, w)
         \/ Crash \/ PendingThresholdPasses \/ FailedTTLPasses
  PROVE  VolumeInv'
<1>0. proc = [q \in Proc |-> proc[q]] /\ OpProc \subseteq Proc /\ \A q \in OpProc : Shaped(proc[q])
  BY Zenon DEF LockInv, Proc
<1>i. "idle" \notin BusyPC /\ "idle" \notin HandPC
  BY SMTT(30) DEF BusyPC, AllocatePC, FreePC, HandPC
<1>1. ASSUME NEW p \in OpProc, NEW i \in WId, DeleteWorkload(p, i) \/ \E w \in Request : ApplyWorkload(p, i, w)
      PROVE  VolumeInv'
  <2>1. UNCHANGED <<vol, crashes>> /\ proc[p].pc = "idle"
    BY <1>1, Zenon DEF DeleteWorkload, ApplyWorkload, At
  <2>2. proc'[p].pc \in {"delete_runtime", "apply_status", "apply_admit"} /\ \A q \in OpProc \ {p} : proc'[q] = proc[q]
    <3>1. CASE DeleteWorkload(p, i)
      <4>1. proc' = [proc EXCEPT ![p] =
               [IdleProc EXCEPT !.pc = "delete_runtime", !.id = i, !.wl = GetWorkload(i)]]
        BY <3>1, Zenon DEF DeleteWorkload
      <4> QED BY <1>0, <4>1, SMTT(30) DEF IdleProc
    <3>2. CASE \E w \in Request : ApplyWorkload(p, i, w)
      <4>1. PICK w \in Request : ApplyWorkload(p, i, w)
        BY <3>2, Zenon
      <4> DEFINE l == IF GetWorkload(i) # None /\ GetWorkload(i).rev = w.rev THEN "apply_status" ELSE "apply_admit"
      <4>2. l \in {"apply_status", "apply_admit"}
        BY Zenon
      <4>3. proc' = [proc EXCEPT ![p] = [IdleProc EXCEPT !.pc = l, !.id = i, !.req = w, !.wl = GetWorkload(i)]]
        BY <4>1, Zenon DEF ApplyWorkload
      <4> HIDE DEF l
      <4> QED BY <1>0, <4>2, <4>3, SMTT(30), Z3T(30) DEF IdleProc
    <3> QED BY <1>1, <3>1, <3>2, Zenon
  <2>3. proc'[p].pc \notin BusyPC
    BY <2>2, SMTT(30) DEF BusyPC, AllocatePC, FreePC
  <2>4. \A q \in OpProc : Unmoved(q) \/ (proc[q].pc \notin HandPC /\ proc'[q].pc \notin BusyPC)
    BY <1>i, <2>1, <2>2, <2>3, Zenon DEF Unmoved
  <2> QED BY <2>1, <2>4, CalmStep, Zenon
<1>2. CASE Crash
  <2>1. crashes' # 0 /\ vol' = vol
    <3>1. crashes \in Nat
      BY ConfigAssumption, SMTT(30), Z3T(30) DEF TypeInv, StoreTyped
    <3> QED BY <1>2, <3>1, SMTT(30), Z3T(30) DEF Crash
  <2>2. \A q \in OpProc : proc'[q].pc \notin BusyPC
    BY <1>0, <1>2, <1>i, Zenon DEF Crash, IdleProc
  <2>3. \A q \in OpProc : Sound(proc'[q].pc, proc'[q].wl, proc'[q].vols, proc'[q].then, vol')
    BY <2>2, NotBusy, Zenon
  <2> QED BY <2>1, <2>3, Zenon DEF VolumeInv
<1>3. CASE PendingThresholdPasses \/ FailedTTLPasses
  <2>1. UNCHANGED <<vol, crashes>> /\ \A q \in Proc : \E s : proc'[q] = [proc[q] EXCEPT !.st = s]
    BY <1>3, Zenon DEF PendingThresholdPasses, FailedTTLPasses
  <2>2. ASSUME NEW q \in OpProc PROVE Unmoved(q)
    <3>1. PICK s : proc'[q] = [proc[q] EXCEPT !.st = s]
      BY <1>0, <2>1, Zenon
    <3> QED BY <1>0, <3>1, SMTT(30), Z3T(30) DEF Unmoved, Shaped, Fields
  <2> QED BY <2>1, <2>2, CalmStep, Zenon
<1> QED BY <1>1, <1>2, <1>3, Zenon

\* There are no volumes and no operations at the start.
LEMMA VolumeInit == Init => VolumeInv
<1> SUFFICES ASSUME Init PROVE VolumeInv
  OBVIOUS
<1>1. \A v \in Vol : Placed(v, vol[v]) /\ Clean(vol[v])
  BY ZenonT(40) DEF Init, NoVolume, Placed, Clean
<1>2. \A q \in OpProc : proc[q].pc \notin BusyPC
  <2>1. \A q \in OpProc : proc[q].pc = "idle"
    BY Zenon DEF Init, IdleProc, Proc
  <2> QED BY <2>1, ZenonT(40) DEF BusyPC, AllocatePC, FreePC
<1> QED BY <1>1, <1>2, NotBusy, Zenon DEF VolumeInv

\* Every step of the manager keeps the invariant of the volumes.
LEMMA VolumeNext ==
  ASSUME TypeInv, TypeInv', LockInv, VolumeInv, Alone, ~StoreFaults, [Next]_vars
  PROVE  VolumeInv'
<1>1. CASE Begin
  BY <1>1, OutsideSteps, ElsewhereSteps, Zenon DEF Begin
<1>2. ASSUME NEW p \in OpProc, ApplyStep(p) PROVE VolumeInv'
  BY <1>2, PlainSteps, InitialStep, RuntimeVolumes, Zenon DEF ApplyStep
<1>3. ASSUME NEW p \in OpProc, VolumeStep(p) PROVE VolumeInv'
  <2>1. CASE VolumeProvision(p) \/ VolumeRecord(p) \/ VolumeAttach(p) \/ VolumeAttachment(p) \/ VolumeSave(p) \/ VolumeFail(p)
    BY <2>1, ProvisionStep, RecordStep, AttachStep, AttachmentStep, RuntimeVolumes, PlainSteps, Zenon
  <2>2. CASE FreeDetach(p) \/ FreeAttachment(p) \/ FreeLookup(p) \/ FreeDelete(p) \/ FreeRecord(p)
    BY <2>2, DetachStep, DetachedStep, LookupStep, DestroyStep, ForgetStep, Zenon
  <2> QED BY <1>3, <2>1, <2>2, Zenon DEF VolumeStep
<1>4. ASSUME NEW p \in OpProc, DeleteStep(p) PROVE VolumeInv'
  BY <1>4, PlainSteps, ListStep, RecordsStep, Zenon DEF DeleteStep
<1>5. CASE Step
  BY <1>2, <1>3, <1>4, <1>5, ElsewhereSteps, Zenon DEF Step
<1>6. CASE Surroundings \/ Crash \/ PendingThresholdPasses \/ FailedTTLPasses \/ UNCHANGED vars
  BY <1>6, OutsideSteps, ElsewhereSteps, Zenon
<1> QED BY <1>1, <1>5, <1>6, Zenon DEF Next

-----------------------------------------------------------------------------
(* What follows for the volumes.                                           *)

\* The data of the volumes that are to be retained stays.
Retains == \A v \in Vol : vol[v].rec = "retain" /\ vol[v].dir => vol'[v].dir

\* A step that writes one volume keeps the data if it keeps that volume's.
LEMMA OneRetained ==
  ASSUME TypeInv, NEW v \in Vol, NEW y, SetVolume(v, y), vol[v].rec = "retain" /\ vol[v].dir => y.dir
  PROVE  Retains
<1>1. vol'[v] = y /\ \A u \in Vol : u # v => vol'[u] = vol[u]
  BY Written, Zenon
<1> QED BY <1>1, Zenon DEF Retains

\* Setting up a volume removes no data.
LEMMA SetUpRetains ==
  ASSUME TypeInv, VolumeInv, NEW p \in OpProc,
         VolumeProvision(p) \/ VolumeRecord(p) \/ VolumeAttach(p) \/ VolumeAttachment(p)
  PROVE  Retains
<1> DEFINE v == Wanted(p).vol
           i == proc[p].id
<1>1. proc[p].pc \in AllocatePC
  BY ZenonT(40) DEF VolumeProvision, VolumeRecord, VolumeAttach, VolumeAttachment, At, AllocatePC
<1>2. v \in Vol /\ vol[v] \in Volume(WId) /\ i \in WId
  BY <1>1, AtHand, Zenon DEF Wanted, NextOf
<1>3. Placed(v, vol[v])
  BY <1>2, Zenon DEF VolumeInv
<1>4. CASE VolumeProvision(p)
  <2>1. PICK o \in Provision(v, vol[v]) : SetVolume(v, o.vol)
    BY <1>4, Zenon DEF VolumeProvision, VolumeCall
  <2> HIDE DEF v, i
  <2>2. /\ o.ok => (DriverOf[v] = "local" => o.vol.dir)
        /\ ~o.ok => o.vol = vol[v]
    BY ONLY <1>2, <1>3, <2>1, ProvisionOutcome, ZenonT(40)
  <2>3. vol[v].dir => DriverOf[v] = "local"
    BY <1>3, Zenon DEF Placed
  <2>4. vol[v].dir => o.vol.dir
    BY <2>2, <2>3, Zenon
  <2> QED BY <1>2, <2>1, <2>4, OneRetained, Zenon
<1>5. CASE VolumeAttach(p)
  <2>1. PICK o \in Attach(v, vol[v], i) : SetVolume(v, o.vol)
    BY <1>5, Zenon DEF VolumeAttach, VolumeCall
  <2> HIDE DEF v, i
  <2>2. o.vol.dir = vol[v].dir
    BY ONLY <1>2, <1>3, <2>1, AttachOutcome, SMTT(30), Z3T(30)
  <2> QED BY <1>2, <2>1, <2>2, OneRetained, Zenon
<1>6. CASE VolumeRecord(p) \/ VolumeAttachment(p)
  <2>1. PICK y : SetVolume(v, y) /\ (y = vol[v] \/ y = SaveVolume(vol[v], Wanted(p).policy) \/ y = SaveAttachment(vol[v], i))
    BY <1>6, Zenon DEF VolumeRecord, VolumeAttachment
  <2> HIDE DEF v, i
  <2>2. y.dir = vol[v].dir
    BY <1>2, <2>1, SMTT(30), Z3T(30) DEF Volume, SaveVolume, SaveAttachment
  <2> QED BY <1>2, <2>1, <2>2, OneRetained, Zenon
<1> QED BY <1>4, <1>5, <1>6, Zenon

\* Freeing a volume removes its data only under a policy other than retain: the policy
\* of the stored handle for a release, and for an apply that cleans up after itself the
\* policy of its own allocation, which is the one it has stored.
LEMMA FreeRetains ==
  ASSUME TypeInv, VolumeInv, Distinct, NEW p \in OpProc,
         FreeDetach(p) \/ FreeAttachment(p) \/ FreeDelete(p) \/ FreeRecord(p)
  PROVE  Retains
<1> DEFINE v == Freed(p).vol
           i == proc[p].id
           vs == proc[p].vols
           n == proc[p].then
<1>1. proc[p].pc \in FreePC
  BY SMTT(30) DEF FreeDetach, FreeAttachment, FreeDelete, FreeRecord, At, FreePC
<1>2. /\ v \in Vol /\ vol[v] \in Volume(WId) /\ i \in WId
      /\ vs \in Seq(Allocation) /\ Len(vs) \in Nat /\ Len(vs) > 0
  BY <1>1, AtFreeing, Zenon DEF Freed, LastOf
<1>3. Placed(v, vol[v])
  BY <1>2, Zenon DEF VolumeInv
<1>4. CASE FreeDetach(p)
  <2>1. PICK o \in Detach(v, vol[v], i) : SetVolume(v, o.vol)
    BY <1>4, Zenon DEF FreeDetach
  <2> HIDE DEF v, i
  <2>2. o.vol.dir = vol[v].dir
    BY ONLY <1>2, <1>3, <2>1, DetachOutcome, SMTT(30), Z3T(30)
  <2> QED BY <1>2, <2>1, <2>2, OneRetained, Zenon
<1>5. CASE FreeAttachment(p) \/ FreeRecord(p)
  <2>1. PICK y : SetVolume(v, y) /\ (y = vol[v] \/ y = DeleteVolume(vol[v]) \/ y = DeleteAttachment(vol[v], i))
    BY <1>5, Zenon DEF FreeAttachment, FreeRecord
  <2> HIDE DEF v, i
  <2>2. y.dir = vol[v].dir
    BY <1>2, <2>1, SMTT(30) DEF Volume, DeleteVolume, DeleteAttachment
  <2> QED BY <1>2, <2>1, <2>2, OneRetained, Zenon
<1>6. CASE FreeDelete(p)
  <2>1. Sound("free_delete", proc[p].wl, vs, n, vol)
    BY <1>6, Zenon DEF VolumeInv, FreeDelete, At
  <2>2. LastOf(vs).vol = v
    BY Zenon DEF LastOf, Freed
  <2>3. PICK o : SetVolume(v, o.vol)
    BY <1>6, Zenon DEF FreeDelete
  <2> HIDE DEF v, vs, n
  <2>4. CASE n = "delete_store"
    <3>1. vol[v].rec = "delete"
      BY <2>1, <2>2, <2>4, Zenon DEF Sound
    <3>2. vol[v].rec # "retain"
      BY <3>1, ZenonT(40)
    <3> QED BY <1>2, <2>3, <3>2, OneRetained, Zenon
  <2>5. CASE n # "delete_store"
    <3>1. LastOf(vs).policy # "retain" /\ Recorded(proc[p].wl, vs, vol)
      BY <2>1, <2>5, Zenon DEF Sound, Allocated, FreePC
    <3>2. Len(vs) \in 1 .. Len(vs)
      BY <1>2, SMTT(30)
    <3>3. vol[v].rec # "retain"
      BY <2>2, <3>1, <3>2, Zenon DEF Recorded, LastOf
    <3> QED BY <1>2, <2>3, <3>3, OneRetained, Zenon
  <2> QED BY <2>4, <2>5, Zenon
<1> QED BY <1>4, <1>5, <1>6, Zenon

\* No step removes the data of a volume whose handle says retain.
LEMMA RetainStep ==
  ASSUME TypeInv, VolumeInv, Distinct, [Next]_vars
  PROVE  Retains
<1>0. ASSUME UNCHANGED vol PROVE Retains
  BY <1>0, Zenon DEF Retains
<1>1. CASE Begin
  <2>1. UNCHANGED vol
    BY <1>1, Zenon DEF Begin, DeleteWorkload, ApplyWorkload, ReconcileWorkload, GetStatus
  <2> QED BY <1>0, <2>1, Zenon
<1>2. ASSUME NEW p \in OpProc, ApplyStep(p) PROVE Retains
  <2>1. UNCHANGED vol
    BY <1>2, Zenon DEF ApplyStep, ApplyStatus, ApplyAdmit, ApplyReject, ApplyDeleteOld, ApplySave, ApplyInitial,
       ApplyCreate, ApplyStart, ApplyFinal, Commit, FailRead, Save, TransSave, TransStatus, TransStart, TransStop,
       TransRecheck
  <2> QED BY <1>0, <2>1, Zenon
<1>3. ASSUME NEW p \in OpProc, VolumeStep(p) PROVE Retains
  <2>1. CASE VolumeSave(p) \/ VolumeFail(p) \/ FreeLookup(p)
    BY <1>0, <2>1, Zenon DEF VolumeSave, VolumeFail, FreeLookup
  <2> QED BY <1>3, <2>1, SetUpRetains, FreeRetains, Zenon DEF VolumeStep
<1>4. ASSUME NEW p \in OpProc, DeleteStep(p) PROVE Retains
  <2>1. CASE DeleteRuntime(p) \/ DeleteList(p)
    BY <1>0, <2>1, Zenon DEF DeleteRuntime, DeleteList
  <2>2. CASE DeleteStore(p)
    <3>1. ASSUME NEW u \in Vol PROVE vol'[u].dir = vol[u].dir
      <4>1. vol[u] \in Volume(WId)
        BY Zenon DEF TypeInv, StoreTyped
      <4>2. vol'[u] = vol[u] \/ vol'[u] = DeleteAttachment(vol[u], proc[p].id)
        BY <2>2, Zenon DEF DeleteStore, DeleteRecords
      <4> QED BY <4>1, <4>2, SMTT(30), Z3T(30) DEF DeleteAttachment, Volume
    <3> QED BY <3>1, Zenon DEF Retains
  <2> QED BY <1>4, <2>1, <2>2, Zenon DEF DeleteStep
<1>5. ASSUME NEW p \in RecProc, ReconcileStep(p) PROVE Retains
  <2>1. UNCHANGED vol
    BY <1>5, Zenon DEF ReconcileStep, ReconcileLoad, ReconcileObserve, ReconcileDelete, ReconcileCreate,
       ReconcileRestart, ReconcileStart, ReconcileStop, ReconcileRecheck, PendingStop, PendingStart,
       PendingDelete, PendingSave, Save
  <2> QED BY <1>0, <2>1, Zenon
<1>6. ASSUME NEW p \in GetProc, GetStep(p) PROVE Retains
  BY <1>0, <1>6, Zenon DEF GetStep, GetStatusWorkload, GetStatusObserve, GetStatusSave
<1>7. CASE Surroundings \/ Crash \/ PendingThresholdPasses \/ FailedTTLPasses \/ UNCHANGED vars
  <2>1. UNCHANGED vol
    BY <1>7, Zenon DEF Surroundings, BackoffElapses, Drift, Crash, PendingThresholdPasses, FailedTTLPasses, vars
  <2> QED BY <1>0, <2>1, Zenon
<1> QED BY <1>1, <1>2, <1>3, <1>4, <1>5, <1>6, <1>7, Zenon DEF Next, Step

\* With the operations at rest every volume is in order, and otherwise somebody has
\* the lock of the one workload.
LEMMA InOrder ==
  ASSUME TypeInv, LockInv, VolumeInv, Alone, Tidy
  PROVE  NoStrayVolume
<1> SUFFICES ASSUME crashes = 0, NEW v \in Vol
             PROVE  /\ vol[v].dir /\ vol[v].rec # "retain" => \E i \in WId : i \in vol[v].att \/ lock[i] # None
                    /\ \A i \in WId : i \in vol[v].stage => i \in vol[v].att \/ lock[i] # None
  BY Zenon DEF NoStrayVolume
<1>1. CASE Clean(vol[v])
  <2>1. vol[v].att \subseteq WId
    BY SMTT(30) DEF TypeInv, StoreTyped, Volume
  <2> QED BY <1>1, <2>1, SMTT(30), Z3T(30) DEF Clean
<1>2. CASE \E p \in OpProc : v \in Hand(proc[p].pc, proc[p].wl, proc[p].vols)
  <2>1. PICK p \in OpProc : v \in Hand(proc[p].pc, proc[p].wl, proc[p].vols)
    BY <1>2, ZenonT(40)
  <2>2. proc[p].pc # "idle"
    BY <2>1, SMTT(30) DEF Hand
  <2>3. proc[p].id \in WId /\ lock[proc[p].id] = p
    BY <2>2, Zenon DEF LockInv, Operation
  <2>4. p # None
    BY ProcAssumption, Zenon DEF Proc
  <2> QED BY <2>3, <2>4, ZenonT(40) DEF Alone
<1> QED BY <1>1, <1>2, Zenon DEF VolumeInv
=============================================================================
