------------------------- MODULE WorkloadStoreProofs --------------------------
(***************************************************************************)
(* What the manager keeps in step: the workloads and the statuses in the   *)
(* store, the resources in the runtimes and what an operation carries      *)
(* with it. Every step of the manager keeps the invariant of the store,    *)
(* given those of the types and of the lock.                               *)
(***************************************************************************)
EXTENDS WorkloadInvariants, TLAPS

\* The goroutine of an operation that stands at a label other than idle.
LEMMA Underway ==
  ASSUME LockInv, NEW p \in OpProc \cup RecProc, proc[p].pc # "idle"
  PROVE  /\ p \in Proc /\ proc[p].id \in WId /\ lock[proc[p].id] = p
         /\ Operation(p, proc[p], p, wl[proc[p].id])
BY ZenonT(40) DEF LockInv, Operation, Proc

\* A goroutine without an operation is idle.
LEMMA IdleStands == IdleProc.pc = "idle"
BY Zenon DEF IdleProc

\* A status made for a workload is one.
LEMMA FreshStatus ==
  ASSUME NEW w \in Workload, NEW a \in Actual
  PROVE  NewStatus(w, a) \in Status
BY DEF NewStatus, Status, Workload

\* The goroutine p is at l, with w, t and n in hand, and nobody else has moved.
Moved(p, l, w, t, n) ==
  /\ \A q \in Proc \ {p} : proc'[q] = proc[q]
  /\ proc'[p].id = proc[p].id
  /\ proc'[p].pc = l /\ proc'[p].wl = w /\ proc'[p].st = t /\ proc'[p].then = n

\* What the steps do to the goroutine.
LEMMA Moves ==
  ASSUME proc \in [Proc -> LocalState], NEW p \in Proc
  PROVE  /\ \A l : Goto(p, l) => Moved(p, l, proc[p].wl, proc[p].st, proc[p].then)
         /\ \A l, t : GotoWith(p, l, t) => Moved(p, l, proc[p].wl, t, proc[p].then)
         /\ \A l, n : proc' = [proc EXCEPT ![p].pc = l, ![p].then = n]
                        => Moved(p, l, proc[p].wl, proc[p].st, n)
         /\ \A w, l : proc' = [proc EXCEPT ![p].wl = w, ![p].pc = l]
                        => Moved(p, l, w, proc[p].st, proc[p].then)
         /\ \A w, l : proc' = [proc EXCEPT ![p].pc = l, ![p].wl = w]
                        => Moved(p, l, w, proc[p].st, proc[p].then)
         /\ \A w, l, t : proc' = [proc EXCEPT ![p].pc = l, ![p].st = t, ![p].wl = w]
                           => Moved(p, l, w, t, proc[p].then)
         /\ \A l, t, e : proc' = [proc EXCEPT ![p].pc = l, ![p].st = t, ![p].tr = e]
                           => Moved(p, l, proc[p].wl, t, proc[p].then)
         /\ \A l, vs : proc' = [proc EXCEPT ![p].vols = vs, ![p].pc = l]
                         => Moved(p, l, proc[p].wl, proc[p].st, proc[p].then)
         /\ \A w, l, vs : proc' = [proc EXCEPT ![p].vols = vs, ![p].wl = w, ![p].pc = l]
                            => Moved(p, l, w, proc[p].st, proc[p].then)
         /\ \A l, n, vs : proc' = [proc EXCEPT ![p].pc = l, ![p].vols = vs, ![p].then = n]
                            => Moved(p, l, proc[p].wl, proc[p].st, n)
<1>0. proc[p] = [f \in Fields |-> proc[p][f]] /\ proc = [q \in Proc |-> proc[q]]
  BY DEF LocalState, Fields
<1>1. ASSUME NEW l, Goto(p, l)
      PROVE  Moved(p, l, proc[p].wl, proc[p].st, proc[p].then)
  BY <1>0, <1>1, ZenonT(30) DEF Moved, Fields, Goto
<1>2. ASSUME NEW l, NEW t, GotoWith(p, l, t)
      PROVE  Moved(p, l, proc[p].wl, t, proc[p].then)
  BY <1>0, <1>2, ZenonT(30) DEF Moved, Fields, GotoWith
<1>3. ASSUME NEW l, NEW n, proc' = [proc EXCEPT ![p].pc = l, ![p].then = n]
      PROVE  Moved(p, l, proc[p].wl, proc[p].st, n)
  BY <1>0, <1>3, ZenonT(30) DEF Moved, Fields
<1>4. ASSUME NEW w, NEW l, proc' = [proc EXCEPT ![p].wl = w, ![p].pc = l]
      PROVE  Moved(p, l, w, proc[p].st, proc[p].then)
  BY <1>0, <1>4, ZenonT(30) DEF Moved, Fields
<1>5. ASSUME NEW w, NEW l, proc' = [proc EXCEPT ![p].pc = l, ![p].wl = w]
      PROVE  Moved(p, l, w, proc[p].st, proc[p].then)
  BY <1>0, <1>5, ZenonT(30) DEF Moved, Fields
<1>6. ASSUME NEW w, NEW l, NEW t, proc' = [proc EXCEPT ![p].pc = l, ![p].st = t, ![p].wl = w]
      PROVE  Moved(p, l, w, t, proc[p].then)
  BY <1>0, <1>6, ZenonT(30) DEF Moved, Fields
<1>7. ASSUME NEW l, NEW t, NEW e, proc' = [proc EXCEPT ![p].pc = l, ![p].st = t, ![p].tr = e]
      PROVE  Moved(p, l, proc[p].wl, t, proc[p].then)
  BY <1>0, <1>7, ZenonT(30) DEF Moved, Fields
<1>8. ASSUME NEW l, NEW vs, proc' = [proc EXCEPT ![p].vols = vs, ![p].pc = l]
      PROVE  Moved(p, l, proc[p].wl, proc[p].st, proc[p].then)
  BY <1>0, <1>8, ZenonT(30) DEF Moved, Fields
<1>9. ASSUME NEW w, NEW l, NEW vs, proc' = [proc EXCEPT ![p].vols = vs, ![p].wl = w, ![p].pc = l]
      PROVE  Moved(p, l, w, proc[p].st, proc[p].then)
  BY <1>0, <1>9, ZenonT(30) DEF Moved, Fields
<1>10. ASSUME NEW l, NEW n, NEW vs, proc' = [proc EXCEPT ![p].pc = l, ![p].vols = vs, ![p].then = n]
      PROVE  Moved(p, l, proc[p].wl, proc[p].st, n)
  BY <1>0, <1>10, ZenonT(30) DEF Moved, Fields
<1> QED BY <1>1, <1>2, <1>3, <1>4, <1>5, <1>6, <1>7, <1>8, <1>9, <1>10, Zenon

\* A step of p leaves the other goroutines and what they work on alone.
Apart(p, i) ==
  /\ \A q \in Proc \ {p} : proc'[q] = proc[q]
  /\ \A j \in WId \ {i} :
       /\ wl'[j] = wl[j] /\ st'[j] = st[j] /\ lock'[j] = lock[j]
       /\ \A ty \in WType : res'[ty][j] = res[ty][j]
  /\ crashes' = crashes

\* The invariant for the other goroutines and workloads follows from the lock.
LEMMA ApartStep ==
  ASSUME LockInv, StoreInv, NEW p \in OpProc \cup RecProc, proc[p].pc # "idle",
         NEW i \in WId, proc[p].id = i, Apart(p, i),
         proc'[p].pc # "idle" =>
           /\ proc'[p].id = i
           /\ Carries(proc'[p].pc, proc'[p].wl, proc'[p].st, wl'[i], st'[i], crashes)
           /\ \A ty \in WType : Vacated(proc'[p].pc, proc'[p].wl, proc'[p].then, res'[ty][i]),
         \A ty \in WType : Kept(wl'[i], st'[i], res'[ty][i]),
         Reliable /\ Replacing /\ crashes = 0 => Current(i)'
  PROVE  StoreInv'
<1>1. ASSUME NEW q \in OpProc \cup RecProc, proc'[q].pc # "idle" PROVE Carried(q)'
  <2>1. CASE q = p
    BY <1>1, <2>1, Zenon DEF Carried, Apart
  <2>2. CASE q # p
    <3>1. proc'[q] = proc[q] /\ q \in Proc
      BY <2>2, Zenon DEF Apart, Proc
    <3>2. proc[q].id \in WId /\ lock[proc[q].id] = q /\ lock[i] = p
      BY <1>1, <3>1, Underway, Zenon
    <3>3. proc[q].id # i
      BY <2>2, <3>2, Zenon
    <3>4. Carried(q)
      BY <1>1, <3>1, Zenon DEF StoreInv
    <3>5. /\ wl'[proc[q].id] = wl[proc[q].id] /\ st'[proc[q].id] = st[proc[q].id]
          /\ \A ty \in WType : res'[ty][proc[q].id] = res[ty][proc[q].id]
      BY <3>2, <3>3, Zenon DEF Apart
    <3>6. crashes' = crashes
      BY DEF Apart
    <3> QED BY <3>1, <3>4, <3>5, <3>6 DEF Carried
  <2> QED BY <2>1, <2>2
<1>2. ASSUME NEW j \in WId, NEW ty \in WType PROVE Kept(wl'[j], st'[j], res'[ty][j])
  BY Zenon DEF Apart, StoreInv
<1>3. ASSUME Reliable /\ Replacing /\ crashes' = 0, NEW j \in WId PROVE Current(j)'
  <2>1. CASE j = i
    BY <1>3, <2>1, Zenon DEF Apart
  <2>2. CASE j # i
    <3>1. Current(j)
      BY <1>3, Zenon DEF StoreInv, Apart
    <3>2. wl'[j] = wl[j] /\ st'[j] = st[j] /\ lock'[j] = lock[j]
      BY <2>2, Zenon DEF Apart
    <3>3. lock[j] \in OpProc /\ proc[lock[j]].id = j => proc'[lock[j]] = proc[lock[j]]
      BY <2>2, Zenon DEF Apart, Proc
    <3> QED BY <3>1, <3>2, <3>3, Zenon DEF Current
  <2> QED BY <2>1, <2>2
<1> QED BY <1>1, <1>2, <1>3, Zenon DEF StoreInv

\* A step of p that goes on, perhaps after a write of its own workload or status.
LEMMA RowStep ==
  ASSUME LockInv, StoreInv, NEW p \in OpProc \cup RecProc, proc[p].pc # "idle",
         NEW i \in WId, proc[p].id = i, UNCHANGED <<res, lock, crashes>>,
         \A j \in WId \ {i} : wl'[j] = wl[j] /\ st'[j] = st[j],
         NEW l, NEW w, NEW t, NEW n, Moved(p, l, w, t, n),
         Carries(l, w, t, wl'[i], st'[i], crashes),
         \A ty \in WType : Vacated(l, w, n, res[ty][i]),
         \A ty \in WType : Kept(wl'[i], st'[i], res[ty][i]),
         Reliable /\ Replacing /\ crashes = 0 /\ wl'[i] # None /\ st'[i] # None /\ st'[i].rev # wl'[i].rev
           => l = "apply_initial" /\ p \in OpProc
  PROVE  StoreInv'
<1>1. Apart(p, i)
  BY Zenon DEF Apart, Moved
<1>2. lock[i] = p
  BY Underway, Zenon
<1>3. Reliable /\ Replacing /\ crashes = 0 => Current(i)'
  BY <1>2, Zenon DEF Current, Moved
<1> QED BY <1>1, <1>3, ApartStep, ZenonT(30) DEF Moved

\* The status of the operation's workload is of the stored revision, except right
\* after an apply has saved another one.
LEMMA CurrentMine ==
  ASSUME LockInv, StoreInv, NEW p \in OpProc \cup RecProc, proc[p].pc \notin {"idle", "apply_initial"},
         Reliable, Replacing, crashes = 0, wl[proc[p].id] # None, st[proc[p].id] # None
  PROVE  st[proc[p].id].rev = wl[proc[p].id].rev
<1>1. lock[proc[p].id] = p /\ proc[p].id \in WId
  BY Underway, Zenon
<1> QED BY <1>1, ZenonT(40) DEF StoreInv, Current

\* A step of p that leaves the store and the runtime alone.
LEMMA QuietStep ==
  ASSUME LockInv, StoreInv, NEW p \in OpProc \cup RecProc, proc[p].pc \notin {"idle", "apply_initial"},
         NEW i, proc[p].id = i, UNCHANGED <<wl, st, res, lock, crashes>>,
         NEW l, NEW w, NEW t, NEW n, Moved(p, l, w, t, n),
         Carries(l, w, t, wl[i], st[i], crashes),
         \A ty \in WType : Vacated(l, w, n, res[ty][i])
  PROVE  StoreInv'
<1>1. i \in WId /\ proc[p].pc # "idle"
  BY Underway, Zenon
<1>2. \A ty \in WType : Kept(wl[i], st[i], res[ty][i])
  BY <1>1, Zenon DEF StoreInv
<1>3. Reliable /\ Replacing /\ crashes = 0 /\ wl[i] # None /\ st[i] # None => st[i].rev = wl[i].rev
  BY CurrentMine, Zenon
<1> QED BY <1>1, <1>2, <1>3, RowStep, ZenonT(30)

\* A step of p that returns, perhaps after a write.
LEMMA LeavingStep ==
  ASSUME TypeInv, LockInv, StoreInv, NEW p \in OpProc \cup RecProc, proc[p].pc # "idle",
         NEW i, proc[p].id = i, UNCHANGED <<res, crashes>>, Return(p),
         \A j \in WId \ {i} : wl'[j] = wl[j] /\ st'[j] = st[j],
         \A ty \in WType : Kept(wl'[i], st'[i], res[ty][i]),
         Reliable /\ Replacing /\ crashes = 0 /\ wl'[i] # None /\ st'[i] # None => st'[i].rev = wl'[i].rev
  PROVE  StoreInv'
<1>1. i \in WId /\ p \in Proc
  BY Underway, Zenon
<1>2. /\ \A j \in WId \ {i} : lock'[j] = lock[j]
      /\ \A q \in Proc \ {p} : proc'[q] = proc[q]
      /\ proc'[p].pc = "idle"
  BY <1>1, IdleStands, Zenon DEF Return, TypeInv, StoreTyped, ProcTyped
<1>3. Apart(p, i)
  BY <1>2, Zenon DEF Apart
<1>4. Reliable /\ Replacing /\ crashes = 0 => Current(i)'
  BY Zenon DEF Current
<1> QED BY <1>1, <1>2, <1>3, <1>4, ApartStep, ZenonT(30)

\* A step of p that calls the runtime and goes on.  What it leaves there is of the
\* revision that was there, or of the stored one.
LEMMA RuntimeStep ==
  ASSUME TypeInv, LockInv, StoreInv, NEW p \in OpProc \cup RecProc,
         proc[p].pc \notin {"idle", "apply_admit", "apply_initial"},
         NEW i, proc[p].id = i, UNCHANGED <<wl, st, lock, crashes>>, NEW y, SetMine(p, y),
         y # None => (Mine(p) # None /\ y.rev = Mine(p).rev) \/ (wl[i] # None /\ y.rev = wl[i].rev),
         NEW l, NEW t, NEW n, Moved(p, l, proc[p].wl, t, n),
         Carries(l, proc[p].wl, t, wl[i], st[i], crashes), Vacated(l, proc[p].wl, n, y)
  PROVE  StoreInv'
<1> DEFINE tp == proc[p].wl.type
<1>1. i \in WId /\ lock[i] = p /\ proc[p].pc # "idle" /\ tp \in WType
  BY Underway, Zenon DEF Operation, Workload
<1>2. res' = [res EXCEPT ![tp][i] = y] /\ Mine(p) = res[tp][i]
  BY Zenon DEF SetMine, Mine
<1> HIDE DEF tp
<1>3. /\ res'[tp][i] = y
      /\ \A ty \in WType : ty # tp => res'[ty][i] = res[ty][i]
      /\ \A ty \in WType : \A j \in WId \ {i} : res'[ty][j] = res[ty][j]
  BY <1>1, <1>2, SMT DEF TypeInv, StoreTyped
<1>4. Apart(p, i)
  BY <1>1, <1>3, Zenon DEF Apart, Moved
<1>5. ASSUME NEW ty \in WType
      PROVE  Vacated(l, proc[p].wl, n, res'[ty][i]) /\ Kept(wl[i], st[i], res'[ty][i])
  <2>1. Kept(wl[i], st[i], res[ty][i]) /\ Kept(wl[i], st[i], res[tp][i])
    BY <1>1, Zenon DEF StoreInv
  <2>2. CASE ty = tp
    BY <1>2, <1>3, <2>1, <2>2 DEF Kept
  <2>3. CASE ty # tp
    <3>1. ~SafeDelete
      BY <1>1, <2>3, Zenon DEF SafeDelete
    <3> QED BY <1>3, <2>1, <2>3, <3>1, Zenon DEF Vacated, Replacing
  <2> QED BY <2>2, <2>3
<1>6. Reliable /\ Replacing /\ crashes = 0 => Current(i)'
  BY <1>1, CurrentMine, Zenon DEF Current
<1> QED BY <1>1, <1>4, <1>5, <1>6, ApartStep, ZenonT(30) DEF Moved

\* What the calls of a runtime do to the revision of a resource.
LEMMA OutcomeRevisions ==
  ASSUME NEW r \in Resource \cup {None}
  PROVE  /\ \A w \in Workload : \A o \in CreateOutcomes(r, w) :
              o.res # None => o.res.rev = w.rev \/ (r # None /\ o.res.rev = r.rev)
         /\ \A o \in StartOutcomes(r) \cup StopOutcomes(r) \cup DeleteOutcomes(r) :
              o.res # None => r # None /\ o.res.rev = r.rev
         /\ "delete" \notin RuntimeFaults => \A o \in DeleteOutcomes(r) : o.res = None
         /\ r # None => \A y \in DriftOutcomes(r) : y # None => y.rev = r.rev
<1>1. \A w \in Workload : \A o \in CreateOutcomes(r, w) :
        o.res # None => o.res.rev = w.rev \/ (r # None /\ o.res.rev = r.rev)
  BY DEF CreateOutcomes, ensureContainerReadyForCreate, pullImageWithRetry, Faulty, Outcome
<1>2. ASSUME r # None, NEW s PROVE [r EXCEPT !.state = s].rev = r.rev
  BY <1>2 DEF Resource
<1>3. r # None => \A h \in Halted(r) : h.rev = r.rev
  BY <1>2, ZenonT(40) DEF Halted
<1>4. \A o \in StartOutcomes(r) : o.res # None => r # None /\ o.res.rev = r.rev
  <2> SUFFICES ASSUME NEW o \in StartOutcomes(r), o.res # None PROVE r # None /\ o.res.rev = r.rev
    OBVIOUS
  <2>1. r # None
    BY DEF StartOutcomes, Outcome
  <2>2. o.res \in {r, [r EXCEPT !.state = "Running"], [r EXCEPT !.state = "Failed"]}
    BY <2>1 DEF StartOutcomes, Faulty, Outcome
  <2> QED BY <1>2, <2>1, <2>2, ZenonT(40)
<1>5. \A o \in StopOutcomes(r) : o.res # None => r # None /\ o.res.rev = r.rev
  BY <1>3 DEF StopOutcomes, Faulty, Outcome
<1>6. \A o \in DeleteOutcomes(r) : o.res # None => r # None /\ o.res.rev = r.rev
  BY <1>3 DEF DeleteOutcomes, Faulty, Outcome
<1>7. "delete" \notin RuntimeFaults => \A o \in DeleteOutcomes(r) : o.res = None
  BY DEF DeleteOutcomes, Faulty, Outcome
<1>8. r # None => \A y \in DriftOutcomes(r) : y # None => y.rev = r.rev
  BY <1>2, Zenon DEF DriftOutcomes
<1> QED BY <1>1, <1>4, <1>5, <1>6, <1>7, <1>8, Zenon

\* An operation at a, where it agrees with the store, may go on at l.
Continues(a, l, w, s) ==
  /\ a \in AgreePC
  /\ l \notin {"apply_status", "apply_admit", "apply_reject", "rec_observe"}
  /\ l \in StartPC => a \in StartPC \/ w.desired = "Running"
  /\ l \in RetryPC => a \in RetryPC \/ (GetProc = {} => ~s.terminal)

\* It then still does, with the status t or one of its workload's revision.
LEMMA Onward ==
  ASSUME NEW a, NEW l, NEW w, NEW t, NEW u, NEW x, NEW s, NEW c, Carries(a, w, t, x, s, c),
         Continues(a, l, w, s),
         l \in CarryPC => u.rev = w.rev \/ (a \in CarryPC /\ u.rev = t.rev)
  PROVE  Carries(l, w, u, x, s, c)
<1>1. x # None /\ x.type = w.type /\ x.rev = w.rev /\ x.desired = w.desired
  BY Zenon DEF Carries, Continues
<1>2. l \in StartPC => w.desired = "Running"
  BY Zenon DEF Carries, Continues
<1>3. GetProc = {} /\ l \in RetryPC => ~s.terminal
  BY Zenon DEF Carries, Continues
<1>4. Reliable /\ Replacing /\ c = 0 /\ l \in CarryPC => u.rev = x.rev
  BY <1>1, Zenon DEF Carries
<1> QED BY <1>1, <1>2, <1>3, <1>4, Zenon DEF Carries, Continues

\* The operation p, and what the invariants say of it.
LEMMA Standing ==
  ASSUME TypeInv, LockInv, StoreInv, NEW p \in OpProc \cup RecProc, proc[p].pc # "idle"
  PROVE  /\ proc[p].id \in WId /\ p \in Proc /\ proc \in [Proc -> LocalState]
         /\ Carries(proc[p].pc, proc[p].wl, proc[p].st, wl[proc[p].id], st[proc[p].id], crashes)
         /\ \A ty \in WType : Vacated(proc[p].pc, proc[p].wl, proc[p].then, res[ty][proc[p].id])
         /\ \A ty \in WType : Kept(wl[proc[p].id], st[proc[p].id], res[ty][proc[p].id])
         /\ proc[p].pc # "apply_admit" =>
              proc[p].wl \in Workload /\ proc[p].wl.type \in WType /\ Mine(p) \in Resource \cup {None}
         /\ proc[p].pc \in CarryPC => proc[p].st \in Status
<1>1. proc[p].id \in WId /\ p \in Proc /\ proc \in [Proc -> LocalState] /\ Held(proc[p])
  BY Underway, Zenon DEF TypeInv, ProcTyped
<1>2. Carried(p)
  BY Zenon DEF StoreInv
<1>3. proc[p].pc # "apply_admit" => proc[p].wl \in Workload /\ proc[p].wl.type \in WType
  BY Underway, Zenon DEF Operation, Workload
<1>4. proc[p].pc \in CarryPC => proc[p].st \in Status
  BY <1>1, ZenonT(30) DEF Held, CarryPC, StatusPC
<1>5. proc[p].pc # "apply_admit" => Mine(p) \in Resource \cup {None}
  BY <1>1, <1>3, Zenon DEF Mine, TypeInv, StoreTyped
<1>6. \A ty \in WType : Kept(wl[proc[p].id], st[proc[p].id], res[ty][proc[p].id])
  BY <1>1, Zenon DEF StoreInv
<1> QED BY <1>1, <1>2, <1>3, <1>4, <1>5, <1>6, Zenon DEF Carried

\* The steps of an apply or a delete that call the runtime.
LEMMA RuntimeApply ==
  ASSUME TypeInv, LockInv, StoreInv, NEW p \in OpProc,
         \/ ApplyDeleteOld(p) \/ ApplyCreate(p) \/ ApplyStart(p) \/ DeleteRuntime(p)
         \/ TransStart(p) \/ TransStop(p)
  PROVE  StoreInv'
<1> DEFINE i == proc[p].id
           w == proc[p].wl
           a == proc[p].pc
<1>1. /\ a \in {"apply_delete_old", "apply_create", "apply_start", "delete_runtime", "trans_start", "trans_stop"}
      /\ UNCHANGED <<wl, st, lock, crashes>>
  BY Zenon DEF ApplyDeleteOld, ApplyCreate, ApplyStart, DeleteRuntime, TransStart, TransStop, At
<1>2. a \notin {"idle", "apply_admit", "apply_initial"}
  BY <1>1
<1>3. /\ i \in WId /\ p \in Proc /\ proc \in [Proc -> LocalState] /\ w \in Workload
      /\ Mine(p) \in Resource \cup {None}
      /\ Carries(a, w, proc[p].st, wl[i], st[i], crashes)
  BY <1>2, Standing, Zenon
<1>4. a # "apply_delete_old" => a \in AgreePC /\ wl[i] # None /\ wl[i].rev = w.rev
  BY <1>1, <1>3, ZenonT(30) DEF Carries, AgreePC
<1>5. ASSUME ApplyDeleteOld(p) \/ DeleteRuntime(p) PROVE StoreInv'
  <2>1. PICK o \in DeleteOutcomes(Mine(p)) : SetMine(p, o.res)
    BY <1>5, Zenon DEF ApplyDeleteOld, DeleteRuntime
  <2>2. PICK l \in {"apply_save", "delete_list"} : Goto(p, l) /\ (l = "delete_list" => a = "delete_runtime")
    BY <1>5, Zenon DEF ApplyDeleteOld, DeleteRuntime, At
  <2>3. Moved(p, l, w, proc[p].st, proc[p].then)
    BY <1>3, <2>2, Moves, Zenon
  <2>4. o.res # None => Mine(p) # None /\ o.res.rev = Mine(p).rev
    BY <1>3, OutcomeRevisions, Zenon
  <2>5. SafeDelete => o.res = None
    BY <1>3, OutcomeRevisions, Zenon DEF SafeDelete
  <2>6. Vacated(l, w, proc[p].then, o.res)
    BY <2>2, <2>5 DEF Vacated, FreePC, Replacing
  <2>7. Carries(l, w, proc[p].st, wl[i], st[i], crashes)
    <3>1. CASE l = "apply_save"
      BY <3>1 DEF Carries, AgreePC, StartPC, RetryPC, CarryPC
    <3>2. CASE l = "delete_list"
      <4>1. a = "delete_runtime" /\ Continues(a, l, w, st[i]) /\ l \notin CarryPC
        BY <2>2, <3>2 DEF Continues, AgreePC, StartPC, RetryPC, CarryPC
      <4> QED BY <1>3, <4>1, Onward, Zenon
    <3> QED BY <2>2, <3>1, <3>2
  <2> QED BY <1>1, <1>2, <2>1, <2>3, <2>4, <2>6, <2>7, RuntimeStep, ZenonT(30)
<1>6. ASSUME NEW y, SetMine(p, y), a # "apply_delete_old",
             y # None => y.rev = w.rev \/ (Mine(p) # None /\ y.rev = Mine(p).rev),
             NEW l \in {"fail_read", "free_detach", "apply_start", "apply_final", "trans_recheck", "save"},
             NEW t, NEW n, Moved(p, l, w, t, n),
             l = "free_detach" => n = "fail_read", l = "apply_start" => w.desired = "Running",
             l \in {"trans_recheck", "save"} => a \in CarryPC /\ t.rev = proc[p].st.rev
      PROVE  StoreInv'
  <2>1. Continues(a, l, w, st[i]) /\ (l \in CarryPC => l \in {"trans_recheck", "save"})
    BY <1>4, <1>6 DEF Continues, StartPC, RetryPC, CarryPC
  <2>2. Carries(l, w, t, wl[i], st[i], crashes)
    BY <1>3, <1>6, <2>1, Onward, ZenonT(40)
  <2>3. Vacated(l, w, n, y)
    BY <1>6 DEF Vacated, FreePC
  <2> QED BY <1>1, <1>2, <1>4, <1>6, <2>2, <2>3, RuntimeStep, ZenonT(30)
<1>7. ASSUME FreeAndGoto(p, "fail_read")
      PROVE  \E l \in {"fail_read", "free_detach"} : Moved(p, l, w, proc[p].st, "fail_read")
  BY <1>3, <1>7, Moves, Zenon DEF FreeAndGoto
<1>8. CASE ApplyCreate(p)
  <2>1. PICK o \in CreateOutcomes(Mine(p), w) :
          /\ SetMine(p, o.res)
          /\ \/ FreeAndGoto(p, "fail_read")
             \/ w.desired = "Running" /\ Goto(p, "apply_start")
             \/ Goto(p, "apply_final")
    BY <1>8 DEF ApplyCreate
  <2>2. o.res # None => o.res.rev = w.rev \/ (Mine(p) # None /\ o.res.rev = Mine(p).rev)
    BY <1>3, OutcomeRevisions, Zenon
  <2>3. \E l \in {"fail_read", "free_detach", "apply_start", "apply_final"} : \E n :
          /\ Moved(p, l, w, proc[p].st, n) /\ (l = "free_detach" => n = "fail_read")
          /\ (l = "apply_start" => w.desired = "Running")
    BY <1>3, <1>7, <2>1, Moves, Zenon
  <2>4. a # "apply_delete_old"
    BY <1>8 DEF ApplyCreate, At
  <2> QED BY <1>6, <2>1, <2>2, <2>3, <2>4, Zenon
<1>9. CASE ApplyStart(p)
  <2>1. PICK o \in StartOutcomes(Mine(p)) :
          SetMine(p, o.res) /\ (Goto(p, "apply_final") \/ FreeAndGoto(p, "fail_read"))
    BY <1>9, Zenon DEF ApplyStart
  <2>2. o.res # None => Mine(p) # None /\ o.res.rev = Mine(p).rev
    BY <1>3, OutcomeRevisions, Zenon
  <2>3. \E l \in {"fail_read", "free_detach", "apply_final"} : \E n :
          Moved(p, l, w, proc[p].st, n) /\ (l = "free_detach" => n = "fail_read")
    BY <1>3, <1>7, <2>1, Moves, Zenon
  <2>4. a # "apply_delete_old"
    BY <1>9 DEF ApplyStart, At
  <2> QED BY <1>6, <2>1, <2>2, <2>3, <2>4, Zenon
<1>10. CASE TransStart(p) \/ TransStop(p)
  <2>1. a \in {"trans_start", "trans_stop"} /\ a \in CarryPC
    BY <1>10 DEF TransStart, TransStop, At, CarryPC
  <2>2. PICK o \in StartOutcomes(Mine(p)) \cup StopOutcomes(Mine(p)) :
          /\ SetMine(p, o.res)
          /\ \/ Goto(p, "trans_recheck") \/ Goto(p, "fail_read")
             \/ GotoWith(p, "save", [proc[p].st EXCEPT !.actual = "Failed"])
    BY <1>10, Zenon DEF TransStart, TransStop
  <2>3. o.res # None => Mine(p) # None /\ o.res.rev = Mine(p).rev
    BY <1>3, OutcomeRevisions, Zenon
  <2>4. [proc[p].st EXCEPT !.actual = "Failed"].rev = proc[p].st.rev
    BY <1>2, <2>1, Standing DEF Status
  <2>5. \E l \in {"trans_recheck", "fail_read", "save"} : \E t, n :
          Moved(p, l, w, t, n) /\ t.rev = proc[p].st.rev
    BY <1>3, <2>2, <2>4, Moves, Zenon
  <2> QED BY <1>6, <2>1, <2>2, <2>3, <2>5, Zenon
<1> QED BY <1>5, <1>8, <1>9, <1>10, Zenon

\* A status keeps its revision through the changes of an operation.
LEMMA RevisionKept ==
  ASSUME NEW s \in Status
  PROVE  /\ \A a : [s EXCEPT !.actual = a].rev = s.rev
         /\ \A b : [s EXCEPT !.terminal = b].rev = s.rev
         /\ \A a, b : [s EXCEPT !.actual = a, !.terminal = b].rev = s.rev
         /\ \A a : [s EXCEPT !.pendingSince = a].rev = s.rev
         /\ \A a : [s EXCEPT !.age = a].rev = s.rev /\ [s EXCEPT !.age = a].terminal = s.terminal
         /\ \A a : [s EXCEPT !.actual = a].terminal = s.terminal
BY DEF Status

\* The steps of a reconcile that call the runtime.
LEMMA RuntimeReconcile ==
  ASSUME TypeInv, LockInv, StoreInv, NEW p \in RecProc,
         \/ ReconcileDelete(p) \/ ReconcileCreate(p) \/ ReconcileRestart(p) \/ ReconcileStart(p)
         \/ ReconcileStop(p) \/ PendingStop(p) \/ PendingStart(p) \/ PendingDelete(p)
  PROVE  StoreInv'
<1> DEFINE i == proc[p].id
           w == proc[p].wl
           a == proc[p].pc
           s == proc[p].st
<1>1. /\ a \in {"rec_delete", "rec_create", "rec_restart", "rec_start", "rec_stop",
                "pend_stop", "pend_start", "pend_delete"}
      /\ UNCHANGED <<wl, st, lock, crashes>>
  BY Zenon DEF ReconcileDelete, ReconcileCreate, ReconcileRestart, ReconcileStart, ReconcileStop,
       PendingStop, PendingStart, PendingDelete, At
<1>2. a \notin {"idle", "apply_admit", "apply_initial"} /\ a \in AgreePC /\ a \in CarryPC
  BY <1>1 DEF AgreePC, CarryPC
<1>3. /\ i \in WId /\ p \in Proc /\ proc \in [Proc -> LocalState] /\ w \in Workload /\ s \in Status
      /\ Mine(p) \in Resource \cup {None}
      /\ Carries(a, w, s, wl[i], st[i], crashes)
  BY <1>2, Standing, Zenon
<1>4. wl[i] # None /\ wl[i].rev = w.rev
  BY <1>2, <1>3, Zenon DEF Carries
<1>5. ASSUME NEW y, SetMine(p, y),
             y # None => y.rev = w.rev \/ (Mine(p) # None /\ y.rev = Mine(p).rev),
             NEW l \in {"rec_create", "rec_restart", "rec_recheck", "save", "pend_start", "pend_delete", "pend_save"},
             NEW t, NEW n, Moved(p, l, w, t, n), t.rev = s.rev,
             l = "rec_create" => a = "rec_delete", l = "rec_restart" => a = "rec_create",
             l = "pend_start" => a = "pend_stop"
      PROVE  StoreInv'
  <2>1. Continues(a, l, w, st[i])
    BY <1>2, <1>5 DEF Continues, StartPC, RetryPC
  <2>2. Carries(l, w, t, wl[i], st[i], crashes)
    <3>1. l \in CarryPC => t.rev = w.rev \/ (a \in CarryPC /\ t.rev = s.rev)
      BY <1>2, <1>5, Zenon
    <3> HIDE DEF i, w, a, s
    <3> QED BY <1>3, <2>1, <3>1, Onward, ZenonT(30)
  <2>3. Vacated(l, w, n, y)
    BY <1>5 DEF Vacated, FreePC
  <2> QED BY <1>1, <1>2, <1>4, <1>5, <2>2, <2>3, RuntimeStep, ZenonT(30)
<1>6. ASSUME NEW o \in StartOutcomes(Mine(p)) \cup StopOutcomes(Mine(p)) \cup DeleteOutcomes(Mine(p)), o.res # None
      PROVE  Mine(p) # None /\ o.res.rev = Mine(p).rev
  BY <1>3, <1>6, OutcomeRevisions, Zenon
<1>7. CASE ReconcileDelete(p)
  BY <1>3, <1>5, <1>6, <1>7, Moves, ZenonT(40) DEF ReconcileDelete, At
<1>8. CASE ReconcileCreate(p)
  <2>1. PICK o \in CreateOutcomes(Mine(p), w) :
          /\ SetMine(p, o.res) /\ a = "rec_create"
          /\ \E l \in {"rec_restart", "rec_recheck"} : GotoWith(p, l, [s EXCEPT !.actual = "Failed"])
    BY <1>8, Zenon DEF ReconcileCreate, At
  <2>2. o.res # None => o.res.rev = w.rev \/ (Mine(p) # None /\ o.res.rev = Mine(p).rev)
    BY <1>3, OutcomeRevisions, Zenon
  <2>3. [s EXCEPT !.actual = "Failed"].rev = s.rev
    BY <1>3, RevisionKept, Zenon
  <2>4. \E l \in {"rec_restart", "rec_recheck"} : \E t, n : Moved(p, l, w, t, n) /\ t.rev = s.rev
    BY <1>3, <2>1, <2>3, Moves, Zenon
  <2> QED BY <1>5, <2>1, <2>2, <2>4, Zenon
<1>9. CASE ReconcileRestart(p) \/ ReconcileStop(p)
  <2>1. PICK o \in StartOutcomes(Mine(p)) \cup StopOutcomes(Mine(p)) :
          /\ SetMine(p, o.res)
          /\ \E t \in {s, [s EXCEPT !.actual = "Failed"], [s EXCEPT !.actual = "Running"]} : GotoWith(p, "rec_recheck", t)
    BY <1>9, Zenon DEF ReconcileRestart, ReconcileStop
  <2>2. [s EXCEPT !.actual = "Failed"].rev = s.rev /\ [s EXCEPT !.actual = "Running"].rev = s.rev
    BY <1>3, RevisionKept, Zenon
  <2>3. \E t, n : Moved(p, "rec_recheck", w, t, n) /\ t.rev = s.rev
    BY <1>3, <2>1, <2>2, Moves, Zenon
  <2> QED BY <1>5, <1>6, <2>1, <2>3, Zenon
<1>10. CASE ReconcileStart(p)
  <2>1. PICK o \in StartOutcomes(Mine(p)) :
          /\ SetMine(p, o.res)
          /\ \/ GotoWith(p, "rec_recheck", [s EXCEPT !.terminal = FALSE])
             \/ \E b : GotoWith(p, "save", [s EXCEPT !.actual = "Failed", !.terminal = b])
    BY <1>10, Zenon DEF ReconcileStart
  <2>2. [s EXCEPT !.terminal = FALSE].rev = s.rev /\ \A b : [s EXCEPT !.actual = "Failed", !.terminal = b].rev = s.rev
    BY <1>3, RevisionKept, ZenonT(40)
  <2>3. \E l \in {"rec_recheck", "save"} : \E t, n : Moved(p, l, w, t, n) /\ t.rev = s.rev
    BY <1>3, <2>1, <2>2, Moves, Zenon
  <2> QED BY <1>5, <1>6, <2>1, <2>3, Zenon
<1>11. CASE PendingStop(p) \/ PendingStart(p) \/ PendingDelete(p)
  <2>1. PICK o \in StartOutcomes(Mine(p)) \cup StopOutcomes(Mine(p)) \cup DeleteOutcomes(Mine(p)) :
          /\ SetMine(p, o.res)
          /\ \/ a = "pend_stop" /\ Goto(p, "pend_start")
             \/ Goto(p, "pend_delete")
             \/ GotoWith(p, "save", [s EXCEPT !.pendingSince = "recent"])
             \/ GotoWith(p, "pend_save", [s EXCEPT !.actual = "Failed"])
    BY <1>11, Zenon DEF PendingStop, PendingStart, PendingDelete, At
  <2>2. [s EXCEPT !.pendingSince = "recent"].rev = s.rev /\ [s EXCEPT !.actual = "Failed"].rev = s.rev
    BY <1>3, RevisionKept, Zenon
  <2>3. \E l \in {"pend_start", "pend_delete", "save", "pend_save"} : \E t, n :
          Moved(p, l, w, t, n) /\ t.rev = s.rev /\ (l = "pend_start" => a = "pend_stop")
    BY <1>3, <2>1, <2>2, Moves, Zenon
  <2> QED BY <1>5, <1>6, <2>1, <2>3, Zenon
<1> QED BY <1>7, <1>8, <1>9, <1>10, <1>11, Zenon

\* A step that leaves the store and the runtime alone, for the workload that is stored.
LEMMA QuietOnward ==
  ASSUME TypeInv, LockInv, StoreInv, NEW p \in OpProc \cup RecProc, proc[p].pc \notin {"idle", "apply_initial"},
         UNCHANGED <<wl, st, res, lock, crashes>>,
         NEW l, NEW t, NEW n, Moved(p, l, proc[p].wl, t, n),
         Continues(proc[p].pc, l, proc[p].wl, st[proc[p].id]),
         l \in CarryPC => t.rev = proc[p].wl.rev \/ (proc[p].pc \in CarryPC /\ t.rev = proc[p].st.rev),
         \A ty \in WType : Vacated(l, proc[p].wl, n, res[ty][proc[p].id])
  PROVE  StoreInv'
<1>1. Carries(proc[p].pc, proc[p].wl, proc[p].st, wl[proc[p].id], st[proc[p].id], crashes)
  BY Standing, Zenon
<1>2. Carries(l, proc[p].wl, t, wl[proc[p].id], st[proc[p].id], crashes)
  BY <1>1, Onward, Zenon
<1> QED BY <1>2, QuietStep, ZenonT(30)

\* Labels at which nothing has to be gone from the runtime.
LEMMA NothingVacated ==
  ASSUME NEW l, l \notin FreePC \cup {"delete_list", "delete_store", "apply_save"}, NEW w, NEW n, NEW m
  PROVE  Vacated(l, w, n, m)
BY Zenon DEF Vacated

\* The status queries, the failed write and the volume steps of an apply; the last
\* query of a reconcile.
LEMMA QuietApply ==
  ASSUME TypeInv, LockInv, StoreInv, NEW p \in OpProc \cup RecProc,
         \/ ApplyFinal(p) \/ TransStatus(p) \/ TransRecheck(p) \/ ReconcileRecheck(p)
         \/ VolumeProvision(p) \/ VolumeRecord(p) \/ VolumeAttach(p)
  PROVE  StoreInv'
<1> DEFINE a == proc[p].pc
           w == proc[p].wl
           s == proc[p].st
<1>1. /\ a \in {"apply_final", "trans_status", "trans_recheck", "rec_recheck", "vol_provision", "vol_record", "vol_attach"}
      /\ UNCHANGED <<wl, st, res, lock, crashes>>
  BY Zenon DEF ApplyFinal, TransStatus, TransRecheck, ReconcileRecheck, VolumeProvision, VolumeRecord, VolumeAttach, At
<1>2. a \notin {"idle", "apply_initial", "apply_admit"} /\ a \in AgreePC
  BY <1>1 DEF AgreePC
<1>3. /\ p \in Proc /\ proc \in [Proc -> LocalState] /\ w \in Workload
      /\ a \in CarryPC => s \in Status
  BY <1>2, Standing, Zenon
<1>4. ASSUME NEW l \in {"commit", "save", "trans_start", "trans_stop", "trans_recheck",
                        "vol_record", "vol_attach", "vol_attachment", "vol_fail"},
             NEW t, NEW n, Moved(p, l, w, t, n), l = "trans_start" => w.desired = "Running",
             l \in CarryPC => t.rev = w.rev \/ (a \in CarryPC /\ t.rev = s.rev)
      PROVE  StoreInv'
  <2>1. Continues(a, l, w, st[proc[p].id])
    BY <1>2, <1>4 DEF Continues, StartPC, RetryPC
  <2>2. \A ty \in WType : Vacated(l, w, n, res[ty][proc[p].id])
    <3>1. l \notin FreePC \cup {"delete_list", "delete_store", "apply_save"}
      BY <1>4 DEF FreePC
    <3> QED BY <3>1, NothingVacated, Zenon
  <2> HIDE DEF a, w, s
  <2>3. proc[p].pc \notin {"idle", "apply_initial"}
    BY <1>2 DEF a
  <2>4. /\ a = proc[p].pc /\ w = proc[p].wl /\ s = proc[p].st
    BY DEF a, w, s
  <2> QED BY <1>1, <1>4, <2>1, <2>2, <2>3, <2>4, QuietOnward, ZenonT(30)
<1>5. CASE ApplyFinal(p)
  <2>1. PICK b : GotoWith(p, "commit", NewStatus(w, b))
    BY <1>5, Zenon DEF ApplyFinal
  <2>2. NewStatus(w, b).rev = w.rev
    BY DEF NewStatus
  <2>3. \E n : Moved(p, "commit", w, NewStatus(w, b), n)
    BY <1>3, <2>1, Moves, Zenon
  <2> QED BY <1>4, <2>2, <2>3, Zenon
<1>6. CASE TransStatus(p)
  <2> DEFINE u == [s EXCEPT !.rev = w.rev, !.desired = w.desired]
  <2>1. \E l \in {"save", "trans_start", "trans_stop", "trans_recheck"} :
          /\ l = "trans_start" => w.desired = "Running"
          /\ \E t \in {u, [u EXCEPT !.actual = "Failed"]} : GotoWith(p, l, t)
    <3>1. PICK b \in StatusOutcomes(Mine(p)) :
            IF b = "error" THEN GotoWith(p, "save", [u EXCEPT !.actual = "Failed"])
            ELSE GotoWith(p,
                      CASE w.desired = "Running" /\ normalizeStateForDesired(w.desired, b) # "Running" -> "trans_start"
                        [] w.desired = "Stopped" /\ normalizeStateForDesired(w.desired, b) \in {"Running", "Pending"} -> "trans_stop"
                        [] OTHER -> "trans_recheck", u)
      BY <1>6, Zenon DEF TransStatus
    <3>2. w.desired # "Stopped" \/ w.desired # "Running"
      OBVIOUS
    <3> HIDE DEF u, w
    <3> QED BY <3>1, <3>2
  <2>2. s \in Status
    BY <1>1, <1>3, <1>6 DEF TransStatus, At, CarryPC
  <2>3. u.rev = w.rev /\ [u EXCEPT !.actual = "Failed"].rev = w.rev
    BY <2>2 DEF Status
  <2>4. \E l \in {"save", "trans_start", "trans_stop", "trans_recheck"} : \E t, n :
          (l = "trans_start" => w.desired = "Running") /\ Moved(p, l, w, t, n) /\ t.rev = w.rev
    <3> HIDE DEF u
    <3> QED BY <1>3, <2>1, <2>3, Moves, Zenon
  <2> QED BY <1>4, <2>4, Zenon
<1>7. CASE TransRecheck(p) \/ ReconcileRecheck(p)
  <2>1. a \in CarryPC
    BY <1>7 DEF TransRecheck, ReconcileRecheck, At, CarryPC
  <2>2. \E b, c : \E l \in {"commit", "save"} :
          \E t \in {s, [s EXCEPT !.actual = b], [[s EXCEPT !.actual = c] EXCEPT !.terminal = FALSE]} : GotoWith(p, l, t)
    BY <1>7, Zenon DEF TransRecheck, ReconcileRecheck, ClearedIfStopped
  <2>3. \A b : [s EXCEPT !.actual = b].rev = s.rev /\ [[s EXCEPT !.actual = b] EXCEPT !.terminal = FALSE].rev = s.rev
    BY <1>3, <2>1 DEF Status
  <2>4. \E l \in {"commit", "save"} : \E t, n : Moved(p, l, w, t, n) /\ t.rev = s.rev
    BY <1>3, <2>2, <2>3, Moves, Zenon
  <2> QED BY <1>4, <2>1, <2>4, Zenon
<1>8. CASE VolumeProvision(p) \/ VolumeRecord(p) \/ VolumeAttach(p)
  <2>1. \E l \in {"vol_record", "vol_attach", "vol_attachment", "vol_fail"} : Goto(p, l)
    BY <1>8, Zenon DEF VolumeProvision, VolumeRecord, VolumeAttach, VolumeCall
  <2>2. \E l \in {"vol_record", "vol_attach", "vol_attachment", "vol_fail"} : \E t, n : l \notin CarryPC /\ Moved(p, l, w, t, n)
    BY <1>3, <2>1, Moves, ZenonT(40) DEF CarryPC
  <2> QED BY <1>4, <2>2, Zenon
<1> QED BY <1>5, <1>6, <1>7, <1>8, Zenon

\* The last steps of an apply that go on with what they find in the store, and the
\* attachment of a volume.
LEMMA QuietFailures ==
  ASSUME TypeInv, LockInv, StoreInv, NEW p \in OpProc, FailRead(p) \/ VolumeFail(p) \/ VolumeAttachment(p)
  PROVE  StoreInv'
<1> DEFINE i == proc[p].id
           a == proc[p].pc
           w == proc[p].wl
<1>1. a \in {"fail_read", "vol_fail", "vol_attachment"} /\ UNCHANGED <<wl, st, res, lock, crashes>>
  BY Zenon DEF FailRead, VolumeFail, VolumeAttachment, At
<1>2. a \notin {"idle", "apply_initial", "apply_admit"}
  BY <1>1
<1>3. /\ p \in Proc /\ proc \in [Proc -> LocalState] /\ w \in Workload /\ i \in WId
      /\ Carries(a, w, proc[p].st, wl[i], st[i], crashes)
  BY <1>2, Standing, Zenon
<1>4. ASSUME NEW l \in {"save", "vol_provision", "vol_save"}, NEW u, NEW t, NEW n, Moved(p, l, u, t, n),
             Carries(l, u, t, wl[i], st[i], crashes)
      PROVE  StoreInv'
  <2>1. \A ty \in WType : Vacated(l, u, n, res[ty][i])
    <3>1. l \notin FreePC \cup {"delete_list", "delete_store", "apply_save"}
      BY <1>4 DEF FreePC
    <3> QED BY <3>1, NothingVacated, Zenon
  <2> QED BY <1>1, <1>2, <1>4, <2>1, QuietStep, ZenonT(30)
<1>5. ASSUME NEW t, Reliable => wl[i] # None, Reliable /\ Replacing /\ crashes = 0 => t.rev = wl[i].rev
      PROVE  Carries("save", w, t, wl[i], st[i], crashes)
  BY <1>5 DEF Carries, AgreePC, StartPC, RetryPC
<1>6. NewStatus(w, "Failed") \in Status
  BY <1>3, FreshStatus DEF Actual, ResourceState
<1>7. st[i] \in Status \cup {None}
  BY <1>3, Zenon DEF TypeInv, StoreTyped
<1>8. CASE FailRead(p)
  <2> DEFINE s == IF st[i] = None THEN NewStatus(w, "Failed") ELSE st[i]
             t == [s EXCEPT !.rev = w.rev, !.desired = w.desired, !.actual = "Failed"]
  <2>1. GotoWith(p, "save", t) /\ a = "fail_read"
    BY <1>8, Zenon DEF FailRead, StoredStatus, At
  <2>2. s \in Status
    BY <1>3, <1>6, <1>7, Zenon
  <2>3. t.rev = w.rev
    <3> HIDE DEF s
    <3> QED BY <2>2 DEF Status
  <2> HIDE DEF t
  <2>4. Carries("save", w, t, wl[i], st[i], crashes)
    <3>1. Reliable => wl[i] # None
      BY <1>3, <2>1, Zenon DEF Carries
    <3>2. Reliable /\ Replacing /\ crashes = 0 => t.rev = wl[i].rev
      BY <1>3, <2>1, <2>3, Zenon DEF Carries
    <3> QED BY <1>5, <3>1, <3>2, Zenon
  <2>5. \E n : Moved(p, "save", w, t, n)
    BY <1>3, <2>1, Moves, Zenon
  <2> QED BY <1>4, <2>4, <2>5, Zenon
<1>9. CASE VolumeFail(p)
  <2> DEFINE s == IF st[i] = None THEN NewStatus(w, "Failed") ELSE st[i]
             t == [s EXCEPT !.actual = "Failed"]
  <2>1. GotoWith(p, "save", t) /\ a = "vol_fail"
    BY <1>9, Zenon DEF VolumeFail, StoredStatus, At
  <2>2. s \in Status
    BY <1>3, <1>6, <1>7, Zenon
  <2>3. t.rev = s.rev
    <3> HIDE DEF s
    <3> QED BY <2>2 DEF Status
  <2>4. wl[i] # None /\ wl[i].rev = w.rev
    BY <1>3, <2>1, Zenon DEF Carries, AgreePC
  <2>5. Reliable /\ Replacing /\ crashes = 0 => s.rev = wl[i].rev
    <3>1. CASE st[i] = None
      BY <2>4, <3>1 DEF NewStatus
    <3>2. CASE st[i] # None
      BY <1>2, <2>4, <3>2, CurrentMine, Zenon
    <3> QED BY <3>1, <3>2
  <2> HIDE DEF t, s
  <2>6. Carries("save", w, t, wl[i], st[i], crashes)
    BY <1>5, <2>3, <2>4, <2>5, Zenon
  <2>7. \E n : Moved(p, "save", w, t, n)
    BY <1>3, <2>1, Moves, Zenon
  <2> QED BY <1>4, <2>6, <2>7, Zenon
<1>10. CASE VolumeAttachment(p)
  <2>1. PICK l \in {"vol_save", "vol_provision"} : \E vs, b :
          proc' = [proc EXCEPT ![p].vols = vs, ![p].wl = [@ EXCEPT !.bound = b], ![p].pc = l]
    BY <1>10, Zenon DEF VolumeAttachment
  <2>2. PICK b, n : Moved(p, l, [w EXCEPT !.bound = b], proc[p].st, n)
    BY <1>3, <2>1, Moves, ZenonT(40)
  <2> DEFINE u == [w EXCEPT !.bound = b]
  <2>3. u.type = w.type /\ u.rev = w.rev /\ u.desired = w.desired
    BY <1>3 DEF Workload
  <2>4. wl[i] # None /\ wl[i].type = w.type /\ wl[i].rev = w.rev /\ wl[i].desired = w.desired
    <3>1. a \in AgreePC
      BY <1>10 DEF VolumeAttachment, At, AgreePC
    <3> QED BY <1>3, <3>1, Zenon DEF Carries
  <2> HIDE DEF u
  <2>5. Carries(l, u, proc[p].st, wl[i], st[i], crashes)
    BY <2>1, <2>3, <2>4 DEF Carries, AgreePC, StartPC, RetryPC, CarryPC
  <2>6. Moved(p, l, u, proc[p].st, n)
    BY <2>2 DEF u
  <2> QED BY <1>4, <2>1, <2>5, <2>6, ZenonT(40)
<1> QED BY <1>8, <1>9, <1>10, Zenon

\* What a reconcile makes of the state it observes.
LEMMA ObservedSteps ==
  ASSUME NEW p, ReconcileObserve(p)
  PROVE  \E l \in {"save", "rec_stop", "pend_stop", "rec_delete", "rec_start"} : \E t :
           /\ GotoWith(p, l, t) \/ \E e : proc' = [proc EXCEPT ![p].pc = l, ![p].st = t, ![p].tr = e]
           /\ l \in {"pend_stop", "rec_delete", "rec_start"} => proc[p].wl.desired = "Running"
           /\ l \in {"rec_delete", "rec_start"} => ~[proc[p].st EXCEPT !.actual = "Failed"].terminal \/ ~[proc[p].st EXCEPT !.actual = "Stopped"].terminal
           /\ \E a : t \in {[proc[p].st EXCEPT !.actual = a], [proc[p].st EXCEPT !.actual = a, !.terminal = FALSE],
                            [[proc[p].st EXCEPT !.actual = a] EXCEPT !.terminal = TRUE],
                            [[proc[p].st EXCEPT !.actual = a] EXCEPT !.actual = "Failed"],
                            [[proc[p].st EXCEPT !.actual = a] EXCEPT !.pendingSince = "recent"]}
<1> DEFINE s == proc[p].st
           Good(l, t) ==
             /\ GotoWith(p, l, t) \/ \E e : proc' = [proc EXCEPT ![p].pc = l, ![p].st = t, ![p].tr = e]
             /\ l \in {"pend_stop", "rec_delete", "rec_start"} => proc[p].wl.desired = "Running"
             /\ l \in {"rec_delete", "rec_start"} => ~[s EXCEPT !.actual = "Failed"].terminal \/ ~[s EXCEPT !.actual = "Stopped"].terminal
             /\ \E a : t \in {[s EXCEPT !.actual = a], [s EXCEPT !.actual = a, !.terminal = FALSE],
                            [[s EXCEPT !.actual = a] EXCEPT !.terminal = TRUE],
                            [[s EXCEPT !.actual = a] EXCEPT !.actual = "Failed"],
                            [[s EXCEPT !.actual = a] EXCEPT !.pendingSince = "recent"]}
           Labels == {"save", "rec_stop", "pend_stop", "rec_delete", "rec_start"}
<1> SUFFICES \E l \in Labels : \E t : Good(l, t)
  BY Zenon
<1>0. \A l : l \in {"save", "rec_stop"} => l \notin {"pend_stop", "rec_delete", "rec_start"}
  OBVIOUS
<1>1. PICK a : \/ GotoWith(p, "save", [s EXCEPT !.actual = a])
               \/ ReconcileStopped(p, a)
               \/ /\ proc[p].wl.desired = "Running"
                  /\ \/ ReconcilePending(p) \/ ReconcileMissing(p) \/ ReconcileFailed(p) \/ ReconcileNotRunning(p)
                     \/ GotoWith(p, "save", [s EXCEPT !.actual = a])
  BY Zenon DEF ReconcileObserve
<1>2. ASSUME NEW b, GotoWith(p, "save", [s EXCEPT !.actual = b]) PROVE Good("save", [s EXCEPT !.actual = b])
  BY <1>0, <1>2, Zenon
<1>3. CASE ReconcileStopped(p, a)
  <2>1. \E l \in {"save", "rec_stop"} : GotoWith(p, l, [s EXCEPT !.actual = a, !.terminal = FALSE])
    BY <1>3, Zenon DEF ReconcileStopped
  <2>2. \E l \in {"save", "rec_stop"} : Good(l, [s EXCEPT !.actual = a, !.terminal = FALSE])
    BY <1>0, <2>1, Zenon
  <2>3. "save" \in Labels /\ "rec_stop" \in Labels
    OBVIOUS
  <2> HIDE DEF Good, Labels
  <2> QED BY <2>2, <2>3, Zenon
<1>4. CASE proc[p].wl.desired = "Running" /\ ReconcilePending(p)
  <2> DEFINE u == [s EXCEPT !.actual = "Pending"]
  <2>1. GotoWith(p, "save", [u EXCEPT !.pendingSince = "recent"]) \/ GotoWith(p, "save", u) \/ GotoWith(p, "pend_stop", u)
    <3>1. CASE u.pendingSince = "none"
      BY <1>4, <3>1 DEF ReconcilePending
    <3>2. CASE u.pendingSince = "recent"
      BY <1>4, <3>2 DEF ReconcilePending
    <3>3. CASE u.pendingSince \notin {"none", "recent"}
      BY <1>4, <3>3 DEF ReconcilePending
    <3> QED BY <3>1, <3>2, <3>3
  <2>2. CASE GotoWith(p, "save", [u EXCEPT !.pendingSince = "recent"])
    BY <1>0, <2>2, Zenon
  <2>3. CASE GotoWith(p, "save", u)
    BY <1>2, <2>3, Zenon
  <2>4. CASE GotoWith(p, "pend_stop", u)
    <3>1. "pend_stop" \notin {"rec_delete", "rec_start"}
      OBVIOUS
    <3> QED BY <1>4, <2>4, <3>1, Zenon
  <2> QED BY <2>1, <2>2, <2>3, <2>4, Zenon
<1>5. ASSUME proc[p].wl.desired = "Running", Readmit(p, [s EXCEPT !.actual = "Failed"]), ~[s EXCEPT !.actual = "Failed"].terminal
      PROVE  \E l \in Labels : \E t : Good(l, t)
  <2>1. GotoWith(p, "rec_delete", [s EXCEPT !.actual = "Failed"]) \/ GotoWith(p, "save", [s EXCEPT !.actual = "Failed"])
    BY <1>5, Zenon DEF Readmit
  <2>2. CASE GotoWith(p, "rec_delete", [s EXCEPT !.actual = "Failed"])
    BY <1>5, <2>2, Zenon
  <2> QED BY <1>2, <2>1, <2>2, Zenon
<1>6. CASE proc[p].wl.desired = "Running" /\ ReconcileMissing(p)
  BY <1>2, <1>5, <1>6, Zenon DEF ReconcileMissing
<1>7. CASE proc[p].wl.desired = "Running" /\ ReconcileFailed(p)
  <2> DEFINE u == [s EXCEPT !.actual = "Failed"]
  <2>1. \/ GotoWith(p, "save", u) \/ GotoWith(p, "save", [u EXCEPT !.terminal = TRUE])
        \/ ~u.terminal /\ Readmit(p, u)
    <3>1. CASE ~u.terminal /\ \E reason \in Reason :
              LET r == RecordFailure(getRetryTracker(proc[p].id), reason)
              IN  CASE ~r.retryable -> GotoWith(p, "save", [u EXCEPT !.terminal = TRUE])
                    [] r.retryable /\ ~CanRetryNow(r.tracker) -> GotoWith(p, "save", u)
                    [] OTHER -> Readmit(p, u)
      <4> HIDE DEF u
      <4>1. PICK reason \in Reason :
              LET r == RecordFailure(getRetryTracker(proc[p].id), reason)
              IN  CASE ~r.retryable -> GotoWith(p, "save", [u EXCEPT !.terminal = TRUE])
                    [] r.retryable /\ ~CanRetryNow(r.tracker) -> GotoWith(p, "save", u)
                    [] OTHER -> Readmit(p, u)
        BY <3>1, Zenon
      <4> QED BY <3>1, <4>1
    <3> QED BY <1>7, <3>1, Zenon DEF ReconcileFailed
  <2>2. CASE GotoWith(p, "save", [u EXCEPT !.terminal = TRUE])
    BY <1>0, <2>2, Zenon
  <2> QED BY <1>2, <1>5, <1>7, <2>1, <2>2, Zenon
<1>8. CASE proc[p].wl.desired = "Running" /\ ReconcileNotRunning(p)
  <2> DEFINE u == [s EXCEPT !.actual = "Stopped"]
             t == getRetryTracker(proc[p].id)
  <2>1. \/ GotoWith(p, "save", [u EXCEPT !.actual = "Failed"]) \/ GotoWith(p, "save", u)
        \/ ~u.terminal /\ proc' = [proc EXCEPT ![p].pc = "rec_start", ![p].st = u, ![p].tr = t]
    <3>1. (CASE u.terminal -> GotoWith(p, "save", [u EXCEPT !.actual = "Failed"])
            [] ~u.terminal /\ BackingOff(t) -> GotoWith(p, "save", u)
            [] OTHER -> proc' = [proc EXCEPT ![p].pc = "rec_start", ![p].st = u, ![p].tr = t])
      BY <1>8, Zenon DEF ReconcileNotRunning
    <3> HIDE DEF u, t
    <3> QED BY <3>1
  <2>2. CASE GotoWith(p, "save", [u EXCEPT !.actual = "Failed"])
    BY <1>0, <2>2, Zenon
  <2>3. CASE ~u.terminal /\ proc' = [proc EXCEPT ![p].pc = "rec_start", ![p].st = u, ![p].tr = t]
    BY <1>8, <2>3, Zenon
  <2> QED BY <1>2, <2>1, <2>2, <2>3, Zenon
<1> QED BY <1>1, <1>2, <1>3, <1>4, <1>6, <1>7, <1>8, Zenon

\* The first steps of a reconcile.
LEMMA QuietReconcile ==
  ASSUME TypeInv, LockInv, StoreInv, NEW p \in RecProc, ReconcileLoad(p) \/ ReconcileObserve(p)
  PROVE  StoreInv'
<1> DEFINE i == proc[p].id
           a == proc[p].pc
           w == proc[p].wl
           s == proc[p].st
<1>1. a \in {"rec_load", "rec_observe"} /\ UNCHANGED <<wl, st, res, crashes>>
  BY Zenon DEF ReconcileLoad, ReconcileObserve, At
<1>2. a \notin {"idle", "apply_initial", "apply_admit"} /\ a \in AgreePC
  BY <1>1 DEF AgreePC
<1>3. /\ p \in Proc /\ proc \in [Proc -> LocalState] /\ w \in Workload /\ i \in WId
      /\ Carries(a, w, s, wl[i], st[i], crashes)
      /\ a \in CarryPC => s \in Status
  BY <1>2, Standing, Zenon
<1>4. wl[i] # None /\ wl[i].type = w.type /\ wl[i].rev = w.rev /\ wl[i].desired = w.desired
  BY <1>2, <1>3, Zenon DEF Carries
<1>5. Reliable /\ Replacing /\ crashes = 0 /\ st[i] # None => st[i].rev = wl[i].rev
  BY <1>2, <1>4, CurrentMine, Zenon
<1>6. CASE ReconcileLoad(p) /\ Return(p)
  <2>1. \A ty \in WType : Kept(wl[i], st[i], res[ty][i])
    BY <1>3, Zenon DEF StoreInv
  <2> QED BY <1>1, <1>2, <1>5, <1>6, <2>1, LeavingStep, ZenonT(30)
<1>7. CASE ReconcileLoad(p) /\ ~Return(p)
  <2>1. GotoWith(p, "rec_observe", st[i]) /\ UNCHANGED lock /\ st[i] # None
    BY <1>7, Zenon DEF ReconcileLoad, StoredStatus
  <2>2. PICK n : Moved(p, "rec_observe", w, st[i], n)
    BY <1>3, <2>1, Moves, Zenon
  <2>3. Carries("rec_observe", w, st[i], wl[i], st[i], crashes)
    <3>1. "rec_observe" \notin {"apply_status", "apply_admit", "fail_read", "save", "apply_reject"} \cup StartPC \cup RetryPC
      BY DEF StartPC, RetryPC
    <3> QED BY <1>4, <1>5, <2>1, <3>1, Zenon DEF Carries
  <2>4. \A ty \in WType : Vacated("rec_observe", w, n, res[ty][i])
    <3>1. "rec_observe" \notin FreePC \cup {"delete_list", "delete_store", "apply_save"}
      BY DEF FreePC
    <3> QED BY <3>1, NothingVacated, Zenon
  <2> QED BY <1>1, <1>2, <2>1, <2>2, <2>3, <2>4, QuietStep, ZenonT(30)
<1>8. CASE ReconcileObserve(p)
  <2>1. a = "rec_observe" /\ a \in CarryPC /\ s \in Status /\ UNCHANGED lock
    BY <1>3, <1>8 DEF ReconcileObserve, At, CarryPC
  <2>2. PICK l \in {"save", "rec_stop", "pend_stop", "rec_delete", "rec_start"} : \E t, n :
          /\ Moved(p, l, w, t, n) /\ t.rev = s.rev
          /\ l \in {"pend_stop", "rec_delete", "rec_start"} => w.desired = "Running"
          /\ l \in {"rec_delete", "rec_start"} => ~s.terminal
    <3>1. PICK l \in {"save", "rec_stop", "pend_stop", "rec_delete", "rec_start"} : \E t :
           /\ GotoWith(p, l, t) \/ \E e : proc' = [proc EXCEPT ![p].pc = l, ![p].st = t, ![p].tr = e]
           /\ l \in {"pend_stop", "rec_delete", "rec_start"} => w.desired = "Running"
           /\ l \in {"rec_delete", "rec_start"} => ~[s EXCEPT !.actual = "Failed"].terminal \/ ~[s EXCEPT !.actual = "Stopped"].terminal
           /\ \E b : t \in {[s EXCEPT !.actual = b], [s EXCEPT !.actual = b, !.terminal = FALSE],
                            [[s EXCEPT !.actual = b] EXCEPT !.terminal = TRUE],
                            [[s EXCEPT !.actual = b] EXCEPT !.actual = "Failed"],
                            [[s EXCEPT !.actual = b] EXCEPT !.pendingSince = "recent"]}
      BY <1>8, ObservedSteps, Zenon
    <3>2. PICK t :
           /\ GotoWith(p, l, t) \/ \E e : proc' = [proc EXCEPT ![p].pc = l, ![p].st = t, ![p].tr = e]
           /\ \E b : t \in {[s EXCEPT !.actual = b], [s EXCEPT !.actual = b, !.terminal = FALSE],
                            [[s EXCEPT !.actual = b] EXCEPT !.terminal = TRUE],
                            [[s EXCEPT !.actual = b] EXCEPT !.actual = "Failed"],
                            [[s EXCEPT !.actual = b] EXCEPT !.pendingSince = "recent"]}
      BY <3>1, Zenon
    <3>3. t.rev = s.rev
      <4>1. \A b : /\ [s EXCEPT !.actual = b].rev = s.rev
                   /\ [s EXCEPT !.actual = b, !.terminal = FALSE].rev = s.rev
                   /\ [[s EXCEPT !.actual = b] EXCEPT !.terminal = TRUE].rev = s.rev
                   /\ [[s EXCEPT !.actual = b] EXCEPT !.actual = "Failed"].rev = s.rev
                   /\ [[s EXCEPT !.actual = b] EXCEPT !.pendingSince = "recent"].rev = s.rev
        BY <2>1 DEF Status
      <4> QED BY <3>2, <4>1, Zenon
    <3>4. l \in {"rec_delete", "rec_start"} => ~s.terminal
      <4>1. [s EXCEPT !.actual = "Failed"].terminal = s.terminal /\ [s EXCEPT !.actual = "Stopped"].terminal = s.terminal
        BY <2>1, RevisionKept, Zenon
      <4>2. l \in {"rec_delete", "rec_start"} => ~[s EXCEPT !.actual = "Failed"].terminal \/ ~[s EXCEPT !.actual = "Stopped"].terminal
        BY <3>1, Zenon
      <4> QED BY <4>1, <4>2, Zenon
    <3>5. \E n : Moved(p, l, w, t, n)
      BY <1>3, <3>2, Moves, Zenon
    <3> QED BY <3>1, <3>3, <3>4, <3>5, Zenon
  <2>3. PICK t, n : Moved(p, l, w, t, n) /\ t.rev = s.rev
    BY <2>2, Zenon
  <2>4. Continues(a, l, w, st[i])
    <3>1. GetProc = {} => s = st[i]
      BY <1>3, <2>1, Zenon DEF Carries
    <3>2. l \in StartPC => w.desired = "Running"
      BY <2>2 DEF StartPC
    <3>3. l \in RetryPC => ~s.terminal
      BY <2>2 DEF RetryPC
    <3>4. l \notin {"apply_status", "apply_admit", "apply_reject", "rec_observe"}
      BY <2>2
    <3> QED BY <1>2, <3>1, <3>2, <3>3, <3>4, Zenon DEF Continues
  <2>5. \A ty \in WType : Vacated(l, w, n, res[ty][i])
    <3>1. l \notin FreePC \cup {"delete_list", "delete_store", "apply_save"}
      BY <2>2 DEF FreePC
    <3> QED BY <3>1, NothingVacated, Zenon
  <2>6. l \in CarryPC => t.rev = proc[p].wl.rev \/ (proc[p].pc \in CarryPC /\ t.rev = proc[p].st.rev)
    BY <2>1, <2>3, Zenon
  <2>7. UNCHANGED <<wl, st, res, lock, crashes>>
    BY <1>1, <2>1, Zenon
  <2> QED BY <1>2, <2>3, <2>4, <2>5, <2>6, <2>7, QuietOnward, ZenonT(30)
<1> QED BY <1>6, <1>7, <1>8, Zenon

\* An operation returns and writes nothing.
LEMMA QuietReturn ==
  ASSUME TypeInv, LockInv, StoreInv, NEW p \in OpProc \cup RecProc, proc[p].pc \notin {"idle", "apply_initial"},
         UNCHANGED <<wl, st, res, crashes>>, Return(p)
  PROVE  StoreInv'
<1>1. \A ty \in WType : Kept(wl[proc[p].id], st[proc[p].id], res[ty][proc[p].id])
  BY Standing, Zenon
<1>2. Reliable /\ Replacing /\ crashes = 0 /\ wl[proc[p].id] # None /\ st[proc[p].id] # None
        => st[proc[p].id].rev = wl[proc[p].id].rev
  BY CurrentMine, Zenon
<1> QED BY <1>1, <1>2, LeavingStep, ZenonT(30)

\* The steps that free volumes, and the listing before them.
LEMMA QuietFree ==
  ASSUME TypeInv, LockInv, StoreInv, NEW p \in OpProc,
         FreeDetach(p) \/ FreeAttachment(p) \/ FreeLookup(p) \/ FreeDelete(p) \/ FreeRecord(p) \/ DeleteList(p)
  PROVE  StoreInv'
<1> DEFINE i == proc[p].id
           a == proc[p].pc
           w == proc[p].wl
           n == proc[p].then
<1>1. a \in FreePC \cup {"delete_list"} /\ UNCHANGED <<wl, st, res, crashes>>
  BY ZenonT(30) DEF FreeDetach, FreeAttachment, FreeLookup, FreeDelete, FreeRecord, DeleteList, At, FreePC
<1>2. a \notin {"idle", "apply_initial"} /\ a \in AgreePC
  BY <1>1 DEF AgreePC, FreePC
<1>3. /\ p \in Proc /\ proc \in [Proc -> LocalState] /\ i \in WId
      /\ \A ty \in WType : Vacated(a, w, n, res[ty][i])
  BY <1>2, Standing, Zenon
<1>4. a \in FreePC => n \in {"fail_read", "delete_store", "idle"}
  BY <1>2, Underway, Zenon DEF Operation
<1>5. ASSUME NEW l \in FreePC \cup {"fail_read", "delete_store"}, NEW m, Moved(p, l, w, proc[p].st, m), UNCHANGED lock,
             m = "delete_store" => n = "delete_store" \/ a = "delete_list", l = "delete_store" => m = "delete_store"
      PROVE  StoreInv'
  <2>1. Continues(a, l, w, st[i])
    BY <1>2, <1>5 DEF Continues, StartPC, RetryPC, FreePC
  <2>2. l \notin CarryPC \cup {"delete_list", "apply_save"}
    BY <1>5 DEF CarryPC, FreePC
  <2>3. \A ty \in WType : Vacated(l, w, m, res[ty][i])
    BY <1>1, <1>3, <1>5, <2>2, Zenon DEF Vacated
  <2> QED BY <1>1, <1>2, <1>5, <2>1, <2>2, <2>3, QuietOnward, ZenonT(30)
<1>6. ASSUME FreeNext(p), a \in FreePC PROVE StoreInv'
  <2>1. CASE Return(p)
    BY <1>1, <1>2, <2>1, QuietReturn, Zenon
  <2>2. CASE ~Return(p)
    <3>1. PICK vs : /\ \E l \in {n, "free_detach"} : proc' = [proc EXCEPT ![p].vols = vs, ![p].pc = l]
                    /\ ~(vs = <<>> /\ n = "idle") /\ UNCHANGED lock
                    /\ vs # <<>> => proc' = [proc EXCEPT ![p].vols = vs, ![p].pc = "free_detach"]
      BY <1>6, <2>2, Zenon DEF FreeNext
    <3>2. \E l \in {"fail_read", "delete_store", "free_detach"} :
            proc' = [proc EXCEPT ![p].vols = vs, ![p].pc = l] /\ (l = "delete_store" => n = "delete_store")
      BY <1>4, <1>6, <3>1, ZenonT(30)
    <3>3. \E l \in {"fail_read", "delete_store", "free_detach"} :
            Moved(p, l, w, proc[p].st, n) /\ (l = "delete_store" => n = "delete_store")
      BY <1>3, <3>2, Moves, Zenon
    <3>4. "free_detach" \in FreePC
      BY DEF FreePC
    <3> QED BY <1>5, <3>1, <3>3, <3>4, Zenon
  <2> QED BY <2>1, <2>2
<1>7. ASSUME NEW l \in FreePC, Goto(p, l), UNCHANGED lock PROVE StoreInv'
  <2>1. Moved(p, l, w, proc[p].st, n)
    BY <1>3, <1>7, Moves, Zenon
  <2>2. l # "delete_store"
    BY <1>7 DEF FreePC
  <2> QED BY <1>5, <1>7, <2>1, <2>2, Zenon
<1>8. CASE DeleteList(p)
  <2>1. a = "delete_list" /\ UNCHANGED lock /\ \E l \in {"delete_store", "free_detach"} : \E vs :
          proc' = [proc EXCEPT ![p].pc = l, ![p].vols = vs, ![p].then = "delete_store"]
    BY <1>8, Zenon DEF DeleteList, At
  <2>2. \E l \in {"delete_store", "free_detach"} : Moved(p, l, w, proc[p].st, "delete_store")
    BY <1>3, <2>1, Moves, Zenon
  <2>3. "free_detach" \in FreePC
    BY DEF FreePC
  <2> QED BY <1>5, <2>1, <2>2, <2>3, Zenon
<1>9. CASE FreeDetach(p) \/ FreeAttachment(p) \/ FreeLookup(p) \/ FreeDelete(p) \/ FreeRecord(p)
  <2>1. a \in FreePC
    BY <1>9, ZenonT(30) DEF FreeDetach, FreeAttachment, FreeLookup, FreeDelete, FreeRecord, At, FreePC
  <2>2. FreeNext(p) \/ (UNCHANGED lock /\ \E l \in {"free_attachment", "free_lookup", "free_delete", "free_record"} : Goto(p, l))
    <3>1. CASE FreeAttachment(p)
      BY <3>1 DEF FreeAttachment
    <3> QED BY <1>9, <3>1, ZenonT(30) DEF FreeDetach, FreeLookup, FreeDelete, FreeRecord
  <2>3. {"free_attachment", "free_lookup", "free_delete", "free_record"} \subseteq FreePC
    BY DEF FreePC
  <2> QED BY <1>6, <1>7, <2>1, <2>2, <2>3, Zenon
<1> QED BY <1>8, <1>9, Zenon

\* The first two steps of an apply, which only read.
LEMMA QuietDecide ==
  ASSUME TypeInv, LockInv, StoreInv, NEW p \in OpProc, ApplyStatus(p) \/ ApplyAdmit(p)
  PROVE  StoreInv'
<1> DEFINE i == proc[p].id
           a == proc[p].pc
           w == proc[p].wl
           q == proc[p].req
<1>1. a \in {"apply_status", "apply_admit"} /\ UNCHANGED <<wl, st, res, crashes>>
  BY Zenon DEF ApplyStatus, ApplyAdmit, At
<1>2. a \notin {"idle", "apply_initial"}
  BY <1>1
<1>3. /\ p \in Proc /\ proc \in [Proc -> LocalState] /\ i \in WId
      /\ \A ty \in WType : Kept(wl[i], st[i], res[ty][i])
      /\ w = wl[i]
  BY <1>1, <1>2, Standing, Zenon DEF Carries
<1>4. ASSUME NEW l \in {"trans_save", "apply_admit", "apply_delete_old", "apply_save", "apply_reject"}, NEW u, NEW t, NEW n,
             Moved(p, l, u, t, n), UNCHANGED lock, Carries(l, u, t, wl[i], st[i], crashes),
             l = "apply_save" => wl[i] = None \/ wl[i].rev = u.rev
      PROVE  StoreInv'
  <2>1. l \notin FreePC \cup {"delete_list", "delete_store"}
    BY <1>4 DEF FreePC
  <2>2. \A ty \in WType : Vacated(l, u, n, res[ty][i])
    BY <1>3, <1>4, <2>1, Zenon DEF Vacated, Kept, Replacing
  <2>3. UNCHANGED <<wl, st, res, lock, crashes>>
    BY <1>1, <1>4, Zenon
  <2> QED BY <1>2, <1>4, <2>2, <2>3, QuietStep, ZenonT(30)
<1>5. CASE Return(p)
  BY <1>1, <1>2, <1>5, QuietReturn, Zenon
<1>6. CASE ApplyStatus(p) /\ ~Return(p)
  <2> DEFINE s == IF st[i] = None THEN NewStatus(w, "Missing") ELSE st[i]
             u == [w EXCEPT !.desired = q.desired]
  <2>1. /\ a = "apply_status" /\ UNCHANGED lock
        /\ proc' = [proc EXCEPT ![p].pc = "trans_save", ![p].st = s, ![p].wl = u] \/ Goto(p, "apply_admit")
    BY <1>6, Zenon DEF ApplyStatus, StoredStatus, At
  <2>2. CASE Goto(p, "apply_admit")
    <3>1. Carries("apply_admit", w, proc[p].st, wl[i], st[i], crashes)
      BY <1>3 DEF Carries, AgreePC, StartPC, RetryPC, CarryPC
    <3>2. \E n : Moved(p, "apply_admit", w, proc[p].st, n)
      BY <1>3, <2>2, Moves, Zenon
    <3> QED BY <1>4, <2>1, <3>1, <3>2, Zenon
  <2>3. CASE proc' = [proc EXCEPT ![p].pc = "trans_save", ![p].st = s, ![p].wl = u]
    <3>1. w \in Workload /\ wl[i] # None
      BY <1>2, <1>3, <2>1, Standing, ProcAssumption, Zenon
    <3>2. u.type = w.type /\ u.rev = w.rev
      BY <3>1, SMTT(30) DEF Workload
    <3>3. Reliable /\ Replacing /\ crashes = 0 => s.rev = wl[i].rev
      <4>1. CASE st[i] = None
        BY <1>3, <4>1 DEF NewStatus
      <4>2. CASE st[i] # None
        BY <1>2, <3>1, <4>2, CurrentMine, Zenon
      <4> QED BY <4>1, <4>2, SMTT(30)
    <3> HIDE DEF s, u
    <3>4. Carries("trans_save", u, s, wl[i], st[i], crashes)
      BY <1>3, <3>1, <3>2, <3>3 DEF Carries, AgreePC, StartPC, RetryPC
    <3>5. \E n : Moved(p, "trans_save", u, s, n)
      BY <1>3, <2>3, Moves, Zenon
    <3> QED BY <1>4, <2>1, <3>4, <3>5, Zenon
  <2> QED BY <2>1, <2>2, <2>3, Zenon
<1>7. CASE ApplyAdmit(p) /\ ~Return(p)
  <2>1. UNCHANGED lock /\ \E answer \in Admission \ {"error"} :
          proc' = [proc EXCEPT ![p].wl = q,
                     ![p].pc = IF answer = "ok" THEN IF w # None /\ w.rev # q.rev THEN "apply_delete_old" ELSE "apply_save"
                               ELSE "apply_reject"]
    BY <1>7, Zenon DEF ApplyAdmit, IsResourceAvailable
  <2>2. \E l \in {"apply_delete_old", "apply_save", "apply_reject"} :
          /\ proc' = [proc EXCEPT ![p].wl = q, ![p].pc = l]
          /\ Replacing => l # "apply_reject"
          /\ l = "apply_save" => w = None \/ w.rev = q.rev
    <3>1. Replacing => \A answer \in Admission \ {"error"} : answer = "ok"
      BY ConfigAssumption, Zenon DEF Replacing
    <3> QED BY <2>1, <3>1, ZenonT(30)
  <2>3. PICK l \in {"apply_delete_old", "apply_save", "apply_reject"} : \E n :
          /\ Moved(p, l, q, proc[p].st, n)
          /\ Replacing => l # "apply_reject"
          /\ l = "apply_save" => w = None \/ w.rev = q.rev
    BY <1>3, <2>2, Moves, Zenon
  <2>4. Carries(l, q, proc[p].st, wl[i], st[i], crashes)
    BY <2>3 DEF Carries, AgreePC, StartPC, RetryPC, CarryPC
  <2>5. l = "apply_save" => wl[i] = None \/ wl[i].rev = q.rev
    BY <1>3, <2>3, Zenon
  <2>6. PICK n : Moved(p, l, q, proc[p].st, n)
    BY <2>3, Zenon
  <2>7. l \in {"trans_save", "apply_admit", "apply_delete_old", "apply_save", "apply_reject"}
    OBVIOUS
  <2> HIDE DEF q, i
  <2> QED BY <1>4, <2>1, <2>4, <2>5, <2>6, <2>7, Zenon
<1> QED BY <1>5, <1>6, <1>7, Zenon

\* The saves: what is written, and what a failure leaves.
LEMMA SavedWorkload ==
  ASSUME TypeInv, NEW i \in WId, NEW x, NEW ok \in Write, SaveWorkload(i, x, ok)
  PROVE  /\ \A j \in WId \ {i} : wl'[j] = wl[j]
         /\ ok => wl'[i] = x
         /\ ~ok => wl' = wl
         /\ Reliable => ok
BY ZenonT(40) DEF SaveWorkload, TypeInv, StoreTyped, Reliable, Write

\* A write of a status that succeeds stores its revision, one that fails nothing.
LEMMA SavedStatus ==
  ASSUME TypeInv, NEW i \in WId, NEW s \in Status, NEW ok \in Write, SaveStatus(i, s, ok)
  PROVE  /\ \A j \in WId \ {i} : st'[j] = st[j]
         /\ ok => st'[i].rev = s.rev
         /\ ~ok => st' = st
         /\ Reliable => ok
<1>1. [s EXCEPT !.age = "recent"].rev = s.rev
  BY RevisionKept, Zenon
<1> DEFINE t == [s EXCEPT !.age = "recent"]
<1>2. st' = IF ok THEN [st EXCEPT ![i] = t] ELSE st
  BY Zenon DEF SaveStatus
<1> HIDE DEF t
<1>3. t.rev = s.rev
  BY <1>1 DEF t
<1> QED BY <1>2, <1>3, ZenonT(40) DEF TypeInv, StoreTyped, Reliable, Write

\* Another status does not concern an operation that has not decided on a retry.
LEMMA OtherStatus ==
  ASSUME NEW l, l \notin RetryPC \cup {"rec_observe"}, NEW w, NEW t, NEW x, NEW s, NEW u, NEW c,
         Carries(l, w, t, x, s, c)
  PROVE  Carries(l, w, t, x, u, c)
BY ZenonT(30) DEF Carries

\* A row that gets the workload x keeps what holds of it.
LEMMA KeptWorkload ==
  ASSUME NEW v, NEW x, NEW s, NEW m, Kept(v, s, m), x # None, Replacing => (m # None => m.rev = x.rev)
  PROVE  Kept(x, s, m)
BY Zenon DEF Kept

\* The saves of a workload in an apply.
LEMMA ApplySaves ==
  ASSUME TypeInv, LockInv, StoreInv, NEW p \in OpProc, ApplyReject(p) \/ ApplySave(p) \/ VolumeSave(p) \/ TransSave(p)
  PROVE  StoreInv'
<1> DEFINE i == proc[p].id
           a == proc[p].pc
           w == proc[p].wl
           t == proc[p].st
<1>1. a \in {"apply_reject", "apply_save", "vol_save", "trans_save"} /\ UNCHANGED <<st, res, crashes>>
  BY Zenon DEF ApplyReject, ApplySave, VolumeSave, TransSave, At
<1>2. a \notin {"idle", "apply_initial", "apply_admit"}
  BY <1>1
<1>3. /\ p \in Proc /\ proc \in [Proc -> LocalState] /\ i \in WId /\ w \in Workload
      /\ Carries(a, w, t, wl[i], st[i], crashes)
      /\ \A ty \in WType : Vacated(a, w, proc[p].then, res[ty][i])
      /\ \A ty \in WType : Kept(wl[i], st[i], res[ty][i])
  BY <1>2, Standing, Zenon
<1>4. w # None
  BY <1>3, ProcAssumption, Zenon
<1>5. PICK ok \in Write :
        /\ SaveWorkload(i, w, ok)
        /\ \/ a = "apply_reject" /\ Goto(p, "fail_read") /\ UNCHANGED lock
           \/ a = "apply_save" /\ ok /\ Goto(p, "apply_initial") /\ UNCHANGED lock
           \/ a = "vol_save" /\ ok /\ Goto(p, "apply_create") /\ UNCHANGED lock
           \/ a = "vol_save" /\ ~ok /\ FreeAndGoto(p, "idle") /\ UNCHANGED lock
           \/ a = "trans_save" /\ ok /\ Goto(p, "trans_status") /\ UNCHANGED lock
           \/ a \in {"apply_save", "trans_save"} /\ Return(p) /\ (a = "apply_save" => ~ok)
  BY ZenonT(30) DEF ApplyReject, ApplySave, VolumeSave, TransSave, At
<1>6. /\ \A j \in WId \ {i} : wl'[j] = wl[j] /\ st'[j] = st[j]
      /\ ok => wl'[i] = w
      /\ ~ok => wl' = wl
      /\ Reliable => ok
      /\ st'[i] = st[i]
  BY <1>1, <1>3, <1>5, SavedWorkload, ZenonT(40)
<1>7. a \in {"vol_save", "trans_save"} => wl[i] # None /\ wl[i].type = w.type /\ wl[i].rev = w.rev
  <2>1. "vol_save" \in AgreePC
    BY DEF AgreePC
  <2> QED BY <1>3, <2>1, Zenon DEF Carries
<1>8. a = "apply_reject" => ~Replacing
  BY <1>3, Zenon DEF Carries
<1>9. \A ty \in WType : Kept(wl'[i], st'[i], res[ty][i])
  <2> SUFFICES ASSUME NEW ty \in WType PROVE Kept(wl'[i], st[i], res[ty][i])
    BY <1>6, Zenon
  <2>1. Kept(wl[i], st[i], res[ty][i])
    BY <1>3, Zenon
  <2>2. CASE ~ok
    BY <1>6, <2>1, <2>2, Zenon
  <2>3. CASE ok
    <3>1. Replacing => (res[ty][i] # None => res[ty][i].rev = w.rev)
      <4>1. CASE a = "apply_save"
        BY <1>3, <4>1, Zenon DEF Vacated
      <4>2. CASE a \in {"vol_save", "trans_save"}
        BY <1>7, <2>1, <4>2, Zenon DEF Kept
      <4> QED BY <1>1, <1>8, <4>1, <4>2, Zenon
    <3> QED BY <1>4, <1>6, <2>1, <2>3, <3>1, KeptWorkload, ZenonT(40)
  <2> QED BY <2>2, <2>3
<1>10. Reliable /\ Replacing /\ crashes = 0 /\ wl'[i] # None /\ st'[i] # None /\ st'[i].rev # wl'[i].rev => a = "apply_save" /\ ok
  <2> SUFFICES ASSUME Reliable, Replacing, crashes = 0, st[i] # None, ~(a = "apply_save" /\ ok), wl'[i] # None
               PROVE  st[i].rev = wl'[i].rev
    BY <1>6, Zenon
  <2>1. wl'[i] = w /\ a \in {"vol_save", "trans_save"}
    BY <1>1, <1>6, <1>8, Zenon
  <2>2. wl[i] # None /\ wl[i].rev = w.rev
    BY <1>7, <2>1, Zenon
  <2>3. st[i].rev = wl[i].rev
    BY <1>2, <2>2, CurrentMine, Zenon
  <2> QED BY <2>1, <2>2, <2>3, Zenon
<1>11. CASE Return(p)
  <2>1. ~(a = "apply_save" /\ ok)
    <3>1. CASE a = "apply_save"
      <4>1. lock' = [lock EXCEPT ![i] = None] /\ lock[i] = p /\ p # None /\ lock \in [WId -> Proc \cup {None}]
        BY <1>2, <1>11, Underway, ProcAssumption, ZenonT(40) DEF Return, TypeInv, StoreTyped
      <4>2. ~UNCHANGED lock
        BY <1>3, <4>1
      <4> QED BY <1>5, <3>1, <4>2, Zenon
    <3> QED BY <3>1
  <2>2. Reliable /\ Replacing /\ crashes = 0 /\ wl'[i] # None /\ st'[i] # None => st'[i].rev = wl'[i].rev
    BY <1>10, <2>1, Zenon
  <2> QED BY <1>1, <1>2, <1>6, <1>9, <1>11, <2>2, LeavingStep, ZenonT(30)
<1>12. ASSUME NEW l \in {"fail_read", "apply_initial", "apply_create", "idle", "free_detach", "trans_status"}, NEW n,
              Moved(p, l, w, t, n), UNCHANGED lock, Carries(l, w, t, wl'[i], st[i], crashes),
              n = "delete_store" => l # "free_detach", a = "apply_save" => l = "apply_initial"
       PROVE  StoreInv'
  <2>1. \A ty \in WType : Vacated(l, w, n, res[ty][i])
    <3>1. l \notin {"delete_list", "delete_store", "apply_save"} /\ (l \in FreePC => l = "free_detach")
      BY <1>12 DEF FreePC
    <3> QED BY <1>12, <3>1, Zenon DEF Vacated
  <2>2. UNCHANGED <<res, lock, crashes>>
    BY <1>1, <1>12, Zenon
  <2>3. Carries(l, w, t, wl'[i], st'[i], crashes)
    BY <1>6, <1>12, Zenon
  <2>4. Reliable /\ Replacing /\ crashes = 0 /\ wl'[i] # None /\ st'[i] # None /\ st'[i].rev # wl'[i].rev
          => l = "apply_initial" /\ p \in OpProc
    BY <1>10, <1>12, Zenon
  <2>5. proc[p].pc # "idle" /\ p \in OpProc \cup RecProc
    BY <1>2
  <2> QED BY <1>3, <1>6, <1>9, <1>12, <2>1, <2>2, <2>3, <2>4, <2>5, RowStep, ZenonT(30)
<1>13. CASE a = "apply_reject" /\ Goto(p, "fail_read") /\ UNCHANGED lock
  <2>1. Reliable => wl'[i] # None
    BY <1>4, <1>6, Zenon
  <2>2. Carries("fail_read", w, t, wl'[i], st[i], crashes)
    BY <1>8, <1>13, <2>1, SMTT(30) DEF Carries, AgreePC, StartPC, RetryPC, CarryPC
  <2>3. \E n : Moved(p, "fail_read", w, t, n)
    BY <1>3, <1>13, Moves, Zenon
  <2> QED BY <1>12, <1>13, <2>2, <2>3, Zenon
<1>14. CASE a = "apply_save" /\ ok /\ Goto(p, "apply_initial") /\ UNCHANGED lock
  <2>1. wl'[i] = w
    BY <1>6, <1>14, Zenon
  <2>2. Carries("apply_initial", w, t, wl'[i], st[i], crashes)
    BY <1>4, <2>1 DEF Carries, AgreePC, StartPC, RetryPC, CarryPC
  <2>3. \E n : Moved(p, "apply_initial", w, t, n)
    BY <1>3, <1>14, Moves, Zenon
  <2> QED BY <1>12, <1>14, <2>2, <2>3, Zenon
<1>15. CASE a = "vol_save" /\ ok /\ Goto(p, "apply_create") /\ UNCHANGED lock
  <2>1. wl'[i] = w
    BY <1>6, <1>15, Zenon
  <2>2. Carries("apply_create", w, t, wl'[i], st[i], crashes)
    BY <1>4, <2>1 DEF Carries, AgreePC, StartPC, RetryPC, CarryPC
  <2>3. \E n : Moved(p, "apply_create", w, t, n)
    BY <1>3, <1>15, Moves, Zenon
  <2> QED BY <1>12, <1>15, <2>2, <2>3, Zenon
<1>16. CASE a = "vol_save" /\ ~ok /\ FreeAndGoto(p, "idle") /\ UNCHANGED lock
  <2>1. wl'[i] = wl[i]
    BY <1>6, <1>16, Zenon
  <2>2. PICK l \in {"idle", "free_detach"} : Moved(p, l, w, t, "idle")
    BY <1>3, <1>16, Moves, Zenon DEF FreeAndGoto
  <2>3. Continues(a, l, w, st[i]) /\ l \notin CarryPC
    BY <1>16, <2>2 DEF Continues, AgreePC, StartPC, RetryPC, CarryPC
  <2>4. Carries(l, w, t, wl'[i], st[i], crashes)
    BY <1>3, <2>1, <2>3, Onward, ZenonT(30)
  <2>5. a # "apply_save" /\ "idle" # "delete_store"
    BY <1>16
  <2> QED BY <1>12, <1>16, <2>2, <2>4, <2>5, Zenon
<1>17. CASE a = "trans_save" /\ ok /\ Goto(p, "trans_status") /\ UNCHANGED lock
  <2>1. wl'[i] = w
    BY <1>6, <1>17, Zenon
  <2>2. Reliable /\ Replacing /\ crashes = 0 => t.rev = w.rev
    <3>1. "trans_save" \in CarryPC
      BY SMTT(30) DEF CarryPC
    <3> QED BY <1>3, <1>7, <1>17, <3>1, Zenon DEF Carries
  <2>3. Carries("trans_status", w, t, wl'[i], st[i], crashes)
    BY <1>4, <2>1, <2>2, SMTT(30) DEF Carries, AgreePC, StartPC, RetryPC
  <2>4. \E n : Moved(p, "trans_status", w, t, n)
    BY <1>3, <1>17, Moves, Zenon
  <2> QED BY <1>12, <1>17, <2>3, <2>4, Zenon
<1> QED BY <1>5, <1>11, <1>13, <1>14, <1>15, <1>16, <1>17, Zenon

\* The first status of an apply.
LEMMA InitialSave ==
  ASSUME TypeInv, LockInv, StoreInv, NEW p \in OpProc, ApplyInitial(p)
  PROVE  StoreInv'
<1> DEFINE i == proc[p].id
           a == proc[p].pc
           w == proc[p].wl
           t == proc[p].st
<1>1. a = "apply_initial" /\ UNCHANGED <<wl, res, lock, crashes>>
  BY Zenon DEF ApplyInitial, At
<1>2. a \notin {"idle", "apply_admit"} /\ a \in AgreePC
  BY <1>1 DEF AgreePC
<1>3. /\ p \in Proc /\ proc \in [Proc -> LocalState] /\ i \in WId /\ w \in Workload
      /\ Carries(a, w, t, wl[i], st[i], crashes)
      /\ \A ty \in WType : Kept(wl[i], st[i], res[ty][i])
  BY <1>2, Standing, Zenon
<1>4. wl[i] # None /\ wl[i].rev = w.rev
  BY <1>2, <1>3, Zenon DEF Carries
<1>5. NewStatus(w, "Pending") \in Status /\ NewStatus(w, "Pending").rev = w.rev
  <2>1. "Pending" \in Actual
    BY DEF Actual, ResourceState
  <2>2. NewStatus(w, "Pending").rev = w.rev
    BY DEF NewStatus
  <2> QED BY <1>3, <2>1, <2>2, FreshStatus, Zenon
<1>6. PICK ok \in Write : SaveStatus(i, NewStatus(w, "Pending"), ok)
  BY Zenon DEF ApplyInitial
<1>7. /\ \A j \in WId \ {i} : wl'[j] = wl[j] /\ st'[j] = st[j]
      /\ wl'[i] = wl[i]
      /\ Reliable => st'[i].rev = wl[i].rev
  BY <1>1, <1>3, <1>4, <1>5, <1>6, SavedStatus, Zenon
<1>8. PICK l \in {"apply_create", "vol_provision"} : Goto(p, l)
  BY Zenon DEF ApplyInitial
<1>9. PICK n : Moved(p, l, w, t, n)
  BY <1>3, <1>8, Moves, Zenon
<1>10. /\ Continues(a, l, w, st[i]) /\ l \notin CarryPC \cup RetryPC \cup {"rec_observe"}
       /\ l \notin FreePC \cup {"delete_list", "delete_store", "apply_save"}
  BY <1>2, <1>8 DEF Continues, StartPC, RetryPC, CarryPC, FreePC
<1>11. Carries(l, w, t, wl[i], st[i], crashes)
  BY <1>3, <1>10, Onward, Zenon
<1>12. Carries(l, w, t, wl'[i], st'[i], crashes)
  BY <1>7, <1>10, <1>11, OtherStatus, Zenon
<1>13. \A ty \in WType : Vacated(l, w, n, res[ty][i]) /\ Kept(wl'[i], st'[i], res[ty][i])
  BY <1>3, <1>4, <1>7, <1>10, NothingVacated, Zenon DEF Kept
<1>14. Reliable => st'[i].rev = wl'[i].rev
  BY <1>7, Zenon
<1>15. proc[p].pc # "idle" /\ p \in OpProc \cup RecProc /\ UNCHANGED <<res, lock, crashes>>
  BY <1>1, <1>2
<1> QED BY <1>3, <1>7, <1>9, <1>12, <1>13, <1>14, <1>15, RowStep, ZenonT(30)

\* The status an operation ends with.
LEMMA LastSave ==
  ASSUME TypeInv, LockInv, StoreInv, NEW p \in OpProc \cup RecProc, Commit(p) \/ Save(p)
  PROVE  StoreInv'
<1> DEFINE i == proc[p].id
           a == proc[p].pc
           w == proc[p].wl
           t == proc[p].st
<1>1. a \in {"commit", "save"} /\ UNCHANGED <<wl, res, crashes>> /\ Return(p)
  BY Zenon DEF Commit, Save, At
<1>2. a \notin {"idle", "apply_initial", "apply_admit"} /\ a \in CarryPC /\ "commit" \in AgreePC
  BY <1>1 DEF AgreePC, CarryPC
<1>3. /\ p \in Proc /\ i \in WId /\ t \in Status
      /\ Carries(a, w, t, wl[i], st[i], crashes)
      /\ \A ty \in WType : Kept(wl[i], st[i], res[ty][i])
  BY <1>2, Standing, Zenon
<1>4. Reliable => wl[i] # None
  BY <1>1, <1>2, <1>3, Zenon DEF Carries
<1>5. Reliable /\ Replacing /\ crashes = 0 => t.rev = wl[i].rev
  BY <1>2, <1>3, Zenon DEF Carries
<1>6. PICK ok \in Write : SaveStatus(i, t, ok)
  BY Zenon DEF Commit, Save
<1>7. /\ \A j \in WId \ {i} : wl'[j] = wl[j] /\ st'[j] = st[j]
      /\ wl'[i] = wl[i]
      /\ Reliable => st'[i].rev = t.rev
  BY <1>1, <1>3, <1>6, SavedStatus, Zenon
<1>8. \A ty \in WType : Kept(wl'[i], st'[i], res[ty][i])
  BY <1>3, <1>4, <1>7, Zenon DEF Kept
<1>9. Reliable /\ Replacing /\ crashes = 0 /\ wl'[i] # None /\ st'[i] # None => st'[i].rev = wl'[i].rev
  BY <1>5, <1>7, Zenon
<1>10. proc[p].pc # "idle" /\ UNCHANGED <<res, crashes>>
  BY <1>1, <1>2
<1> QED BY <1>1, <1>7, <1>8, <1>9, <1>10, LeavingStep, ZenonT(30)

\* A pending workload is given up: it is to stay stopped.
LEMMA PendingSaves ==
  ASSUME TypeInv, LockInv, StoreInv, NEW p \in RecProc, PendingSave(p)
  PROVE  StoreInv'
<1> DEFINE i == proc[p].id
           a == proc[p].pc
           w == proc[p].wl
           t == proc[p].st
           u == [w EXCEPT !.desired = "Stopped"]
<1>1. /\ a = "pend_save" /\ UNCHANGED <<st, res, lock, crashes>>
      /\ proc' = [proc EXCEPT ![p].pc = "save", ![p].wl = u]
  BY Zenon DEF PendingSave, At
<1>2. a \notin {"idle", "apply_initial", "apply_admit"} /\ a \in AgreePC /\ a \in CarryPC
  BY <1>1 DEF AgreePC, CarryPC
<1>3. /\ p \in Proc /\ proc \in [Proc -> LocalState] /\ i \in WId /\ w \in Workload
      /\ Carries(a, w, t, wl[i], st[i], crashes)
      /\ \A ty \in WType : Kept(wl[i], st[i], res[ty][i])
  BY <1>2, Standing, Zenon
<1>4. wl[i] # None /\ wl[i].rev = w.rev /\ (Reliable /\ Replacing /\ crashes = 0 => t.rev = wl[i].rev)
  BY <1>2, <1>3, Zenon DEF Carries
<1>5. u \in Workload /\ u.rev = w.rev
  BY <1>3 DEF Workload, Desired
<1>6. u # None
  BY <1>5, ProcAssumption, Zenon
<1>7. PICK ok \in Write : SaveWorkload(i, u, ok)
  BY Zenon DEF PendingSave
<1> HIDE DEF u
<1>8. PICK n : Moved(p, "save", u, t, n)
  BY <1>1, <1>3, Moves, Zenon
<1>9. /\ \A j \in WId \ {i} : wl'[j] = wl[j] /\ st'[j] = st[j]
      /\ wl'[i] # None /\ wl'[i].rev = wl[i].rev /\ st'[i] = st[i]
  BY <1>1, <1>3, <1>4, <1>5, <1>6, <1>7, SavedWorkload, ZenonT(40)
<1>10. Carries("save", u, t, wl'[i], st'[i], crashes)
  BY <1>4, <1>9 DEF Carries, AgreePC, StartPC, RetryPC
<1>11. \A ty \in WType : Kept(wl'[i], st'[i], res[ty][i])
  BY <1>3, <1>9, Zenon DEF Kept
<1>12. \A ty \in WType : Vacated("save", u, n, res[ty][i])
  <2>1. "save" \notin FreePC \cup {"delete_list", "delete_store", "apply_save"}
    BY DEF FreePC
  <2> QED BY <2>1, NothingVacated, Zenon
<1>13. Reliable /\ Replacing /\ crashes = 0 /\ st'[i] # None => st'[i].rev = wl'[i].rev
  BY <1>2, <1>4, <1>9, CurrentMine, Zenon
<1>14. proc[p].pc # "idle" /\ p \in OpProc \cup RecProc /\ UNCHANGED <<res, lock, crashes>>
  BY <1>1, <1>2
<1> QED BY <1>3, <1>8, <1>9, <1>10, <1>11, <1>12, <1>13, <1>14, RowStep, ZenonT(30)

\* The records of a deleted workload go.
LEMMA StoreDeletes ==
  ASSUME TypeInv, LockInv, StoreInv, NEW p \in OpProc, DeleteStore(p)
  PROVE  StoreInv'
<1> DEFINE i == proc[p].id
<1>1. /\ proc[p].pc = "delete_store" /\ UNCHANGED <<res, crashes>> /\ Return(p)
      /\ \/ UNCHANGED <<wl, st>>
         \/ wl' = [wl EXCEPT ![i] = None] /\ st' = [st EXCEPT ![i] = None]
  BY Zenon DEF DeleteStore, DeleteRecords, At
<1>2. proc[p].pc \notin {"idle", "apply_initial"}
  BY <1>1
<1>3. i \in WId /\ (SafeDelete => \A ty \in WType : res[ty][i] = None)
  <2>1. i \in WId /\ \A ty \in WType : Vacated(proc[p].pc, proc[p].wl, proc[p].then, res[ty][i])
    BY <1>2, Standing, Zenon
  <2> QED BY <1>1, <2>1, Zenon DEF Vacated
<1>4. CASE UNCHANGED <<wl, st>>
  BY <1>1, <1>2, <1>4, QuietReturn, Zenon
<1>5. CASE wl' = [wl EXCEPT ![i] = None] /\ st' = [st EXCEPT ![i] = None]
  <2>1. wl'[i] = None /\ st'[i] = None /\ \A j \in WId \ {i} : wl'[j] = wl[j] /\ st'[j] = st[j]
    BY <1>3, <1>5 DEF TypeInv, StoreTyped
  <2>2. \A ty \in WType : Kept(wl'[i], st'[i], res[ty][i])
    BY <1>3, <2>1, Zenon DEF Kept, Replacing
  <2> QED BY <1>1, <1>2, <2>1, <2>2, LeavingStep, ZenonT(30)
<1> QED BY <1>1, <1>4, <1>5, Zenon

\* An operation begins: it takes the lock nobody has and reads the stored workload.
LEMMA BeginStores ==
  ASSUME TypeInv, LockInv, StoreInv, NEW i \in WId, NEW p \in OpProc \cup RecProc,
         \/ p \in OpProc /\ DeleteWorkload(p, i)
         \/ p \in OpProc /\ \E w \in Request : ApplyWorkload(p, i, w)
         \/ p \in RecProc /\ ReconcileWorkload(p, i)
  PROVE  StoreInv'
<1> DEFINE Anew(r) == /\ r.id = i /\ r.wl = wl[i]
                      /\ r.pc \in {"apply_status", "apply_admit", "delete_runtime", "rec_load"}
                      /\ r.pc \in {"delete_runtime", "rec_load"} => wl[i] # None
<1>1. /\ proc[p].pc = "idle" /\ lock[i] = None /\ lock' = [lock EXCEPT ![i] = p] /\ UNCHANGED <<wl, st, res, crashes>>
      /\ p \in Proc /\ proc \in [Proc -> LocalState] /\ lock \in [WId -> Proc \cup {None}]
  BY Zenon DEF DeleteWorkload, ApplyWorkload, ReconcileWorkload, Proc, At, TypeInv, StoreTyped, ProcTyped
<1>2. \E r : proc' = [proc EXCEPT ![p] = r] /\ Anew(r)
  <2>1. CASE p \in OpProc /\ DeleteWorkload(p, i)
    <3> DEFINE r == [IdleProc EXCEPT !.pc = "delete_runtime", !.id = i, !.wl = wl[i]]
    <3>1. proc' = [proc EXCEPT ![p] = r] /\ wl[i] # None
      BY <2>1 DEF DeleteWorkload, GetWorkload
    <3>2. r.pc = "delete_runtime" /\ r.id = i /\ r.wl = wl[i]
      BY Zenon DEF IdleProc
    <3> HIDE DEF r
    <3> QED BY <3>1, <3>2, Zenon
  <2>2. CASE p \in RecProc /\ ReconcileWorkload(p, i)
    <3> DEFINE r == [IdleProc EXCEPT !.pc = "rec_load", !.id = i, !.wl = wl[i]]
    <3>1. proc' = [proc EXCEPT ![p] = r] /\ wl[i] # None
      BY <2>2 DEF ReconcileWorkload, GetWorkload, ListWorkloads
    <3>2. r.pc = "rec_load" /\ r.id = i /\ r.wl = wl[i]
      BY Zenon DEF IdleProc
    <3> HIDE DEF r
    <3> QED BY <3>1, <3>2, Zenon
  <2>3. CASE p \in OpProc /\ \E w \in Request : ApplyWorkload(p, i, w)
    <3>1. PICK l \in {"apply_status", "apply_admit"} : \E w :
            proc' = [proc EXCEPT ![p] = [IdleProc EXCEPT !.pc = l, !.id = i, !.req = w, !.wl = wl[i]]]
      BY <2>3, Zenon DEF ApplyWorkload, GetWorkload
    <3>2. PICK w : proc' = [proc EXCEPT ![p] = [IdleProc EXCEPT !.pc = l, !.id = i, !.req = w, !.wl = wl[i]]]
      BY <3>1, Zenon
    <3> DEFINE r == [IdleProc EXCEPT !.pc = l, !.id = i, !.req = w, !.wl = wl[i]]
    <3>3. r.pc = l /\ r.id = i /\ r.wl = wl[i]
      BY Zenon DEF IdleProc
    <3>4. proc' = [proc EXCEPT ![p] = r]
      BY <3>2
    <3>5. l \notin {"delete_runtime", "rec_load"}
      BY <3>1, SMTT(30)
    <3> HIDE DEF r
    <3> QED BY <3>1, <3>3, <3>4, <3>5, Zenon
  <2> QED BY <2>1, <2>2, <2>3
<1>3. PICK r : proc' = [proc EXCEPT ![p] = r] /\ Anew(r)
  BY <1>2, ZenonT(40)
<1>4. proc'[p] = r /\ \A q \in Proc \ {p} : proc'[q] = proc[q]
  BY <1>1, <1>3, Zenon
<1>5. \A j \in WId \ {i} : lock'[j] = lock[j]
  BY <1>1, Zenon
<1>6. ASSUME NEW q \in OpProc \cup RecProc, proc'[q].pc # "idle" PROVE Carried(q)'
  <2>1. CASE q = p
    <3>1. Carries(r.pc, r.wl, r.st, wl[i], st[i], crashes)
      BY <1>3 DEF Carries, AgreePC, StartPC, RetryPC, CarryPC
    <3>2. \A ty \in WType : Vacated(r.pc, r.wl, r.then, res[ty][i])
      <4>1. r.pc \notin FreePC \cup {"delete_list", "delete_store", "apply_save"}
        BY <1>3, SMTT(30) DEF FreePC
      <4> QED BY <4>1, NothingVacated, Zenon
    <3> QED BY <1>1, <1>3, <1>4, <2>1, <3>1, <3>2, Zenon DEF Carried
  <2>2. CASE q # p
    <3>1. proc'[q] = proc[q]
      BY <1>4, <2>2, Zenon DEF Proc
    <3>2. Carried(q)
      BY <1>6, <3>1, Zenon DEF StoreInv
    <3>3. UNCHANGED <<wl, st, res, crashes>>
      BY <1>1, SMTT(30)
    <3> QED BY <3>1, <3>2, <3>3, ZenonT(40) DEF Carried
  <2> QED BY <2>1, <2>2
<1>7. ASSUME Reliable /\ Replacing /\ crashes = 0, NEW j \in WId PROVE Current(j)'
  <2>1. Current(j)
    BY <1>7, Zenon DEF StoreInv
  <2>2. CASE j = i
    <3>1. None \notin OpProc
      BY ProcAssumption, Zenon DEF Proc
    <3> QED BY <1>1, <2>1, <2>2, <3>1, Zenon DEF Current
  <2>3. CASE j # i
    <3>1. lock[j] \in OpProc /\ proc[lock[j]].pc = "apply_initial" => proc'[lock[j]] = proc[lock[j]]
      <4>1. "idle" # "apply_initial"
        OBVIOUS
      <4> QED BY <1>1, <1>4, <4>1, Zenon DEF Proc
    <3> QED BY <1>1, <1>5, <2>1, <2>3, <3>1, Zenon DEF Current
  <2> QED BY <2>2, <2>3
<1>8. \A j \in WId : \A ty \in WType : Kept(wl'[j], st'[j], res'[ty][j])
  BY <1>1, Zenon DEF StoreInv
<1>9. crashes' = crashes
  BY <1>1
<1> QED BY <1>6, <1>7, <1>8, <1>9, Zenon DEF StoreInv

\* Status queries, which write a status they may have read long ago.
LEMMA GetStores ==
  ASSUME TypeInv, StoreInv, NEW p \in GetProc,
         GetStep(p) \/ \E i \in WId : GetStatus(p, i)
  PROVE  StoreInv'
<1>1. /\ UNCHANGED <<wl, res, lock, crashes>> /\ p \in Proc /\ proc \in [Proc -> LocalState]
      /\ GetProc # {} /\ p \notin OpProc \cup RecProc
  BY ProcAssumption, Zenon DEF GetStep, GetStatus, GetStatusWorkload, GetStatusObserve, GetStatusSave, Proc, TypeInv, ProcTyped
<1>2. \A q \in Proc \ {p} : proc'[q] = proc[q]
  <2>1. \/ \E r : proc' = [proc EXCEPT ![p] = r] \/ \E l, t : proc' = [proc EXCEPT ![p].pc = l, ![p].st = t]
    BY ZenonT(30) DEF GetStep, GetStatus, GetStatusWorkload, GetStatusObserve, GetStatusSave, GotoWith
  <2> QED BY <1>1, <2>1, Zenon
<1>3. ~Reliable
  BY <1>1, ZenonT(40) DEF Reliable
<1>4. ASSUME NEW q \in OpProc \cup RecProc, proc'[q].pc # "idle" PROVE Carried(q)'
  <2>1. proc'[q] = proc[q]
    BY <1>1, <1>2, Zenon DEF Proc
  <2>2. Carried(q)
    BY <1>4, <2>1, Zenon DEF StoreInv
  <2>3. ASSUME NEW s, NEW u, NEW l, NEW w, NEW t, NEW x, NEW c, Carries(l, w, t, x, s, c)
        PROVE  Carries(l, w, t, x, u, c)
    BY <1>1, <1>3, <2>3, ZenonT(30) DEF Carries
  <2>4. /\ Carries(proc[q].pc, proc[q].wl, proc[q].st, wl[proc[q].id], st'[proc[q].id], crashes)
        /\ \A ty \in WType : Vacated(proc[q].pc, proc[q].wl, proc[q].then, res[ty][proc[q].id])
    BY <2>2, <2>3, Zenon DEF Carried
  <2>5. UNCHANGED <<wl, res, crashes>>
    BY <1>1
  <2> QED BY <2>1, <2>4, <2>5, SMTT(30) DEF Carried
<1>5. \A j \in WId : \A ty \in WType : Kept(wl'[j], st'[j], res'[ty][j])
  BY <1>1, <1>3, Zenon DEF StoreInv, Kept
<1> QED BY <1>3, <1>4, <1>5, Zenon DEF StoreInv

\* Time does to a status what leaves its revision and its retry mark alone.
Later(s, t) == t.rev = s.rev /\ t.terminal = s.terminal /\ (s = None => t = None)

\* The passing of time keeps the invariant of the store.
LEMMA TimeStores ==
  ASSUME TypeInv, StoreInv, PendingThresholdPasses \/ FailedTTLPasses
  PROVE  StoreInv'
<1>1. UNCHANGED <<wl, res, lock, crashes>>
  BY ZenonT(40) DEF PendingThresholdPasses, FailedTTLPasses
<1>2. /\ proc \in [Proc -> LocalState] /\ st \in [WId -> Status \cup {None}]
      /\ \A p \in Proc : proc[p].st \in Status \cup {None}
  BY ZenonT(40) DEF TypeInv, StoreTyped, ProcTyped, LocalState
<1>3. \A s \in Status \cup {None} : Later(s, Waited(s)) /\ Later(s, Aged(s))
  <2>1. ASSUME NEW s \in Status
        PROVE  Later(s, Waited(s)) /\ Waited(s) \in Status
    <3>1. CASE s = None \/ s.pendingSince = "none"
      BY <2>1, <3>1, Zenon DEF Later, Waited
    <3>2. CASE ~(s = None \/ s.pendingSince = "none")
      <4> DEFINE u == [s EXCEPT !.pendingSince = "old"]
      <4>1. u.rev = s.rev /\ u.terminal = s.terminal
        BY <2>1 DEF Status
      <4>2. u \in Status
        BY <2>1, SMTT(30) DEF Status
      <4> QED BY <3>2, <4>1, <4>2, Zenon DEF Later, Waited
    <3> QED BY <3>1, <3>2
  <2>2. ASSUME NEW s \in Status PROVE Later(s, Aged(s))
    <3>1. CASE s = None
      BY <3>1, Zenon DEF Later, Aged
    <3>2. CASE s # None
      <4> DEFINE u == Waited(s)
      <4>1. u \in Status /\ Later(s, u)
        BY <2>1, Zenon
      <4>2. Aged(s) = [u EXCEPT !.age = "old"]
        BY <3>2, Zenon DEF Aged
      <4> HIDE DEF u
      <4>3. [u EXCEPT !.age = "old"].rev = u.rev /\ [u EXCEPT !.age = "old"].terminal = u.terminal
        BY <4>1 DEF Status
      <4> QED BY <3>2, <4>1, <4>2, <4>3, Zenon DEF Later
    <3> QED BY <3>1, <3>2, SMTT(30)
  <2>3. Later(None, Waited(None)) /\ Later(None, Aged(None))
    BY ZenonT(40) DEF Later, Waited, Aged
  <2> QED BY <2>1, <2>2, <2>3, Zenon
<1>4. /\ \A i \in WId : Later(st[i], st'[i])
      /\ \A p \in Proc :
           /\ proc'[p].pc = proc[p].pc /\ proc'[p].id = proc[p].id /\ proc'[p].wl = proc[p].wl
           /\ proc'[p].then = proc[p].then /\ Later(proc[p].st, proc'[p].st)
           /\ \A i \in WId : proc[p].st = st[i] => proc'[p].st = st'[i]
  <2>1. \A p \in Proc : proc[p] = [f \in Fields |-> proc[p][f]]
    BY <1>2 DEF LocalState, Fields
  <2>2. CASE PendingThresholdPasses
    <3>1. \A p \in Proc :
           /\ proc'[p].pc = proc[p].pc /\ proc'[p].id = proc[p].id /\ proc'[p].wl = proc[p].wl
           /\ proc'[p].then = proc[p].then /\ proc'[p].st = Waited(proc[p].st)
      BY <2>1, <2>2, ZenonT(30) DEF PendingThresholdPasses, Fields
    <3>2. \A i \in WId : st'[i] = Waited(st[i])
      BY <2>2, Zenon DEF PendingThresholdPasses
    <3> QED BY <1>2, <1>3, <3>1, <3>2, ZenonT(40)
  <2>3. CASE FailedTTLPasses
    <3>1. \A p \in Proc :
           /\ proc'[p].pc = proc[p].pc /\ proc'[p].id = proc[p].id /\ proc'[p].wl = proc[p].wl
           /\ proc'[p].then = proc[p].then /\ proc'[p].st = Aged(proc[p].st)
      BY <2>1, <2>3, ZenonT(30) DEF FailedTTLPasses, Fields
    <3>2. \A i \in WId : st'[i] = Aged(st[i])
      BY <2>3, Zenon DEF FailedTTLPasses
    <3> QED BY <1>2, <1>3, <3>1, <3>2, ZenonT(40)
  <2> QED BY <2>2, <2>3, SMTT(30)
<1>5. ASSUME NEW p \in OpProc \cup RecProc, proc'[p].pc # "idle" PROVE Carried(p)'
  <2> DEFINE i == proc[p].id
  <2>1. p \in Proc /\ proc[p].pc # "idle"
    BY <1>4, <1>5, Zenon DEF Proc
  <2>2. Carried(p) /\ i \in WId
    BY <2>1, Zenon DEF StoreInv, TypeInv, ProcTyped, Held
  <2>3. Later(st[i], st'[i]) /\ Later(proc[p].st, proc'[p].st) /\ (proc[p].st = st[i] => proc'[p].st = st'[i])
    BY <1>4, <2>1, <2>2, Zenon
  <2>4. ASSUME NEW l, NEW w, NEW t, NEW x, NEW s, NEW c, NEW u, NEW v, Carries(l, w, t, x, s, c),
               Later(t, u), Later(s, v), t = s => u = v
        PROVE  Carries(l, w, u, x, v, c)
    BY <2>4, ZenonT(30) DEF Carries, Later
  <2>5. Carries(proc[p].pc, proc[p].wl, proc'[p].st, wl[i], st'[i], crashes)
    BY <2>2, <2>3, <2>4, Zenon DEF Carried
  <2>6. \A ty \in WType : Vacated(proc[p].pc, proc[p].wl, proc[p].then, res[ty][i])
    BY <2>2, Zenon DEF Carried
  <2>7. /\ proc'[p].pc = proc[p].pc /\ proc'[p].id = i /\ proc'[p].wl = proc[p].wl
        /\ proc'[p].then = proc[p].then
    BY <1>4, <2>1, Zenon
  <2> QED BY <1>1, <2>5, <2>6, <2>7, SMTT(30) DEF Carried
<1>6. \A i \in WId : \A ty \in WType : Kept(wl'[i], st'[i], res'[ty][i])
  <2>1. ASSUME NEW i \in WId, NEW ty \in WType PROVE Kept(wl[i], st'[i], res[ty][i])
    BY <1>4, Zenon DEF StoreInv, Kept, Later
  <2> QED BY <1>1, <2>1, Zenon
<1>7. ASSUME Reliable /\ Replacing /\ crashes = 0, NEW i \in WId PROVE Current(i)'
  <2>1. Current(i) /\ Later(st[i], st'[i])
    BY <1>4, <1>7, Zenon DEF StoreInv
  <2>2. lock[i] \in OpProc => proc'[lock[i]].pc = proc[lock[i]].pc /\ proc'[lock[i]].id = proc[lock[i]].id
    BY <1>4, Zenon DEF Proc
  <2> QED BY <1>1, <2>1, <2>2, Zenon DEF Current, Later
<1>8. crashes' = crashes
  BY <1>1
<1> QED BY <1>5, <1>6, <1>7, <1>8, ZenonT(40) DEF StoreInv

\* A crash, the drift of a resource and the end of a back-off window.
LEMMA SurroundingStores ==
  ASSUME TypeInv, StoreInv, Crash \/ Surroundings
  PROVE  StoreInv'
<1>1. CASE Crash
  <2>1. /\ UNCHANGED <<wl, st, res>> /\ \A p \in Proc : proc'[p].pc = "idle"
        /\ crashes' = crashes + 1
    BY <1>1, IdleStands, ZenonT(40) DEF Crash
  <2>2. crashes' # 0
    BY <2>1, SMTT(30) DEF TypeInv, StoreTyped
  <2>3. \A p \in OpProc \cup RecProc : proc'[p].pc = "idle"
    BY <2>1, Zenon DEF Proc
  <2>4. \A i \in WId : \A ty \in WType : Kept(wl'[i], st'[i], res'[ty][i])
    BY <2>1, ZenonT(40) DEF StoreInv
  <2> QED BY <2>2, <2>3, <2>4, Zenon DEF StoreInv
<1>2. CASE BackoffElapses
  <2>1. UNCHANGED <<wl, st, res, lock, proc, crashes>>
    BY <1>2, Zenon DEF BackoffElapses
  <2> QED BY <2>1 DEF StoreInv, Carried, Current
<1>3. CASE \E tz \in WType : \E j \in WId : Drift(tz, j)
  <2>1. PICK tz \in WType, j \in WId : Drift(tz, j)
    BY <1>3
  <2>2. PICK y \in DriftOutcomes(res[tz][j]) : res' = [res EXCEPT ![tz][j] = y]
    BY <2>1, Zenon DEF Drift
  <2>3. UNCHANGED <<wl, st, lock, proc, crashes>> /\ res[tz][j] # None
    BY <2>1, Zenon DEF Drift
  <2>4. res \in [WType -> [WId -> Resource \cup {None}]]
    BY DEF TypeInv, StoreTyped
  <2>5. y # None => y.rev = res[tz][j].rev
    BY <2>2, <2>3, <2>4, OutcomeRevisions, ZenonT(40)
  <2>6. \A ty \in WType, i \in WId :
          res'[ty][i] = res[ty][i] \/ (res[ty][i] # None /\ (res'[ty][i] # None => res'[ty][i].rev = res[ty][i].rev))
    BY <2>2, <2>3, <2>4, <2>5, SMT
  <2>7. ASSUME NEW p \in OpProc \cup RecProc, proc'[p].pc # "idle" PROVE Carried(p)'
    <3>1. Carried(p) /\ proc[p].id \in WId
      BY <2>3, <2>7, ZenonT(40) DEF StoreInv, TypeInv, ProcTyped, Held, Proc
    <3>2. \A ty \in WType : Vacated(proc[p].pc, proc[p].wl, proc[p].then, res'[ty][proc[p].id])
      <4>1. ASSUME NEW ty \in WType PROVE Vacated(proc[p].pc, proc[p].wl, proc[p].then, res[ty][proc[p].id])
        BY <3>1, Zenon DEF Carried
      <4> QED BY <2>6, <3>1, <4>1, ZenonT(30) DEF Vacated
    <3>3. Carries(proc[p].pc, proc[p].wl, proc[p].st, wl[proc[p].id], st[proc[p].id], crashes)
      BY <3>1, Zenon DEF Carried
    <3> QED BY <2>3, <3>2, <3>3, SMTT(30) DEF Carried
  <2>8. \A i \in WId : \A ty \in WType : Kept(wl[i], st[i], res'[ty][i])
    <3>1. ASSUME NEW i \in WId, NEW ty \in WType PROVE Kept(wl[i], st[i], res[ty][i])
      BY Zenon DEF StoreInv
    <3> QED BY <2>6, <3>1, ZenonT(40) DEF Kept
  <2>9. Reliable /\ Replacing /\ crashes = 0 => \A i \in WId : Current(i)'
    BY <2>3, ZenonT(40) DEF StoreInv, Current
  <2>10. UNCHANGED <<wl, st, crashes>>
    BY <2>3
  <2> QED BY <2>7, <2>8, <2>9, <2>10, Zenon DEF StoreInv
<1> QED BY <1>1, <1>2, <1>3, Zenon DEF Surroundings

\* The invariant holds initially and is kept by every step.
LEMMA StoreInit == Init => StoreInv
<1> SUFFICES ASSUME Init PROVE StoreInv
  OBVIOUS
<1>1. \A p \in OpProc \cup RecProc : proc[p].pc = "idle"
  BY IdleStands, Zenon DEF Init, Proc
<1>2. \A i \in WId : wl[i] = None /\ st[i] = None /\ \A ty \in WType : res[ty][i] = None
  BY Zenon DEF Init
<1>3. \A i \in WId : \A ty \in WType : Kept(wl[i], st[i], res[ty][i])
  BY <1>2, Zenon DEF Kept
<1>4. \A i \in WId : Current(i)
  BY <1>2, Zenon DEF Current
<1> QED BY <1>1, <1>3, <1>4, Zenon DEF StoreInv

\* Every step of the manager keeps the invariant of the store, given types and lock.
LEMMA StoreNext == TypeInv /\ LockInv /\ StoreInv /\ [Next]_vars => StoreInv'
<1> SUFFICES ASSUME TypeInv, LockInv, StoreInv, [Next]_vars PROVE StoreInv'
  OBVIOUS
<1>1. CASE Begin
  <2>1. CASE \E p \in GetProc : \E i \in WId : GetStatus(p, i)
    BY <2>1, GetStores, Zenon
  <2>2. CASE \E p \in OpProc \cup RecProc : \E i \in WId :
               \/ p \in OpProc /\ DeleteWorkload(p, i)
               \/ p \in OpProc /\ \E w \in Request : ApplyWorkload(p, i, w)
               \/ p \in RecProc /\ ReconcileWorkload(p, i)
    BY <2>2, BeginStores, Zenon
  <2> QED BY <1>1, <2>1, <2>2, Zenon DEF Begin
<1>2. ASSUME NEW p \in OpProc, ApplyStep(p) \/ VolumeStep(p) \/ DeleteStep(p) PROVE StoreInv'
  <2>0. p \in OpProc \cup RecProc
    OBVIOUS
  <2>1. CASE ApplyStep(p)
    BY <2>0, <2>1, RuntimeApply, QuietApply, QuietFailures, QuietDecide, ApplySaves, InitialSave, LastSave, ZenonT(40) DEF ApplyStep
  <2>2. CASE VolumeStep(p)
    BY <2>0, <2>2, QuietApply, QuietFailures, QuietFree, ApplySaves, Zenon DEF VolumeStep
  <2>3. CASE DeleteStep(p)
    BY <2>3, RuntimeApply, QuietFree, StoreDeletes, Zenon DEF DeleteStep
  <2> QED BY <1>2, <2>1, <2>2, <2>3, SMTT(30)
<1>3. ASSUME NEW p \in RecProc, ReconcileStep(p) PROVE StoreInv'
  <2>0. p \in OpProc \cup RecProc
    OBVIOUS
  <2> QED BY <1>3, <2>0, RuntimeReconcile, QuietReconcile, QuietApply, PendingSaves, LastSave, ZenonT(40) DEF ReconcileStep
<1>4. CASE \E p \in GetProc : GetStep(p)
  BY <1>4, GetStores, Zenon
<1>5. CASE Crash \/ Surroundings
  BY <1>5, SurroundingStores, Zenon
<1>6. CASE PendingThresholdPasses \/ FailedTTLPasses
  BY <1>6, TimeStores, ZenonT(40)
<1>7. CASE UNCHANGED vars
  <2>1. UNCHANGED <<wl, st, res, lock, proc, crashes>>
    BY <1>7, Zenon DEF vars
  <2> QED BY <2>1, ZenonT(40) DEF StoreInv, Carried, Current
<1> QED BY <1>1, <1>2, <1>3, <1>4, <1>5, <1>6, <1>7, ZenonT(40) DEF Next, Step

\* What a call does to a resource that does not run: only a start makes it run.
LEMMA OnlyStartRuns ==
  ASSUME NEW r \in Resource, r.state \in {"Stopped", "Failed"}
  PROVE  /\ \A w \in Workload : \A o \in CreateOutcomes(r, w) : o.res # None => o.res.state # "Running"
         /\ \A o \in StopOutcomes(r) \cup DeleteOutcomes(r) : o.res # None => o.res.state # "Running"
         /\ \A y \in DriftOutcomes(r) : y # None => y.state # "Running"
<1>1. \A s : [r EXCEPT !.state = s].state = s
  BY DEF Resource
<1>2. \A h \in Halted(r) : h.state # "Running"
  BY <1>1 DEF Halted
<1>3. \A w \in Workload : \A o \in CreateOutcomes(r, w) : o.res # None => o.res.state # "Running"
  BY <1>1 DEF CreateOutcomes, ensureContainerReadyForCreate, pullImageWithRetry, Faulty, Outcome
<1>4. \A o \in StopOutcomes(r) : o.res # None => o.res.state # "Running"
  BY <1>1, <1>2, SMTT(30) DEF StopOutcomes, Faulty, Outcome
<1>5. \A o \in DeleteOutcomes(r) : o.res # None => o.res.state # "Running"
  BY <1>1, <1>2 DEF DeleteOutcomes, Faulty, Outcome
<1>6. \A y \in DriftOutcomes(r) : y # None => y.state # "Running"
  BY <1>1 DEF DriftOutcomes
<1> QED BY <1>3, <1>4, <1>5, <1>6, ZenonT(40)

\* Where StartWorkload is called.
StartCallPC == {"apply_start", "trans_start", "rec_restart", "rec_start", "pend_start"}

\* An operation p calls the runtime.
Calls(p) ==
  /\ proc[p].pc \notin {"idle", "apply_admit"}
  /\ \E o : /\ SetMine(p, o.res)
            /\ \/ o \in CreateOutcomes(Mine(p), proc[p].wl)
               \/ o \in StopOutcomes(Mine(p)) \cup DeleteOutcomes(Mine(p))
               \/ proc[p].pc \in StartCallPC /\ o \in StartOutcomes(Mine(p))

\* The resources change by the calls of an operation and by drift.
LEMMA ResourceSteps ==
  ASSUME [Next]_vars
  PROVE  \/ UNCHANGED res
         \/ \E ty \in WType : \E i \in WId : Drift(ty, i)
         \/ \E p \in OpProc \cup RecProc : Calls(p)
<1>1. ASSUME NEW p \in OpProc \cup RecProc,
             \/ ApplyCreate(p) \/ ApplyStart(p) \/ TransStart(p) \/ ReconcileCreate(p) \/ ReconcileRestart(p)
             \/ ReconcileStart(p) \/ PendingStart(p)
      PROVE  Calls(p)
  <2>1. proc[p].pc \in StartCallPC \cup {"apply_create", "rec_create"} /\
          \E o : /\ SetMine(p, o.res)
                 /\ \/ o \in CreateOutcomes(Mine(p), proc[p].wl)
                    \/ proc[p].pc \in StartCallPC /\ o \in StartOutcomes(Mine(p))
    <3>1. CASE ApplyCreate(p) \/ ReconcileCreate(p)
      BY <3>1, Zenon DEF ApplyCreate, ReconcileCreate, At
    <3>2. CASE ApplyStart(p) \/ TransStart(p) \/ ReconcileRestart(p) \/ ReconcileStart(p) \/ PendingStart(p)
      <4>1. proc[p].pc \in StartCallPC
        BY <3>2, Zenon DEF ApplyStart, TransStart, ReconcileRestart, ReconcileStart, PendingStart, At, StartCallPC
      <4>2. \E o \in StartOutcomes(Mine(p)) : SetMine(p, o.res)
        BY <3>2, Zenon DEF ApplyStart, TransStart, ReconcileRestart, ReconcileStart, PendingStart
      <4> QED BY <4>1, <4>2, Zenon
    <3> QED BY <1>1, <3>1, <3>2, Zenon
  <2>2. proc[p].pc \notin {"idle", "apply_admit"}
    BY <2>1 DEF StartCallPC
  <2> QED BY <2>1, <2>2, Zenon DEF Calls
<1>2. ASSUME NEW p \in OpProc \cup RecProc,
             \/ ApplyDeleteOld(p) \/ DeleteRuntime(p) \/ TransStop(p) \/ ReconcileDelete(p) \/ ReconcileStop(p)
             \/ PendingStop(p) \/ PendingDelete(p)
      PROVE  Calls(p)
  <2>1. proc[p].pc \in {"apply_delete_old", "delete_runtime", "trans_stop", "rec_delete", "rec_stop", "pend_stop", "pend_delete"}
    BY <1>2, Zenon DEF ApplyDeleteOld, DeleteRuntime, TransStop, ReconcileDelete, ReconcileStop, PendingStop, PendingDelete, At
  <2>2. \E o \in StopOutcomes(Mine(p)) \cup DeleteOutcomes(Mine(p)) : SetMine(p, o.res)
    BY <1>2, Zenon DEF ApplyDeleteOld, DeleteRuntime, TransStop, ReconcileDelete, ReconcileStop, PendingStop, PendingDelete
  <2>3. proc[p].pc \notin {"idle", "apply_admit"}
    BY <2>1
  <2> QED BY <2>2, <2>3, Zenon DEF Calls
<1>3. CASE \E p \in OpProc : ApplyStep(p)
  BY <1>1, <1>2, <1>3, ZenonT(40) DEF ApplyStep, ApplyStatus, ApplyAdmit, ApplyReject, ApplySave, ApplyInitial, ApplyFinal,
       Commit, FailRead, Save, TransSave, TransStatus, TransRecheck
<1>4. CASE \E p \in OpProc : VolumeStep(p)
  BY <1>4, Zenon DEF VolumeStep, VolumeProvision, VolumeRecord, VolumeAttach, VolumeAttachment, VolumeSave, VolumeFail,
       FreeDetach, FreeAttachment, FreeLookup, FreeDelete, FreeRecord
<1>5. CASE \E p \in OpProc : DeleteStep(p)
  BY <1>2, <1>5, Zenon DEF DeleteStep, DeleteList, DeleteStore
<1>6. CASE \E p \in RecProc : ReconcileStep(p)
  BY <1>1, <1>2, <1>6, Zenon DEF ReconcileStep, ReconcileLoad, ReconcileObserve, ReconcileRecheck, PendingSave, Save
<1>7. CASE (\E p \in GetProc : GetStep(p)) \/ Begin
  BY <1>7, Zenon DEF GetStep, GetStatusWorkload, GetStatusObserve, GetStatusSave, Begin, DeleteWorkload, ApplyWorkload,
       ReconcileWorkload, GetStatus
<1>8. CASE Surroundings \/ Crash \/ PendingThresholdPasses \/ FailedTTLPasses \/ UNCHANGED vars
  BY <1>8, Zenon DEF Surroundings, BackoffElapses, Crash, PendingThresholdPasses, FailedTTLPasses, vars
<1> QED BY <1>3, <1>4, <1>5, <1>6, <1>7, <1>8, ZenonT(40) DEF Next, Step

\* A step that starts a resource does so for the workload that is stored.
LEMMA StartStep ==
  ASSUME Replacing, TypeInv, LockInv, StoreInv, [Next]_vars
  PROVE  \A ty \in WType, i \in WId :
           res[ty][i] # None /\ res[ty][i].state \in {"Stopped", "Failed"} /\ Runs(ty, i)'
             => /\ wl[i] # None
                /\ wl[i].type = ty
                /\ wl[i].desired = "Running"
                /\ wl[i].rev = res[ty][i].rev
<1> DEFINE Started(ty, i) == res[ty][i] # None /\ res[ty][i].state \in {"Stopped", "Failed"} /\ Runs(ty, i)'
           Meant(ty, i) == /\ wl[i] # None
                           /\ wl[i].type = ty
                           /\ wl[i].desired = "Running"
                           /\ wl[i].rev = res[ty][i].rev
<1> SUFFICES ASSUME NEW ty \in WType, NEW i \in WId, Started(ty, i)
             PROVE  Meant(ty, i)
  BY Zenon
<1>1. res \in [WType -> [WId -> Resource \cup {None}]] /\ res[ty][i] \in Resource
  BY DEF TypeInv, StoreTyped
<1>2. res'[ty][i] # None /\ res'[ty][i].state = "Running" /\ "Running" \notin {"Stopped", "Failed"}
  BY SMTT(30) DEF Runs
<1>3. CASE UNCHANGED res
  BY <1>2, <1>3
<1>4. CASE \E tz \in WType : \E j \in WId : Drift(tz, j)
  <2>1. PICK tz \in WType, j \in WId : Drift(tz, j)
    BY <1>4
  <2>2. PICK y \in DriftOutcomes(res[tz][j]) : res' = [res EXCEPT ![tz][j] = y]
    BY <2>1, Zenon DEF Drift
  <2>3. ty = tz /\ i = j /\ res'[ty][i] = y
    <3>1. CASE ty = tz /\ i = j
      BY <1>1, <2>2, <3>1, SMTT(30)
    <3>2. CASE ~(ty = tz /\ i = j)
      <4>1. res'[ty][i] = res[ty][i]
        BY <1>1, <2>2, <3>2, SMTT(30)
      <4> QED BY <1>2, <4>1, SMTT(30)
    <3> QED BY <3>1, <3>2, SMTT(30)
  <2> QED BY <1>1, <1>2, <2>2, <2>3, OnlyStartRuns, ZenonT(40)
<1>5. CASE \E p \in OpProc \cup RecProc : Calls(p)
  <2>1. PICK p \in OpProc \cup RecProc : Calls(p)
    BY <1>5
  <2> DEFINE w == proc[p].wl
             j == proc[p].id
  <2>2. PICK o : /\ SetMine(p, o.res)
                 /\ \/ o \in CreateOutcomes(Mine(p), w)
                    \/ o \in StopOutcomes(Mine(p)) \cup DeleteOutcomes(Mine(p))
                    \/ proc[p].pc \in StartCallPC /\ o \in StartOutcomes(Mine(p))
    BY <2>1, Zenon DEF Calls
  <2>3. proc[p].pc \notin {"idle", "apply_admit"} /\ proc[p].pc # "idle" /\ proc[p].pc # "apply_admit"
    BY <2>1, Zenon DEF Calls
  <2>4. /\ w \in Workload /\ w.type \in WType /\ j \in WId
        /\ Carries(proc[p].pc, w, proc[p].st, wl[j], st[j], crashes)
    BY <2>3, Standing, Zenon
  <2>5. res' = [res EXCEPT ![w.type][j] = o.res] /\ Mine(p) = res[w.type][j]
    BY <2>2, Zenon DEF SetMine, Mine
  <2>6. ty = w.type /\ i = j /\ res'[ty][i] = o.res
    <3> HIDE DEF w, j
    <3>1. CASE ty = w.type /\ i = j
      BY <1>1, <2>4, <2>5, <3>1, SMTT(30)
    <3>2. CASE ~(ty = w.type /\ i = j)
      <4>1. res'[ty][i] = res[ty][i]
        BY <1>1, <2>4, <2>5, <3>2, SMTT(30)
      <4> QED BY <1>2, <4>1, SMTT(30)
    <3> QED BY <3>1, <3>2, SMTT(30)
  <2>7. Mine(p) = res[ty][i]
    BY <2>5, <2>6, ZenonT(40)
  <2>8. proc[p].pc \in StartCallPC
    BY <1>1, <1>2, <2>2, <2>4, <2>6, <2>7, OnlyStartRuns, ZenonT(40)
  <2>9. proc[p].pc \in StartPC /\ proc[p].pc \in AgreePC
    BY <2>8 DEF StartCallPC, StartPC, AgreePC
  <2>10. wl[i] # None /\ wl[i].type = ty /\ wl[i].desired = "Running"
    BY <2>4, <2>6, <2>9, ZenonT(40) DEF Carries
  <2>11. wl[i].rev = res[ty][i].rev
    BY Zenon DEF StoreInv, Kept
  <2> QED BY <2>10, <2>11, ZenonT(40)
<1> QED BY <1>3, <1>4, <1>5, ResourceSteps, Zenon
===============================================================================
