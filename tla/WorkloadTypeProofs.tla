-------------------------- MODULE WorkloadTypeProofs --------------------------
(***************************************************************************)
(* The types of everything the manager keeps, with what each goroutine     *)
(* has at hand where it stands: a workload, a status, a tracker, the       *)
(* volumes it has allocated or has still to free.                          *)
(***************************************************************************)
EXTENDS GarbageCollector, WorkloadInvariants, TLAPS

\* A local state stays one under an assignment to a field.
LEMMA OneField ==
  ASSUME NEW r \in LocalState
  PROVE  /\ \A l \in PC : [r EXCEPT !.pc = l] \in LocalState
         /\ \A w \in Workload \cup {None} : [r EXCEPT !.wl = w] \in LocalState
         /\ \A s \in Status \cup {None} : [r EXCEPT !.st = s] \in LocalState
         /\ \A t \in Tracker \cup {None} : [r EXCEPT !.tr = t] \in LocalState
         /\ \A vs \in Seq(Allocation) : [r EXCEPT !.vols = vs] \in LocalState
         /\ \A n \in PC \cup {None} : [r EXCEPT !.then = n] \in LocalState
         /\ \A i \in WId : [r EXCEPT !.id = i] \in LocalState
         /\ \A w \in Workload : [r EXCEPT !.req = w] \in LocalState
<1>1. ASSUME NEW l \in PC PROVE [r EXCEPT !.pc = l] \in LocalState
  BY <1>1 DEF LocalState, Allocation
<1>2. ASSUME NEW w \in Workload \cup {None} PROVE [r EXCEPT !.wl = w] \in LocalState
  BY <1>2 DEF LocalState, Allocation
<1>3. ASSUME NEW s \in Status \cup {None} PROVE [r EXCEPT !.st = s] \in LocalState
  BY <1>3 DEF LocalState, Allocation
<1>4. ASSUME NEW t \in Tracker \cup {None} PROVE [r EXCEPT !.tr = t] \in LocalState
  BY <1>4 DEF LocalState, Allocation
<1>5. ASSUME NEW vs \in Seq(Allocation) PROVE [r EXCEPT !.vols = vs] \in LocalState
  BY <1>5 DEF LocalState, Allocation
<1>6. ASSUME NEW n \in PC \cup {None} PROVE [r EXCEPT !.then = n] \in LocalState
  BY <1>6 DEF LocalState, Allocation
<1>7. ASSUME NEW i \in WId PROVE [r EXCEPT !.id = i] \in LocalState
  BY <1>7 DEF LocalState, Allocation
<1>8. ASSUME NEW w \in Workload PROVE [r EXCEPT !.req = w] \in LocalState
  BY <1>8, Zenon DEF LocalState, Allocation
<1> QED BY <1>1, <1>2, <1>3, <1>4, <1>5, <1>6, <1>7, <1>8, Zenon

\* The same for several fields.
LEMMA SeveralFields ==
  ASSUME NEW r \in LocalState
  PROVE  /\ \A l \in PC, s \in Status \cup {None} : [r EXCEPT !.pc = l, !.st = s] \in LocalState
         /\ \A l \in PC, n \in PC \cup {None} : [r EXCEPT !.pc = l, !.then = n] \in LocalState
         /\ \A w \in Workload \cup {None}, l \in PC : [r EXCEPT !.wl = w, !.pc = l] \in LocalState
         /\ \A l \in PC, w \in Workload \cup {None} : [r EXCEPT !.pc = l, !.wl = w] \in LocalState
         /\ \A vs \in Seq(Allocation), l \in PC : [r EXCEPT !.vols = vs, !.pc = l] \in LocalState
         /\ \A l \in PC, s \in Status \cup {None}, w \in Workload \cup {None} : [r EXCEPT !.pc = l, !.st = s, !.wl = w] \in LocalState
         /\ \A l \in PC, s \in Status \cup {None}, t \in Tracker \cup {None} : [r EXCEPT !.pc = l, !.st = s, !.tr = t] \in LocalState
         /\ \A vs \in Seq(Allocation), w \in Workload \cup {None}, l \in PC : [r EXCEPT !.vols = vs, !.wl = w, !.pc = l] \in LocalState
         /\ \A l \in PC, vs \in Seq(Allocation), n \in PC \cup {None} : [r EXCEPT !.pc = l, !.vols = vs, !.then = n] \in LocalState
<1>1. ASSUME NEW l \in PC, NEW s \in Status \cup {None}
      PROVE  [r EXCEPT !.pc = l, !.st = s] \in LocalState
  <2>1. [r EXCEPT !.pc = l] \in LocalState
    BY OneField, Zenon
  <2>2. [[r EXCEPT !.pc = l] EXCEPT !.st = s] \in LocalState
    BY <2>1, OneField, Zenon
  <2>3. [r EXCEPT !.pc = l, !.st = s] = [[r EXCEPT !.pc = l] EXCEPT !.st = s]
    OBVIOUS
  <2> QED BY <2>2, <2>3
<1>2. ASSUME NEW l \in PC, NEW n \in PC \cup {None}
      PROVE  [r EXCEPT !.pc = l, !.then = n] \in LocalState
  <2>1. [r EXCEPT !.pc = l] \in LocalState
    BY OneField, Zenon
  <2>2. [[r EXCEPT !.pc = l] EXCEPT !.then = n] \in LocalState
    BY <2>1, OneField, Zenon
  <2>3. [r EXCEPT !.pc = l, !.then = n] = [[r EXCEPT !.pc = l] EXCEPT !.then = n]
    OBVIOUS
  <2> QED BY <2>2, <2>3
<1>3. ASSUME NEW w \in Workload \cup {None}, NEW l \in PC
      PROVE  [r EXCEPT !.wl = w, !.pc = l] \in LocalState
  <2>1. [r EXCEPT !.wl = w] \in LocalState
    BY OneField, Zenon
  <2>2. [[r EXCEPT !.wl = w] EXCEPT !.pc = l] \in LocalState
    BY <2>1, OneField, Zenon
  <2>3. [r EXCEPT !.wl = w, !.pc = l] = [[r EXCEPT !.wl = w] EXCEPT !.pc = l]
    OBVIOUS
  <2> QED BY <2>2, <2>3
<1>4. ASSUME NEW l \in PC, NEW w \in Workload \cup {None}
      PROVE  [r EXCEPT !.pc = l, !.wl = w] \in LocalState
  <2>1. [r EXCEPT !.pc = l] \in LocalState
    BY OneField, Zenon
  <2>2. [[r EXCEPT !.pc = l] EXCEPT !.wl = w] \in LocalState
    BY <2>1, OneField, Zenon
  <2>3. [r EXCEPT !.pc = l, !.wl = w] = [[r EXCEPT !.pc = l] EXCEPT !.wl = w]
    OBVIOUS
  <2> QED BY <2>2, <2>3
<1>5. ASSUME NEW vs \in Seq(Allocation), NEW l \in PC
      PROVE  [r EXCEPT !.vols = vs, !.pc = l] \in LocalState
  <2>1. [r EXCEPT !.vols = vs] \in LocalState
    BY OneField, Zenon
  <2>2. [[r EXCEPT !.vols = vs] EXCEPT !.pc = l] \in LocalState
    BY <2>1, OneField, Zenon
  <2>3. [r EXCEPT !.vols = vs, !.pc = l] = [[r EXCEPT !.vols = vs] EXCEPT !.pc = l]
    OBVIOUS
  <2> QED BY <2>2, <2>3
<1>6. ASSUME NEW l \in PC, NEW s \in Status \cup {None}, NEW w \in Workload \cup {None}
      PROVE  [r EXCEPT !.pc = l, !.st = s, !.wl = w] \in LocalState
  <2>1. [r EXCEPT !.pc = l] \in LocalState
    BY OneField, Zenon
  <2>2. [[r EXCEPT !.pc = l] EXCEPT !.st = s] \in LocalState
    BY <2>1, OneField, Zenon
  <2>3. [[[r EXCEPT !.pc = l] EXCEPT !.st = s] EXCEPT !.wl = w] \in LocalState
    BY <2>2, OneField, Zenon
  <2>4. [r EXCEPT !.pc = l, !.st = s, !.wl = w] = [[[r EXCEPT !.pc = l] EXCEPT !.st = s] EXCEPT !.wl = w]
    OBVIOUS
  <2> QED BY <2>3, <2>4
<1>7. ASSUME NEW l \in PC, NEW s \in Status \cup {None}, NEW t \in Tracker \cup {None}
      PROVE  [r EXCEPT !.pc = l, !.st = s, !.tr = t] \in LocalState
  <2>1. [r EXCEPT !.pc = l] \in LocalState
    BY OneField, Zenon
  <2>2. [[r EXCEPT !.pc = l] EXCEPT !.st = s] \in LocalState
    BY <2>1, OneField, Zenon
  <2>3. [[[r EXCEPT !.pc = l] EXCEPT !.st = s] EXCEPT !.tr = t] \in LocalState
    BY <2>2, OneField, Zenon
  <2>4. [r EXCEPT !.pc = l, !.st = s, !.tr = t] = [[[r EXCEPT !.pc = l] EXCEPT !.st = s] EXCEPT !.tr = t]
    OBVIOUS
  <2> QED BY <2>3, <2>4
<1>8. ASSUME NEW vs \in Seq(Allocation), NEW w \in Workload \cup {None}, NEW l \in PC
      PROVE  [r EXCEPT !.vols = vs, !.wl = w, !.pc = l] \in LocalState
  <2>1. [r EXCEPT !.vols = vs] \in LocalState
    BY OneField, Zenon
  <2>2. [[r EXCEPT !.vols = vs] EXCEPT !.wl = w] \in LocalState
    BY <2>1, OneField, Zenon
  <2>3. [[[r EXCEPT !.vols = vs] EXCEPT !.wl = w] EXCEPT !.pc = l] \in LocalState
    BY <2>2, OneField, Zenon
  <2>4. [r EXCEPT !.vols = vs, !.wl = w, !.pc = l] = [[[r EXCEPT !.vols = vs] EXCEPT !.wl = w] EXCEPT !.pc = l]
    OBVIOUS
  <2> QED BY <2>3, <2>4
<1>9. ASSUME NEW l \in PC, NEW vs \in Seq(Allocation), NEW n \in PC \cup {None}
      PROVE  [r EXCEPT !.pc = l, !.vols = vs, !.then = n] \in LocalState
  <2>1. [r EXCEPT !.pc = l] \in LocalState
    BY OneField, Zenon
  <2>2. [[r EXCEPT !.pc = l] EXCEPT !.vols = vs] \in LocalState
    BY <2>1, OneField, Zenon
  <2>3. [[[r EXCEPT !.pc = l] EXCEPT !.vols = vs] EXCEPT !.then = n] \in LocalState
    BY <2>2, OneField, Zenon
  <2>4. [r EXCEPT !.pc = l, !.vols = vs, !.then = n] = [[[r EXCEPT !.pc = l] EXCEPT !.vols = vs] EXCEPT !.then = n]
    OBVIOUS
  <2> QED BY <2>3, <2>4
<1> QED BY <1>1, <1>2, <1>3, <1>4, <1>5, <1>6, <1>7, <1>8, <1>9, Zenon

\* Goroutine p alone moves: it goes on at l with these local variables.
Turned(p, l, w, s, t, vs, n) ==
  /\ proc' \in [Proc -> LocalState]
  /\ \A q \in Proc \ {p} : proc'[q] = proc[q]
  /\ proc'[p].pc = l /\ proc'[p].id = proc[p].id /\ proc'[p].req = proc[p].req
  /\ proc'[p].wl = w /\ proc'[p].st = s /\ proc'[p].tr = t
  /\ proc'[p].vols = vs /\ proc'[p].then = n

\* The field by field view of a step that moves one goroutine.
LEMMA Turn ==
  ASSUME proc \in [Proc -> LocalState], NEW p \in Proc, NEW r \in LocalState,
         r.id = proc[p].id, r.req = proc[p].req, proc' = [proc EXCEPT ![p] = r]
  PROVE  Turned(p, r.pc, r.wl, r.st, r.tr, r.vols, r.then)
BY DEF Turned

\* A multiple EXCEPT on one goroutine is the assignment of a new record.
LEMMA OneRecord ==
  ASSUME NEW S, NEW f, f = [q \in S |-> f[q]], NEW p \in S, NEW a, NEW b, NEW c
  PROVE  /\ [f EXCEPT ![p].pc = a, ![p].st = b] = [f EXCEPT ![p] = [f[p] EXCEPT !.pc = a, !.st = b]]
         /\ [f EXCEPT ![p].pc = a, ![p].then = b] = [f EXCEPT ![p] = [f[p] EXCEPT !.pc = a, !.then = b]]
         /\ [f EXCEPT ![p].pc = a, ![p].wl = b] = [f EXCEPT ![p] = [f[p] EXCEPT !.pc = a, !.wl = b]]
         /\ [f EXCEPT ![p].wl = a, ![p].pc = b] = [f EXCEPT ![p] = [f[p] EXCEPT !.wl = a, !.pc = b]]
         /\ [f EXCEPT ![p].vols = a, ![p].pc = b] = [f EXCEPT ![p] = [f[p] EXCEPT !.vols = a, !.pc = b]]
         /\ [f EXCEPT ![p].pc = a, ![p].st = b, ![p].wl = c] =
              [f EXCEPT ![p] = [f[p] EXCEPT !.pc = a, !.st = b, !.wl = c]]
         /\ [f EXCEPT ![p].pc = a, ![p].st = b, ![p].tr = c] =
              [f EXCEPT ![p] = [f[p] EXCEPT !.pc = a, !.st = b, !.tr = c]]
         /\ [f EXCEPT ![p].vols = a, ![p].wl = b, ![p].pc = c] =
              [f EXCEPT ![p] = [f[p] EXCEPT !.vols = a, !.wl = b, !.pc = c]]
         /\ [f EXCEPT ![p].pc = a, ![p].vols = b, ![p].then = c] =
              [f EXCEPT ![p] = [f[p] EXCEPT !.pc = a, !.vols = b, !.then = c]]
BY Zenon

\* The same for each way an action has to move its goroutine.
LEMMA Turns ==
  ASSUME proc \in [Proc -> LocalState], NEW p \in Proc
  PROVE  /\ \A l \in PC :
              proc' = [proc EXCEPT ![p].pc = l]
                => Turned(p, l, proc[p].wl, proc[p].st, proc[p].tr, proc[p].vols, proc[p].then)
         /\ \A l \in PC, s \in Status \cup {None} :
              proc' = [proc EXCEPT ![p].pc = l, ![p].st = s]
                => Turned(p, l, proc[p].wl, s, proc[p].tr, proc[p].vols, proc[p].then)
         /\ \A l \in PC, n \in PC \cup {None} :
              proc' = [proc EXCEPT ![p].pc = l, ![p].then = n]
                => Turned(p, l, proc[p].wl, proc[p].st, proc[p].tr, proc[p].vols, n)
         /\ \A w \in Workload \cup {None}, l \in PC :
              proc' = [proc EXCEPT ![p].wl = w, ![p].pc = l]
                => Turned(p, l, w, proc[p].st, proc[p].tr, proc[p].vols, proc[p].then)
         /\ \A l \in PC, w \in Workload \cup {None} :
              proc' = [proc EXCEPT ![p].pc = l, ![p].wl = w]
                => Turned(p, l, w, proc[p].st, proc[p].tr, proc[p].vols, proc[p].then)
         /\ \A vs \in Seq(Allocation), l \in PC :
              proc' = [proc EXCEPT ![p].vols = vs, ![p].pc = l]
                => Turned(p, l, proc[p].wl, proc[p].st, proc[p].tr, vs, proc[p].then)
         /\ \A l \in PC, s \in Status \cup {None}, w \in Workload \cup {None} :
              proc' = [proc EXCEPT ![p].pc = l, ![p].st = s, ![p].wl = w]
                => Turned(p, l, w, s, proc[p].tr, proc[p].vols, proc[p].then)
         /\ \A l \in PC, s \in Status \cup {None}, t \in Tracker \cup {None} :
              proc' = [proc EXCEPT ![p].pc = l, ![p].st = s, ![p].tr = t]
                => Turned(p, l, proc[p].wl, s, t, proc[p].vols, proc[p].then)
         /\ \A vs \in Seq(Allocation), w \in Workload \cup {None}, l \in PC :
              proc' = [proc EXCEPT ![p].vols = vs, ![p].wl = w, ![p].pc = l]
                => Turned(p, l, w, proc[p].st, proc[p].tr, vs, proc[p].then)
         /\ \A l \in PC, vs \in Seq(Allocation), n \in PC \cup {None} :
              proc' = [proc EXCEPT ![p].pc = l, ![p].vols = vs, ![p].then = n]
                => Turned(p, l, proc[p].wl, proc[p].st, proc[p].tr, vs, n)
<1>0. proc[p] \in LocalState /\ proc = [q \in Proc |-> proc[q]]
  OBVIOUS
<1>1. ASSUME NEW l \in PC,
             proc' = [proc EXCEPT ![p].pc = l]
      PROVE  Turned(p, l, proc[p].wl, proc[p].st, proc[p].tr, proc[p].vols, proc[p].then)
  <2> DEFINE r == [proc[p] EXCEPT !.pc = l]
  <2>1. r \in LocalState
    BY <1>0, OneField
  <2>2. /\ r.id = proc[p].id /\ r.req = proc[p].req /\ r.pc = l /\ r.wl = proc[p].wl
        /\ r.st = proc[p].st /\ r.tr = proc[p].tr /\ r.vols = proc[p].vols /\ r.then = proc[p].then
    BY <1>0 DEF LocalState
  <2>3. proc' = [proc EXCEPT ![p] = r]
    BY <1>0, <1>1
  <2> HIDE DEF r
  <2> QED BY <2>1, <2>2, <2>3, Turn, Zenon
<1>2. ASSUME NEW l \in PC, NEW s \in Status \cup {None},
             proc' = [proc EXCEPT ![p].pc = l, ![p].st = s]
      PROVE  Turned(p, l, proc[p].wl, s, proc[p].tr, proc[p].vols, proc[p].then)
  <2> DEFINE r == [proc[p] EXCEPT !.pc = l, !.st = s]
  <2>1. r \in LocalState
    BY <1>0, SeveralFields, Zenon
  <2>2. /\ r.id = proc[p].id /\ r.req = proc[p].req /\ r.pc = l /\ r.wl = proc[p].wl
        /\ r.st = s /\ r.tr = proc[p].tr /\ r.vols = proc[p].vols /\ r.then = proc[p].then
    BY <1>0 DEF LocalState
  <2>3. proc' = [proc EXCEPT ![p] = r]
    BY <1>0, <1>2, OneRecord, ZenonT(30)
  <2> HIDE DEF r
  <2> QED BY <2>1, <2>2, <2>3, Turn, Zenon
<1>3. ASSUME NEW l \in PC, NEW n \in PC \cup {None},
             proc' = [proc EXCEPT ![p].pc = l, ![p].then = n]
      PROVE  Turned(p, l, proc[p].wl, proc[p].st, proc[p].tr, proc[p].vols, n)
  <2> DEFINE r == [proc[p] EXCEPT !.pc = l, !.then = n]
  <2>1. r \in LocalState
    BY <1>0, SeveralFields, Zenon
  <2>2. /\ r.id = proc[p].id /\ r.req = proc[p].req /\ r.pc = l /\ r.wl = proc[p].wl
        /\ r.st = proc[p].st /\ r.tr = proc[p].tr /\ r.vols = proc[p].vols /\ r.then = n
    BY <1>0 DEF LocalState
  <2>3. proc' = [proc EXCEPT ![p] = r]
    BY <1>0, <1>3, OneRecord, ZenonT(30)
  <2> HIDE DEF r
  <2> QED BY <2>1, <2>2, <2>3, Turn, Zenon
<1>4. ASSUME NEW w \in Workload \cup {None}, NEW l \in PC,
             proc' = [proc EXCEPT ![p].wl = w, ![p].pc = l]
      PROVE  Turned(p, l, w, proc[p].st, proc[p].tr, proc[p].vols, proc[p].then)
  <2> DEFINE r == [proc[p] EXCEPT !.wl = w, !.pc = l]
  <2>1. r \in LocalState
    BY <1>0, SeveralFields, Zenon
  <2>2. /\ r.id = proc[p].id /\ r.req = proc[p].req /\ r.pc = l /\ r.wl = w
        /\ r.st = proc[p].st /\ r.tr = proc[p].tr /\ r.vols = proc[p].vols /\ r.then = proc[p].then
    BY <1>0 DEF LocalState
  <2>3. proc' = [proc EXCEPT ![p] = r]
    BY <1>0, <1>4, OneRecord, ZenonT(30)
  <2> HIDE DEF r
  <2> QED BY <2>1, <2>2, <2>3, Turn, Zenon
<1>5. ASSUME NEW l \in PC, NEW w \in Workload \cup {None},
             proc' = [proc EXCEPT ![p].pc = l, ![p].wl = w]
      PROVE  Turned(p, l, w, proc[p].st, proc[p].tr, proc[p].vols, proc[p].then)
  <2> DEFINE r == [proc[p] EXCEPT !.pc = l, !.wl = w]
  <2>1. r \in LocalState
    BY <1>0, SeveralFields, Zenon
  <2>2. /\ r.id = proc[p].id /\ r.req = proc[p].req /\ r.pc = l /\ r.wl = w
        /\ r.st = proc[p].st /\ r.tr = proc[p].tr /\ r.vols = proc[p].vols /\ r.then = proc[p].then
    BY <1>0 DEF LocalState
  <2>3. proc' = [proc EXCEPT ![p] = r]
    BY <1>0, <1>5, OneRecord, ZenonT(40)
  <2> HIDE DEF r
  <2> QED BY <2>1, <2>2, <2>3, Turn, Zenon
<1>6. ASSUME NEW vs \in Seq(Allocation), NEW l \in PC,
             proc' = [proc EXCEPT ![p].vols = vs, ![p].pc = l]
      PROVE  Turned(p, l, proc[p].wl, proc[p].st, proc[p].tr, vs, proc[p].then)
  <2> DEFINE r == [proc[p] EXCEPT !.vols = vs, !.pc = l]
  <2>1. r \in LocalState
    BY <1>0, SeveralFields, Zenon
  <2>2. /\ r.id = proc[p].id /\ r.req = proc[p].req /\ r.pc = l /\ r.wl = proc[p].wl
        /\ r.st = proc[p].st /\ r.tr = proc[p].tr /\ r.vols = vs /\ r.then = proc[p].then
    BY <1>0 DEF LocalState
  <2>3. proc' = [proc EXCEPT ![p] = r]
    BY <1>0, <1>6, OneRecord, ZenonT(40)
  <2> HIDE DEF r
  <2> QED BY <2>1, <2>2, <2>3, Turn, Zenon
<1>7. ASSUME NEW l \in PC, NEW s \in Status \cup {None}, NEW w \in Workload \cup {None},
             proc' = [proc EXCEPT ![p].pc = l, ![p].st = s, ![p].wl = w]
      PROVE  Turned(p, l, w, s, proc[p].tr, proc[p].vols, proc[p].then)
  <2> DEFINE r == [proc[p] EXCEPT !.pc = l, !.st = s, !.wl = w]
  <2>1. r \in LocalState
    BY <1>0, SeveralFields, Zenon
  <2>2. /\ r.id = proc[p].id /\ r.req = proc[p].req /\ r.pc = l /\ r.wl = w
        /\ r.st = s /\ r.tr = proc[p].tr /\ r.vols = proc[p].vols /\ r.then = proc[p].then
    BY <1>0 DEF LocalState
  <2>3. proc' = [proc EXCEPT ![p] = r]
    BY <1>0, <1>7, OneRecord, ZenonT(30)
  <2> HIDE DEF r
  <2> QED BY <2>1, <2>2, <2>3, Turn, Zenon
<1>8. ASSUME NEW l \in PC, NEW s \in Status \cup {None}, NEW t \in Tracker \cup {None},
             proc' = [proc EXCEPT ![p].pc = l, ![p].st = s, ![p].tr = t]
      PROVE  Turned(p, l, proc[p].wl, s, t, proc[p].vols, proc[p].then)
  <2> DEFINE r == [proc[p] EXCEPT !.pc = l, !.st = s, !.tr = t]
  <2>1. r \in LocalState
    BY <1>0, SeveralFields, Zenon
  <2>2. /\ r.id = proc[p].id /\ r.req = proc[p].req /\ r.pc = l /\ r.wl = proc[p].wl
        /\ r.st = s /\ r.tr = t /\ r.vols = proc[p].vols /\ r.then = proc[p].then
    BY <1>0 DEF LocalState
  <2>3. proc' = [proc EXCEPT ![p] = r]
    BY <1>0, <1>8, OneRecord, ZenonT(40)
  <2> HIDE DEF r
  <2> QED BY <2>1, <2>2, <2>3, Turn, Zenon
<1>9. ASSUME NEW vs \in Seq(Allocation), NEW w \in Workload \cup {None}, NEW l \in PC,
             proc' = [proc EXCEPT ![p].vols = vs, ![p].wl = w, ![p].pc = l]
      PROVE  Turned(p, l, w, proc[p].st, proc[p].tr, vs, proc[p].then)
  <2> DEFINE r == [proc[p] EXCEPT !.vols = vs, !.wl = w, !.pc = l]
  <2>1. r \in LocalState
    BY <1>0, SeveralFields, Zenon
  <2>2. /\ r.id = proc[p].id /\ r.req = proc[p].req /\ r.pc = l /\ r.wl = w
        /\ r.st = proc[p].st /\ r.tr = proc[p].tr /\ r.vols = vs /\ r.then = proc[p].then
    BY <1>0 DEF LocalState
  <2>3. proc' = [proc EXCEPT ![p] = r]
    BY <1>0, <1>9, OneRecord, ZenonT(30)
  <2> HIDE DEF r
  <2> QED BY <2>1, <2>2, <2>3, Turn, Zenon
<1>10. ASSUME NEW l \in PC, NEW vs \in Seq(Allocation), NEW n \in PC \cup {None},
             proc' = [proc EXCEPT ![p].pc = l, ![p].vols = vs, ![p].then = n]
      PROVE  Turned(p, l, proc[p].wl, proc[p].st, proc[p].tr, vs, n)
  <2> DEFINE r == [proc[p] EXCEPT !.pc = l, !.vols = vs, !.then = n]
  <2>1. r \in LocalState
    BY <1>0, SeveralFields, Zenon
  <2>2. /\ r.id = proc[p].id /\ r.req = proc[p].req /\ r.pc = l /\ r.wl = proc[p].wl
        /\ r.st = proc[p].st /\ r.tr = proc[p].tr /\ r.vols = vs /\ r.then = n
    BY <1>0 DEF LocalState
  <2>3. proc' = [proc EXCEPT ![p] = r]
    BY <1>0, <1>10, OneRecord, ZenonT(30)
  <2> HIDE DEF r
  <2> QED BY <2>1, <2>2, <2>3, Turn, Zenon
<1> QED BY <1>1, <1>2, <1>3, <1>4, <1>5, <1>6, <1>7, <1>8, <1>9, <1>10, Zenon

\* What the calls of a runtime leave behind is a resource or nothing.
LEMMA OutcomeTypes ==
  ASSUME NEW r \in Resource \cup {None}
  PROVE  /\ \A w \in Workload : \A o \in CreateOutcomes(r, w) : o.res \in Resource \cup {None}
         /\ \A o \in StartOutcomes(r) : o.res \in Resource \cup {None}
         /\ \A o \in StopOutcomes(r) : o.res \in Resource \cup {None}
         /\ \A o \in DeleteOutcomes(r) : o.res \in Resource \cup {None}
         /\ r # None => \A x \in DriftOutcomes(r) : x \in Resource \cup {None}
<1>1. \A w \in Workload : \A o \in CreateOutcomes(r, w) : o.res \in Resource \cup {None}
  BY DEF CreateOutcomes, ensureContainerReadyForCreate, pullImageWithRetry, Faulty, Outcome,
     Resource, ResourceState, Workload
<1>2. ASSUME r # None, NEW s \in ResourceState
      PROVE  [r EXCEPT !.state = s] \in Resource
  BY <1>2 DEF Resource
<1>3. r # None => \A h \in Halted(r) : h \in Resource
  BY <1>2 DEF Halted, ResourceState
<1>4. \A o \in StartOutcomes(r) : o.res \in Resource \cup {None}
  BY <1>2 DEF StartOutcomes, Faulty, Outcome, ResourceState
<1>5. \A o \in StopOutcomes(r) : o.res \in Resource \cup {None}
  BY <1>3 DEF StopOutcomes, Faulty, Outcome
<1>6. \A o \in DeleteOutcomes(r) : o.res \in Resource \cup {None}
  BY <1>3 DEF DeleteOutcomes, Faulty, Outcome
<1>7. r # None => \A x \in DriftOutcomes(r) : x \in Resource \cup {None}
  <2> SUFFICES ASSUME r # None, NEW x \in DriftOutcomes(r), x # None PROVE x \in Resource
    OBVIOUS
  <2>1. r.state \in ResourceState
    BY DEF Resource
  <2>2. PICK s \in ResourceState : x = [r EXCEPT !.state = s]
    BY <2>1 DEF DriftOutcomes, ResourceState
  <2> QED BY <1>2, <2>2
<1> QED BY <1>1, <1>4, <1>5, <1>6, <1>7

\* What a status query answers.
LEMMA AnswerTypes ==
  ASSUME NEW r \in Resource \cup {None}
  PROVE  /\ \A a \in StatusOutcomes(r) : a \in Actual \cup {"error"}
         /\ SoftStatus(r) \subseteq Actual
BY Zenon DEF StatusOutcomes, SoftStatus, Faulty, Resource, ResourceState, Actual

\* What is done to a status leaves it one.
LEMMA StatusTypes ==
  ASSUME NEW s \in Status
  PROVE  /\ \A a \in Actual : [s EXCEPT !.actual = a] \in Status
         /\ \A b \in BOOLEAN : [s EXCEPT !.terminal = b] \in Status
         /\ \A c \in {"none", "recent", "old"} : [s EXCEPT !.pendingSince = c] \in Status
         /\ \A d \in {"recent", "old"} : [s EXCEPT !.age = d] \in Status
         /\ \A a \in Actual, b \in BOOLEAN : [s EXCEPT !.actual = a, !.terminal = b] \in Status
         /\ \A e \in Rev, f \in Desired : [s EXCEPT !.rev = e, !.desired = f] \in Status
         /\ \A e \in Rev, f \in Desired, a \in Actual :
              [s EXCEPT !.rev = e, !.desired = f, !.actual = a] \in Status
<1>1. ASSUME NEW x \in Status
      PROVE  /\ \A a \in Actual : [x EXCEPT !.actual = a] \in Status
             /\ \A b \in BOOLEAN : [x EXCEPT !.terminal = b] \in Status
             /\ \A c \in {"none", "recent", "old"} : [x EXCEPT !.pendingSince = c] \in Status
             /\ \A d \in {"recent", "old"} : [x EXCEPT !.age = d] \in Status
             /\ \A e \in Rev : [x EXCEPT !.rev = e] \in Status
             /\ \A f \in Desired : [x EXCEPT !.desired = f] \in Status
  <2>1. ASSUME NEW a \in Actual PROVE [x EXCEPT !.actual = a] \in Status
    BY DEF Status
  <2>2. ASSUME NEW b \in BOOLEAN PROVE [x EXCEPT !.terminal = b] \in Status
    BY DEF Status
  <2>3. ASSUME NEW c \in {"none", "recent", "old"} PROVE [x EXCEPT !.pendingSince = c] \in Status
    BY DEF Status
  <2>4. ASSUME NEW d \in {"recent", "old"} PROVE [x EXCEPT !.age = d] \in Status
    BY DEF Status
  <2>5. ASSUME NEW e \in Rev PROVE [x EXCEPT !.rev = e] \in Status
    BY DEF Status
  <2>6. ASSUME NEW f \in Desired PROVE [x EXCEPT !.desired = f] \in Status
    BY DEF Status
  <2> QED BY <2>1, <2>2, <2>3, <2>4, <2>5, <2>6, Zenon
<1>2. ASSUME NEW a \in Actual, NEW b \in BOOLEAN
      PROVE  [s EXCEPT !.actual = a, !.terminal = b] \in Status
  <2>1. [[s EXCEPT !.actual = a] EXCEPT !.terminal = b] \in Status
    BY <1>1, Zenon
  <2>2. [s EXCEPT !.actual = a, !.terminal = b] = [[s EXCEPT !.actual = a] EXCEPT !.terminal = b]
    OBVIOUS
  <2> QED BY <2>1, <2>2
<1>3. ASSUME NEW e \in Rev, NEW f \in Desired, NEW a \in Actual
      PROVE  /\ [s EXCEPT !.rev = e, !.desired = f] \in Status
             /\ [s EXCEPT !.rev = e, !.desired = f, !.actual = a] \in Status
  <2>1. [[s EXCEPT !.rev = e] EXCEPT !.desired = f] \in Status
    BY <1>1, Zenon
  <2>2. [[[s EXCEPT !.rev = e] EXCEPT !.desired = f] EXCEPT !.actual = a] \in Status
    BY <1>1, <2>1, Zenon
  <2>3. /\ [s EXCEPT !.rev = e, !.desired = f] = [[s EXCEPT !.rev = e] EXCEPT !.desired = f]
        /\ [s EXCEPT !.rev = e, !.desired = f, !.actual = a] =
             [[[s EXCEPT !.rev = e] EXCEPT !.desired = f] EXCEPT !.actual = a]
    OBVIOUS
  <2> QED BY <2>1, <2>2, <2>3
<1>4. Actual # {}
  BY Zenon DEF Actual
<1>5. \A e \in Rev, f \in Desired : [s EXCEPT !.rev = e, !.desired = f] \in Status
  BY <1>3, <1>4, Zenon
<1> QED BY <1>1, <1>2, <1>3, <1>5, Zenon

\* A status made from scratch.
LEMMA NewStatusType ==
  ASSUME NEW w \in Workload, NEW a \in Actual
  PROVE  NewStatus(w, a) \in Status
BY DEF NewStatus, Status, Workload

\* A recorded failure leaves a tracker.
LEMMA TrackerTypes ==
  ASSUME NEW t \in Tracker
  PROVE  /\ \A reason : RecordFailure(t, reason).tracker \in Tracker
         /\ \A reason : RecordFailure(t, reason).retryable \in BOOLEAN
         /\ [t EXCEPT !.waiting = FALSE] \in Tracker
         /\ NewRetryTracker \in Tracker
<1>1. AttemptCap \in Nat /\ t.attempts \in 0 .. AttemptCap /\ t.waiting \in BOOLEAN
  BY PolicyAssumption DEF AttemptCap, Tracker
<1>2. ASSUME NEW reason
      PROVE  RecordFailure(t, reason).tracker \in Tracker /\ RecordFailure(t, reason).retryable \in BOOLEAN
  <2> DEFINE attemptNum == t.attempts + 1
             retryable == ShouldRetry(reason, attemptNum)
             later == calculateNextDelay(attemptNum) > 0
  <2>1. retryable \in BOOLEAN /\ later \in BOOLEAN
    BY DEF ShouldRetry
  <2>2. /\ RecordFailure(t, reason).retryable = retryable
        /\ RecordFailure(t, reason).tracker =
             [attempts |-> IF attemptNum > AttemptCap THEN AttemptCap ELSE attemptNum,
              waiting |-> IF retryable THEN later ELSE t.waiting]
    BY DEF RecordFailure
  <2>3. (IF attemptNum > AttemptCap THEN AttemptCap ELSE attemptNum) \in 0 .. AttemptCap
    BY <1>1
  <2> HIDE DEF attemptNum, retryable, later
  <2>4. (IF retryable THEN later ELSE t.waiting) \in BOOLEAN
    BY <1>1, <2>1
  <2> QED BY <2>1, <2>2, <2>3, <2>4 DEF Tracker
<1>3. [t EXCEPT !.waiting = FALSE] \in Tracker
  BY Zenon DEF Tracker
<1>4. NewRetryTracker \in Tracker
  BY <1>1 DEF NewRetryTracker, Tracker
<1> QED BY <1>2, <1>3, <1>4

\* What the providers and the store do to a volume leaves it one.
LEMMA VolumeTypes ==
  ASSUME NEW v \in Vol, NEW x \in Volume(WId), NEW i \in WId
  PROVE  /\ \A o \in Provision(v, x) \cup Attach(v, x, i) \cup Detach(v, x, i) \cup Destroy(v, x) :
              o.vol \in Volume(WId)
         /\ \A policy \in {"delete", "retain"} : SaveVolume(x, policy) \in Volume(WId)
         /\ DeleteVolume(x) \in Volume(WId)
         /\ SaveAttachment(x, i) \in Volume(WId)
         /\ DeleteAttachment(x, i) \in Volume(WId)
<1>1. DriverOf[v] \in {"local", "nfs", "ceph-rbd", "unknown"}
  BY VolumeAssumption
<1>2. ASSUME NEW b \in BOOLEAN, NEW s \in SUBSET WId, NEW policy \in {"none", "delete", "retain"}
      PROVE  /\ [x EXCEPT !.dir = b] \in Volume(WId)
             /\ [x EXCEPT !.stage = s] \in Volume(WId)
             /\ [x EXCEPT !.rec = policy] \in Volume(WId)
             /\ [x EXCEPT !.att = s] \in Volume(WId)
  <2>1. [x EXCEPT !.dir = b] \in Volume(WId)
    BY DEF Volume
  <2>2. [x EXCEPT !.stage = s] \in Volume(WId)
    BY DEF Volume
  <2>3. [x EXCEPT !.rec = policy] \in Volume(WId)
    BY DEF Volume
  <2>4. [x EXCEPT !.att = s] \in Volume(WId)
    BY DEF Volume
  <2> QED BY <2>1, <2>2, <2>3, <2>4
<1>3. x.stage \in SUBSET WId /\ x.att \in SUBSET WId /\ x.rec \in {"none", "delete", "retain"}
  BY DEF Volume
<1> DEFINE made == [x EXCEPT !.dir = TRUE]
           removed == [x EXCEPT !.dir = FALSE]
           staged == [x EXCEPT !.stage = @ \cup {i}]
           unstaged == [x EXCEPT !.stage = @ \ {i}]
<1>4. \A o \in Provision(v, x) \cup Attach(v, x, i) \cup Detach(v, x, i) \cup Destroy(v, x) :
        o.vol \in {x, made, removed, staged, unstaged}
  <2>1. ASSUME NEW o \in Provision(v, x) PROVE o.vol \in {x, made}
    BY <1>1 DEF Provision, ResolveProvider, StorageProviders, LocalProvision, NFSProvision,
       CephRBDProvision, Done, VolumeFault
  <2>2. ASSUME NEW o \in Attach(v, x, i) PROVE o.vol \in {x, staged}
    BY <1>1 DEF Attach, ResolveProvider, StorageProviders, LocalAttach, NFSAttach,
       CephRBDAttach, Done, VolumeFault
  <2>3. ASSUME NEW o \in Detach(v, x, i) PROVE o.vol \in {x, unstaged}
    BY <1>1 DEF Detach, ResolveProvider, StorageProviders, LocalDetach, NFSDetach,
       CephRBDDetach, Done, VolumeFault
  <2>4. ASSUME NEW o \in Destroy(v, x) PROVE o.vol \in {x, removed}
    BY <1>1 DEF Destroy, ResolveProvider, StorageProviders, LocalDelete, NFSDelete,
       CephRBDDelete, Done, VolumeFault
  <2> HIDE DEF made, removed, staged, unstaged
  <2> QED BY <2>1, <2>2, <2>3, <2>4, Zenon
<1>5. {made, removed, staged, unstaged} \subseteq Volume(WId)
  BY <1>2, <1>3, Zenon
<1> HIDE DEF made, removed, staged, unstaged
<1>6. /\ \A policy \in {"delete", "retain"} : SaveVolume(x, policy) \in Volume(WId)
      /\ DeleteVolume(x) \in Volume(WId)
  BY <1>2, <1>3, Zenon DEF SaveVolume, DeleteVolume
<1>7. SaveAttachment(x, i) \in Volume(WId) /\ DeleteAttachment(x, i) \in Volume(WId)
  BY <1>2, <1>3, Zenon DEF SaveAttachment, DeleteAttachment
<1> QED BY <1>4, <1>5, <1>6, <1>7

\* The writes of the actions keep the types.
LEMMA WriteTypes ==
  ASSUME StoreTyped, NEW i \in WId
  PROVE  /\ \A w \in Workload : \A ok : SaveWorkload(i, w, ok) => wl' \in [WId -> Workload \cup {None}]
         /\ \A s \in Status : \A ok : SaveStatus(i, s, ok) => st' \in [WId -> Status \cup {None}]
         /\ \A t \in Tracker \cup {None} : SetTracker(i, t) => tracker' \in [WId -> Tracker \cup {None}]
         /\ \A ty \in WType, r \in Resource \cup {None} :
              res' = [res EXCEPT ![ty][i] = r] => res' \in [WType -> [WId -> Resource \cup {None}]]
         /\ \A v \in Vol, x \in Volume(WId) : SetVolume(v, x) => vol' \in [Vol -> Volume(WId)]
         /\ \A q \in Proc \cup {None} : lock' = [lock EXCEPT ![i] = q] => lock' \in [WId -> Proc \cup {None}]
         /\ DeleteRecords(i) => /\ wl' \in [WId -> Workload \cup {None}]
                                /\ st' \in [WId -> Status \cup {None}]
                                /\ vol' \in [Vol -> Volume(WId)]
<1>1. ASSUME NEW w \in Workload, NEW ok, SaveWorkload(i, w, ok) PROVE wl' \in [WId -> Workload \cup {None}]
  BY <1>1 DEF SaveWorkload, StoreTyped
<1>2. ASSUME NEW s \in Status, NEW ok, SaveStatus(i, s, ok) PROVE st' \in [WId -> Status \cup {None}]
  <2>1. [s EXCEPT !.age = "recent"] \in Status
    BY StatusTypes, Zenon
  <2> QED BY <1>2, <2>1 DEF SaveStatus, StoreTyped
<1>3. ASSUME NEW t \in Tracker \cup {None}, SetTracker(i, t) PROVE tracker' \in [WId -> Tracker \cup {None}]
  BY <1>3 DEF SetTracker, StoreTyped
<1>4. ASSUME NEW ty \in WType, NEW r \in Resource \cup {None}, res' = [res EXCEPT ![ty][i] = r]
      PROVE  res' \in [WType -> [WId -> Resource \cup {None}]]
  BY <1>4 DEF StoreTyped
<1>5. ASSUME NEW v \in Vol, NEW x \in Volume(WId), SetVolume(v, x) PROVE vol' \in [Vol -> Volume(WId)]
  BY <1>5 DEF SetVolume, StoreTyped
<1>6. ASSUME NEW q \in Proc \cup {None}, lock' = [lock EXCEPT ![i] = q] PROVE lock' \in [WId -> Proc \cup {None}]
  BY <1>6 DEF StoreTyped
<1>7. ASSUME DeleteRecords(i)
      PROVE  /\ wl' \in [WId -> Workload \cup {None}]
             /\ st' \in [WId -> Status \cup {None}]
             /\ vol' \in [Vol -> Volume(WId)]
  <2>1. \A v \in Vol : DeleteAttachment(vol[v], i) \in Volume(WId)
    BY VolumeTypes, Zenon DEF StoreTyped
  <2> QED BY <1>7, <2>1 DEF DeleteRecords, StoreTyped
<1> QED BY <1>1, <1>2, <1>3, <1>4, <1>5, <1>6, <1>7

\* What a goroutine holds at a is enough for l, a status apart.
Follows(a, l) ==
  /\ l \in PC /\ a # "idle"
  /\ l \in {"apply_status", "apply_admit"} => a \in {"apply_status", "apply_admit"}
  /\ l \notin {"idle", "apply_admit", "get_workload"} => a \notin {"apply_admit", "get_workload"}
  /\ l # "rec_start"
  /\ l \in AllocatePC => a \in AllocatePC
  /\ l \in EarlyPC => a \in EarlyPC
  /\ l \in FreePC => a \in FreePC

\* A goroutine turns to where it holds what it needs, and the others stay.
LEMMA TurnedTyped ==
  ASSUME ProcTyped, NEW p \in Proc, NEW l, NEW w, NEW s, NEW t, NEW vs, NEW n,
         Turned(p, l, w, s, t, vs, n), Held(proc'[p])
  PROVE  ProcTyped'
BY DEF ProcTyped, Turned

\* Goto and GotoWith to a label whose needs are met.
LEMMA GotoTyped ==
  ASSUME ProcTyped, NEW p \in Proc, NEW l, Goto(p, l), Follows(proc[p].pc, l),
         l \in StatusPC => proc[p].pc \in StatusPC
  PROVE  ProcTyped'
<1>1. proc \in [Proc -> LocalState] /\ l \in PC /\ Held(proc[p])
  BY DEF ProcTyped, Follows
<1>2. Turned(p, l, proc[p].wl, proc[p].st, proc[p].tr, proc[p].vols, proc[p].then)
  BY <1>1, Turns, Zenon DEF Goto
<1>3. Held(proc'[p])
  BY <1>1, <1>2 DEF Turned, Held, Follows
<1> QED BY <1>2, <1>3, TurnedTyped

\* The same with a status.
LEMMA GotoWithTyped ==
  ASSUME ProcTyped, NEW p \in Proc, NEW l, NEW s \in Status, GotoWith(p, l, s), Follows(proc[p].pc, l)
  PROVE  ProcTyped'
<1>1. proc \in [Proc -> LocalState] /\ l \in PC /\ Held(proc[p])
  BY Zenon DEF ProcTyped, Follows
<1>2. Turned(p, l, proc[p].wl, s, proc[p].tr, proc[p].vols, proc[p].then)
  BY <1>1, Turns, Zenon DEF GotoWith
<1>3. Held(proc'[p])
  BY <1>1, <1>2, Zenon DEF Turned, Held, Follows
<1> QED BY <1>2, <1>3, TurnedTyped, Zenon

\* FreeAndGoto, which frees volumes only when there are some.
LEMMA FreeAndGotoTyped ==
  ASSUME ProcTyped, NEW p \in Proc, NEW l \in {"fail_read", "idle"}, FreeAndGoto(p, l),
         proc[p].pc \notin {"idle", "apply_admit", "get_workload"}
  PROVE  ProcTyped'
<1> DEFINE m == IF proc[p].vols = <<>> THEN l ELSE "free_detach"
<1>1. proc \in [Proc -> LocalState] /\ m \in PC /\ l \in PC /\ Held(proc[p])
      /\ (m = "free_detach" => proc[p].vols # <<>>) /\ m \in {l, "free_detach"}
  BY DEF ProcTyped, PC
<1>2. proc' = [proc EXCEPT ![p].pc = m, ![p].then = l]
  BY Zenon DEF FreeAndGoto
<1> HIDE DEF m
<1>3. Turned(p, m, proc[p].wl, proc[p].st, proc[p].tr, proc[p].vols, l)
  BY <1>1, <1>2, Turns, Zenon
<1>4. Held(proc'[p])
  BY <1>1, <1>3 DEF Turned, Held, StatusPC, AllocatePC, EarlyPC, FreePC
<1> QED BY <1>3, <1>4, TurnedTyped, Zenon

\* An idle goroutine holds nothing.
LEMMA IdleTyped == IdleProc \in LocalState /\ IdleProc.pc = "idle" /\ Held(IdleProc)
<1>1. IdleProc.pc = "idle" /\ <<>> \in Seq(Allocation)
  BY DEF IdleProc
<1>2. IdleProc \in LocalState
  BY <1>1 DEF IdleProc, LocalState, PC, Allocation
<1> QED BY <1>1, <1>2 DEF Held, StatusPC, AllocatePC, EarlyPC, FreePC

\* An operation returns.
LEMMA ReturnTyped ==
  ASSUME TypeInv, NEW p \in Proc, proc[p].pc # "idle", Return(p)
  PROVE  ProcTyped' /\ lock' \in [WId -> Proc \cup {None}]
<1>1. proc[p].id \in WId
  BY DEF TypeInv, ProcTyped, Held
<1> QED BY <1>1, IdleTyped, WriteTypes, Zenon DEF TypeInv, ProcTyped, Return

\* The resource a goroutine works on.
LEMMA MineTyped ==
  ASSUME TypeInv, NEW p \in Proc, proc[p].pc \notin {"idle", "apply_admit", "get_workload"}
  PROVE  /\ proc[p].id \in WId /\ proc[p].wl \in Workload /\ Mine(p) \in Resource \cup {None}
         /\ \A r \in Resource \cup {None} :
              SetMine(p, r) => res' \in [WType -> [WId -> Resource \cup {None}]]
<1>1. proc[p].id \in WId /\ proc[p].wl \in Workload /\ proc[p].wl.type \in WType
  BY DEF TypeInv, ProcTyped, Held, Workload
<1> QED BY <1>1, WriteTypes, ZenonT(40) DEF TypeInv, StoreTyped, Mine, SetMine

\* The other variables keep their types when they do not change.
LEMMA RestTyped ==
  ASSUME TypeInv, UNCHANGED <<wl, st, tracker, lock, crashes, vol>>,
         res' \in [WType -> [WId -> Resource \cup {None}]], ProcTyped'
  PROVE  TypeInv'
BY DEF TypeInv, StoreTyped

\* The steps of an operation that call the runtime and go on.
LEMMA RuntimeSteps ==
  ASSUME TypeInv, NEW p \in Proc,
         \/ ApplyDeleteOld(p) \/ ApplyCreate(p) \/ ApplyStart(p) \/ DeleteRuntime(p)
         \/ TransStart(p) \/ TransStop(p) \/ ReconcileDelete(p) \/ ReconcileCreate(p) \/ ReconcileStop(p)
         \/ PendingStop(p) \/ PendingStart(p) \/ PendingDelete(p)
  PROVE  TypeInv'
<1> DEFINE before == {"apply_delete_old", "apply_create", "apply_start", "delete_runtime", "trans_start",
                      "trans_stop", "rec_delete", "rec_create", "rec_stop", "pend_stop", "pend_start",
                      "pend_delete"}
<1>1. proc[p].pc \in before /\ UNCHANGED <<wl, st, tracker, lock, crashes, vol>>
  BY DEF ApplyDeleteOld, ApplyCreate, ApplyStart, DeleteRuntime, TransStart, TransStop, ReconcileDelete,
     ReconcileCreate, ReconcileStop, PendingStop, PendingStart, PendingDelete, At
<1>2. /\ Mine(p) \in Resource \cup {None} /\ proc[p].wl \in Workload /\ ProcTyped
      /\ \A r \in Resource \cup {None} : SetMine(p, r) => res' \in [WType -> [WId -> Resource \cup {None}]]
  BY <1>1, MineTyped DEF TypeInv
<1>3. res' \in [WType -> [WId -> Resource \cup {None}]]
  <2>1. \E r \in Resource \cup {None} : SetMine(p, r)
    BY <1>2, OutcomeTypes DEF ApplyDeleteOld, ApplyCreate, ApplyStart, DeleteRuntime, TransStart, TransStop,
       ReconcileDelete, ReconcileCreate, ReconcileStop, PendingStop, PendingStart, PendingDelete
  <2> QED BY <1>2, <2>1
<1>4. proc[p].pc \in StatusPC => proc[p].st \in Status
  BY DEF TypeInv, ProcTyped, Held
<1>5. ProcTyped'
  <2>1. CASE ApplyDeleteOld(p)
    BY <1>2, <2>1, GotoTyped, Zenon DEF ApplyDeleteOld, At, Follows, PC, StatusPC, AllocatePC, EarlyPC, FreePC
  <2>2. CASE ApplyCreate(p)
    <3>1. FreeAndGoto(p, "fail_read") \/ Goto(p, "apply_start") \/ Goto(p, "apply_final")
      BY <2>2 DEF ApplyCreate
    <3>2. proc[p].pc = "apply_create"
      BY <2>2, Zenon DEF ApplyCreate, At
    <3> QED BY <1>2, <3>1, <3>2, GotoTyped, FreeAndGotoTyped, Zenon DEF Follows, PC, StatusPC, AllocatePC, EarlyPC, FreePC
  <2>3. CASE ApplyStart(p)
    <3>1. FreeAndGoto(p, "fail_read") \/ Goto(p, "apply_final")
      BY <2>3, Zenon DEF ApplyStart
    <3>2. proc[p].pc = "apply_start"
      BY <2>3, Zenon DEF ApplyStart, At
    <3> QED BY <1>2, <3>1, <3>2, GotoTyped, FreeAndGotoTyped, Zenon DEF Follows, PC, StatusPC, AllocatePC, EarlyPC, FreePC
  <2>4. CASE DeleteRuntime(p)
    BY <1>2, <2>4, GotoTyped, Zenon DEF DeleteRuntime, At, Follows, PC, StatusPC, AllocatePC, EarlyPC, FreePC
  <2>5. CASE TransStart(p)
    <3>1. Goto(p, "trans_recheck") \/ Goto(p, "fail_read")
      BY <2>5, Zenon DEF TransStart
    <3>2. proc[p].pc = "trans_start"
      BY <2>5 DEF TransStart, At
    <3> QED BY <1>2, <3>1, <3>2, GotoTyped, Zenon DEF Follows, PC, StatusPC, AllocatePC, EarlyPC, FreePC
  <2>6. CASE TransStop(p)
    <3>1. Goto(p, "trans_recheck") \/ GotoWith(p, "save", [proc[p].st EXCEPT !.actual = "Failed"])
      BY <2>6 DEF TransStop
    <3>2. proc[p].pc = "trans_stop"
      BY <2>6, Zenon DEF TransStop, At
    <3>3. [proc[p].st EXCEPT !.actual = "Failed"] \in Status
      BY <1>4, <3>2, StatusTypes, Zenon DEF StatusPC, Actual, ResourceState
    <3> QED BY <1>2, <3>1, <3>2, <3>3, GotoTyped, GotoWithTyped, ZenonT(30)
        DEF Follows, PC, StatusPC, AllocatePC, EarlyPC, FreePC
  <2>7. CASE ReconcileDelete(p)
    BY <1>2, <2>7, GotoTyped, Zenon DEF ReconcileDelete, At, Follows, PC, StatusPC, AllocatePC, EarlyPC, FreePC
  <2>8. CASE ReconcileCreate(p)
    <3>1. \E l \in {"rec_restart", "rec_recheck"} : GotoWith(p, l, [proc[p].st EXCEPT !.actual = "Failed"])
      BY <2>8 DEF ReconcileCreate
    <3>2. proc[p].pc = "rec_create"
      BY <2>8, Zenon DEF ReconcileCreate, At
    <3>3. [proc[p].st EXCEPT !.actual = "Failed"] \in Status
      BY <1>4, <3>2, StatusTypes, Zenon DEF StatusPC, Actual, ResourceState
    <3> QED BY <1>2, <3>1, <3>2, <3>3, GotoWithTyped, Zenon DEF Follows, PC, StatusPC, AllocatePC, EarlyPC, FreePC
  <2>9. CASE ReconcileStop(p)
    <3>1. proc[p].pc = "rec_stop"
      BY <2>9, Zenon DEF ReconcileStop, At
    <3>2. proc[p].st \in Status /\ [proc[p].st EXCEPT !.actual = "Failed"] \in Status
      BY <1>4, <3>1, StatusTypes, Zenon DEF StatusPC, Actual, ResourceState
    <3>3. \E s \in Status : GotoWith(p, "rec_recheck", s)
      BY <2>9, <3>2, Zenon DEF ReconcileStop
    <3> QED BY <1>2, <3>1, <3>3, GotoWithTyped, Zenon DEF Follows, PC, StatusPC, AllocatePC, EarlyPC, FreePC
  <2>10. CASE PendingStop(p)
    BY <1>2, <2>10, GotoTyped, Zenon DEF PendingStop, At, Follows, PC, StatusPC, AllocatePC, EarlyPC, FreePC
  <2>11. CASE PendingStart(p)
    <3>1. Goto(p, "pend_delete") \/ GotoWith(p, "save", [proc[p].st EXCEPT !.pendingSince = "recent"])
      BY <2>11 DEF PendingStart
    <3>2. proc[p].pc = "pend_start"
      BY <2>11, Zenon DEF PendingStart, At
    <3>3. [proc[p].st EXCEPT !.pendingSince = "recent"] \in Status
      BY <1>4, <3>2, StatusTypes, Zenon DEF StatusPC
    <3> QED BY <1>2, <3>1, <3>2, <3>3, GotoTyped, GotoWithTyped, Zenon
        DEF Follows, PC, StatusPC, AllocatePC, EarlyPC, FreePC
  <2>12. CASE PendingDelete(p)
    <3>1. GotoWith(p, "pend_save", [proc[p].st EXCEPT !.actual = "Failed"]) /\ proc[p].pc = "pend_delete"
      BY <2>12, Zenon DEF PendingDelete, At
    <3>2. [proc[p].st EXCEPT !.actual = "Failed"] \in Status
      BY <1>4, <3>1, StatusTypes, Zenon DEF StatusPC, Actual, ResourceState
    <3> QED BY <1>2, <3>1, <3>2, GotoWithTyped, Zenon DEF Follows, PC, StatusPC, AllocatePC, EarlyPC, FreePC
  <2> QED BY <2>1, <2>2, <2>3, <2>4, <2>5, <2>6, <2>7, <2>8, <2>9, <2>10, <2>11, <2>12, ZenonT(30)
<1> QED BY <1>1, <1>3, <1>5, RestTyped

\* The steps that only read, and make up a status.
LEMMA ReadingSteps ==
  ASSUME TypeInv, NEW p \in Proc,
         \/ ApplyFinal(p) \/ FailRead(p) \/ VolumeFail(p) \/ TransStatus(p) \/ TransRecheck(p)
         \/ ReconcileRecheck(p)
  PROVE  TypeInv'
<1>1. /\ proc[p].pc \in {"apply_final", "fail_read", "vol_fail", "trans_status", "trans_recheck", "rec_recheck"}
      /\ UNCHANGED <<wl, st, res, tracker, lock, crashes, vol>>
  BY Zenon DEF ApplyFinal, FailRead, VolumeFail, TransStatus, TransRecheck, ReconcileRecheck, At
<1>2. /\ Mine(p) \in Resource \cup {None} /\ proc[p].wl \in Workload /\ proc[p].id \in WId /\ ProcTyped
      /\ proc[p].wl.rev \in Rev /\ proc[p].wl.desired \in Desired /\ st[proc[p].id] \in Status \cup {None}
  BY <1>1, MineTyped, Zenon DEF TypeInv, StoreTyped, Workload
<1>3. proc[p].pc \in StatusPC => proc[p].st \in Status
  BY DEF TypeInv, ProcTyped, Held
<1>4. "Failed" \in Actual /\ \A a \in Actual : \A d : normalizeStateForDesired(d, a) \in Actual
  BY DEF Actual, ResourceState, normalizeStateForDesired
<1>5. \E l \in {"commit", "save", "trans_start", "trans_stop", "trans_recheck"} : \E s \in Status : GotoWith(p, l, s)
  <2>1. CASE ApplyFinal(p)
    BY <1>2, <2>1, AnswerTypes, NewStatusType, Zenon DEF ApplyFinal
  <2>2. CASE FailRead(p)
    <3> DEFINE s == IF StoredStatus(proc[p].id) = None THEN NewStatus(proc[p].wl, "Failed") ELSE StoredStatus(proc[p].id)
    <3>1. s \in Status
      BY <1>2, <1>4, NewStatusType, Zenon DEF StoredStatus
    <3>2. GotoWith(p, "save", [s EXCEPT !.rev = proc[p].wl.rev, !.desired = proc[p].wl.desired, !.actual = "Failed"])
      BY <2>2, Zenon DEF FailRead
    <3> HIDE DEF s
    <3> QED BY <1>2, <1>4, <3>1, <3>2, StatusTypes, Zenon
  <2>3. CASE VolumeFail(p)
    <3> DEFINE s == IF StoredStatus(proc[p].id) = None THEN NewStatus(proc[p].wl, "Failed") ELSE StoredStatus(proc[p].id)
    <3>1. s \in Status
      BY <1>2, <1>4, NewStatusType, Zenon DEF StoredStatus
    <3>2. GotoWith(p, "save", [s EXCEPT !.actual = "Failed"])
      BY <2>3 DEF VolumeFail
    <3> HIDE DEF s
    <3> QED BY <1>4, <3>1, <3>2, StatusTypes, Zenon
  <2>4. CASE TransStatus(p)
    <3> DEFINE s == [proc[p].st EXCEPT !.rev = proc[p].wl.rev, !.desired = proc[p].wl.desired]
    <3>1. s \in Status
      BY <1>2, <1>3, <2>4, StatusTypes, Zenon DEF TransStatus, At, StatusPC
    <3>2. \/ GotoWith(p, "save", [s EXCEPT !.actual = "Failed"])
          \/ \E l \in {"trans_start", "trans_stop", "trans_recheck"} : GotoWith(p, l, s)
      BY <2>4, Zenon DEF TransStatus
    <3> HIDE DEF s
    <3>3. [s EXCEPT !.actual = "Failed"] \in Status
      BY <1>4, <3>1, StatusTypes, Zenon
    <3> QED BY <3>1, <3>2, <3>3, Zenon
  <2>5. CASE TransRecheck(p)
    <3>1. proc[p].st \in Status
      BY <1>3, <2>5, Zenon DEF TransRecheck, At, StatusPC
    <3>2. PICK a \in SoftStatus(Mine(p)) :
            GotoWith(p, "commit",
              ClearedIfStopped([proc[p].st EXCEPT !.actual = normalizeStateForDesired(proc[p].wl.desired, a)],
                               proc[p].wl.desired))
      BY <2>5, Zenon DEF TransRecheck
    <3> DEFINE s == [proc[p].st EXCEPT !.actual = normalizeStateForDesired(proc[p].wl.desired, a)]
    <3>3. s \in Status
      BY <1>2, <1>4, <3>1, <3>2, AnswerTypes, StatusTypes, Zenon
    <3> HIDE DEF s
    <3>4. ClearedIfStopped(s, proc[p].wl.desired) \in Status
      BY <3>3, StatusTypes, Zenon DEF ClearedIfStopped
    <3> QED BY <3>2, <3>4 DEF s
  <2>6. CASE ReconcileRecheck(p)
    <3>1. proc[p].st \in Status
      BY <1>3, <2>6 DEF ReconcileRecheck, At, StatusPC
    <3>2. PICK a \in StatusOutcomes(Mine(p)) :
            GotoWith(p, "save", IF a = "error" THEN proc[p].st ELSE [proc[p].st EXCEPT !.actual = a])
      BY <2>6, Zenon DEF ReconcileRecheck
    <3>3. a # "error" => [proc[p].st EXCEPT !.actual = a] \in Status
      BY <1>2, <3>1, AnswerTypes, StatusTypes, Zenon
    <3> QED BY <3>1, <3>2, <3>3, Zenon
  <2> QED BY <2>1, <2>2, <2>3, <2>4, <2>5, <2>6, Zenon
<1>6. ProcTyped'
  BY <1>1, <1>2, <1>5, GotoWithTyped, ZenonT(30) DEF Follows, PC, AllocatePC, EarlyPC, FreePC
<1> QED BY <1>1, <1>6, Zenon DEF TypeInv, StoreTyped

\* The steps that write the store and return or go on.
LEMMA StoringSteps ==
  ASSUME TypeInv, NEW p \in Proc,
         \/ ApplyReject(p) \/ ApplySave(p) \/ ApplyInitial(p) \/ Commit(p) \/ Save(p) \/ TransSave(p)
         \/ VolumeSave(p) \/ PendingSave(p) \/ DeleteStore(p)
  PROVE  TypeInv'
<1>1. /\ proc[p].pc \in {"apply_reject", "apply_save", "apply_initial", "commit", "save", "trans_save",
                         "vol_save", "pend_save", "delete_store"}
      /\ UNCHANGED <<res, crashes>>
  BY Zenon DEF ApplyReject, ApplySave, ApplyInitial, Commit, Save, TransSave, VolumeSave, PendingSave, DeleteStore, At
<1>2. proc[p].wl \in Workload /\ proc[p].id \in WId /\ ProcTyped /\ StoreTyped
  BY <1>1, MineTyped, Zenon DEF TypeInv
<1>3. proc[p].pc \in StatusPC => proc[p].st \in Status
  BY DEF TypeInv, ProcTyped, Held
<1>4. CASE ApplyReject(p)
  <2>1. wl' \in [WId -> Workload \cup {None}]
    BY <1>2, <1>4, WriteTypes, Zenon DEF ApplyReject
  <2>2. ProcTyped'
    BY <1>2, <1>4, GotoTyped, Zenon DEF ApplyReject, At, Follows, PC, StatusPC, AllocatePC, EarlyPC, FreePC
  <2> QED BY <1>4, <2>1, <2>2, Zenon DEF ApplyReject, TypeInv, StoreTyped
<1>5. CASE ApplySave(p)
  <2>1. wl' \in [WId -> Workload \cup {None}]
    BY <1>2, <1>5, WriteTypes DEF ApplySave
  <2>2. Return(p) \/ (Goto(p, "apply_initial") /\ UNCHANGED lock)
    BY <1>5, Zenon DEF ApplySave
  <2>3. ProcTyped' /\ lock' \in [WId -> Proc \cup {None}]
    BY <1>2, <1>5, <2>2, GotoTyped, ReturnTyped, Zenon
       DEF StoreTyped, ApplySave, At, Follows, PC, StatusPC, AllocatePC, EarlyPC, FreePC
  <2> QED BY <1>5, <2>1, <2>3, Zenon DEF ApplySave, TypeInv, StoreTyped
<1>6. CASE ApplyInitial(p)
  <2>1. NewStatus(proc[p].wl, "Pending") \in Status
    BY <1>2, NewStatusType, Zenon DEF Actual, ResourceState
  <2>2. st' \in [WId -> Status \cup {None}]
    BY <1>2, <1>6, <2>1, WriteTypes, Zenon DEF ApplyInitial
  <2>3. proc[p].pc = "apply_initial" /\ Held(proc[p])
    BY <1>2, <1>6, Zenon DEF ApplyInitial, At, ProcTyped
  <2>4. CASE ManagedVolumes(proc[p].wl) = <<>>
    <3>1. Goto(p, "apply_create")
      BY <1>6, <2>4, Zenon DEF ApplyInitial
    <3>2. ProcTyped'
      BY <1>2, <2>3, <3>1, GotoTyped, Zenon DEF Follows, PC, StatusPC, AllocatePC, EarlyPC, FreePC
    <3> QED BY <1>6, <2>2, <3>2, Zenon DEF ApplyInitial, TypeInv, StoreTyped
  <2>5. CASE ManagedVolumes(proc[p].wl) # <<>>
    <3>1. proc' = [proc EXCEPT ![p].pc = "vol_provision"] /\ "vol_provision" \in PC
      BY <1>6, <2>5, Zenon DEF ApplyInitial, Goto, PC
    <3>2. Turned(p, "vol_provision", proc[p].wl, proc[p].st, proc[p].tr, proc[p].vols, proc[p].then)
      BY <1>2, <3>1, Turns, Zenon DEF ProcTyped
    <3>3. VolumesOf[proc[p].wl.rev] \in Seq([vol : Vol, policy : {"delete", "retain"}])
      BY <1>2, ConfigAssumption, Zenon DEF Workload
    <3>a. ManagedVolumes(proc[p].wl) \in Seq([vol : Vol, policy : {"delete", "retain"}])
      BY <3>3 DEF ManagedVolumes
    <3>b. Len(ManagedVolumes(proc[p].wl)) > 0
      BY <2>5, <3>a
    <3>c. proc[p].vols = <<>>
      BY <2>3, Zenon DEF Held, EarlyPC
    <3>4. Len(proc[p].vols) < Len(ManagedVolumes(proc[p].wl))
      BY <3>b, <3>c
    <3>5. Held(proc'[p])
      BY <1>2, <3>2, <3>4, ZenonT(30) DEF Turned, Held, StatusPC, AllocatePC, EarlyPC, FreePC
    <3> QED BY <1>2, <1>6, <2>2, <3>2, <3>5, TurnedTyped, Zenon DEF ApplyInitial, TypeInv, StoreTyped
  <2> QED BY <2>4, <2>5, Zenon
<1>7. CASE Commit(p) \/ Save(p)
  <2>1. proc[p].st \in Status
    BY <1>3, <1>7, Zenon DEF Commit, Save, At, StatusPC
  <2>2. st' \in [WId -> Status \cup {None}] /\ tracker' \in [WId -> Tracker \cup {None}]
    BY <1>2, <1>7, <2>1, WriteTypes, Zenon DEF Commit, Save, resetRetryTracker, StoreTyped
  <2>3. ProcTyped' /\ lock' \in [WId -> Proc \cup {None}]
    BY <1>1, <1>7, ReturnTyped, Zenon DEF Commit, Save
  <2> QED BY <1>7, <2>2, <2>3, Zenon DEF Commit, Save, TypeInv, StoreTyped
<1>8. CASE TransSave(p)
  <2>1. wl' \in [WId -> Workload \cup {None}]
    BY <1>2, <1>8, WriteTypes, Zenon DEF TransSave
  <2>2. Return(p) \/ (Goto(p, "trans_status") /\ UNCHANGED lock)
    BY <1>8, Zenon DEF TransSave
  <2>3. ProcTyped' /\ lock' \in [WId -> Proc \cup {None}]
    BY <1>2, <1>8, <2>2, GotoTyped, ReturnTyped, Zenon
       DEF StoreTyped, TransSave, At, Follows, PC, StatusPC, AllocatePC, EarlyPC, FreePC
  <2> QED BY <1>8, <2>1, <2>3, Zenon DEF TransSave, TypeInv, StoreTyped
<1>9. CASE VolumeSave(p)
  <2>1. wl' \in [WId -> Workload \cup {None}]
    BY <1>2, <1>9, WriteTypes, Zenon DEF VolumeSave
  <2>2. Goto(p, "apply_create") \/ FreeAndGoto(p, "idle")
    BY <1>9, Zenon DEF VolumeSave
  <2>3. ProcTyped'
    BY <1>2, <1>9, <2>2, GotoTyped, FreeAndGotoTyped, Zenon
       DEF VolumeSave, At, Follows, PC, StatusPC, AllocatePC, EarlyPC, FreePC
  <2> QED BY <1>9, <2>1, <2>3, Zenon DEF VolumeSave, TypeInv, StoreTyped
<1>10. CASE PendingSave(p)
  <2> DEFINE w == [proc[p].wl EXCEPT !.desired = "Stopped"]
  <2>1. w \in Workload
    BY <1>2 DEF Workload, Desired
  <2>2. proc' = [proc EXCEPT ![p].pc = "save", ![p].wl = w] /\ \E ok : SaveWorkload(proc[p].id, w, ok)
    BY <1>10 DEF PendingSave
  <2> HIDE DEF w
  <2>3. wl' \in [WId -> Workload \cup {None}]
    BY <1>2, <2>1, <2>2, WriteTypes
  <2>4. Turned(p, "save", w, proc[p].st, proc[p].tr, proc[p].vols, proc[p].then)
    <3>1. "save" \in PC /\ w \in Workload \cup {None} /\ proc \in [Proc -> LocalState]
      BY <1>2, <2>1, Zenon DEF PC, ProcTyped
    <3> QED BY <2>2, <3>1, Turns, Zenon
  <2>5. proc[p].st \in Status
    BY <1>3, <1>10, Zenon DEF PendingSave, At, StatusPC
  <2>6. Held(proc'[p])
    BY <1>2, <2>1, <2>4, <2>5, Zenon DEF Turned, Held, StatusPC, AllocatePC, EarlyPC, FreePC
  <2> QED BY <1>2, <1>10, <2>3, <2>4, <2>6, TurnedTyped, Zenon DEF PendingSave, TypeInv, StoreTyped
<1>11. CASE DeleteStore(p)
  <2>1. /\ wl' \in [WId -> Workload \cup {None}] /\ st' \in [WId -> Status \cup {None}]
        /\ vol' \in [Vol -> Volume(WId)]
    BY <1>2, <1>11, WriteTypes, Zenon DEF DeleteStore
  <2>2. ProcTyped' /\ lock' \in [WId -> Proc \cup {None}]
    BY <1>1, <1>11, ReturnTyped, Zenon DEF DeleteStore
  <2> QED BY <1>11, <2>1, <2>2, Zenon DEF DeleteStore, TypeInv, StoreTyped
<1> QED BY <1>4, <1>5, <1>6, <1>7, <1>8, <1>9, <1>10, <1>11, Zenon

\* An element of a sequence.
LEMMA InSequence ==
  ASSUME NEW S, NEW s \in Seq(S), NEW n \in 1 .. Len(s)
  PROVE  s[n] \in S
OBVIOUS

\* A sequence without its last element.
LEMMA ShorterSequence ==
  ASSUME NEW S, NEW s \in Seq(S), s # <<>>
  PROVE  SubSeq(s, 1, Len(s) - 1) \in Seq(S)
OBVIOUS

\* A function on an interval from one is a sequence.
LEMMA ListedSequence ==
  ASSUME NEW S, NEW n \in Nat, NEW s \in [1 .. n -> S]
  PROVE  s \in Seq(S)
OBVIOUS

\* The steps on the volume at hand while they are set up.
LEMMA AllocatingSteps ==
  ASSUME TypeInv, NEW p \in Proc,
         VolumeProvision(p) \/ VolumeRecord(p) \/ VolumeAttach(p) \/ VolumeAttachment(p)
  PROVE  TypeInv'
<1> DEFINE all == ManagedVolumes(proc[p].wl)
<1>1. proc[p].pc \in AllocatePC /\ UNCHANGED <<wl, st, res, tracker, lock, crashes>>
  BY Zenon DEF VolumeProvision, VolumeRecord, VolumeAttach, VolumeAttachment, At, AllocatePC
<1>2. /\ proc[p].wl \in Workload /\ proc[p].id \in WId /\ ProcTyped /\ StoreTyped
      /\ proc[p].vols \in Seq(Allocation) /\ Len(proc[p].vols) < Len(all)
  BY <1>1, MineTyped, Zenon DEF TypeInv, ProcTyped, Held, LocalState, Allocation, AllocatePC
<1>3. all \in Seq([vol : Vol, policy : {"delete", "retain"}])
  <2>1. VolumesOf[proc[p].wl.rev] \in Seq([vol : Vol, policy : {"delete", "retain"}])
    BY <1>2, ConfigAssumption, Zenon DEF Workload
  <2>2. <<>> \in Seq([vol : Vol, policy : {"delete", "retain"}])
    OBVIOUS
  <2> QED BY <2>1, <2>2, Zenon DEF ManagedVolumes
<1>4. Wanted(p) \in [vol : Vol, policy : {"delete", "retain"}]
  <2> HIDE DEF all
  <2>1. Len(proc[p].vols) + 1 \in 1 .. Len(all)
    BY <1>2, <1>3
  <2>2. all[Len(proc[p].vols) + 1] \in [vol : Vol, policy : {"delete", "retain"}]
    BY <1>3, <2>1, InSequence, Zenon
  <2> QED BY <2>2 DEF Wanted, all
<1>5. /\ Wanted(p).vol \in Vol /\ Wanted(p).policy \in {"delete", "retain"}
      /\ vol[Wanted(p).vol] \in Volume(WId)
  BY <1>2, <1>4, Zenon DEF StoreTyped
<1>6. CASE VolumeProvision(p) \/ VolumeAttach(p)
  <2>1. PICK l \in {"vol_record", "vol_attachment", "vol_fail"}, x \in Volume(WId) :
          SetVolume(Wanted(p).vol, x) /\ Goto(p, l)
    BY <1>2, <1>5, <1>6, VolumeTypes, Zenon DEF VolumeProvision, VolumeAttach, VolumeCall
  <2>2. vol' \in [Vol -> Volume(WId)]
    BY <1>2, <1>5, <2>1, WriteTypes, Zenon
  <2>3. ProcTyped'
    BY <1>1, <1>2, <2>1, GotoTyped, Zenon DEF Follows, PC, StatusPC, AllocatePC, EarlyPC, FreePC
  <2> QED BY <1>1, <1>2, <2>2, <2>3, Zenon DEF TypeInv, StoreTyped
<1>7. CASE VolumeRecord(p)
  <2>1. \E x \in Volume(WId) : SetVolume(Wanted(p).vol, x)
    BY <1>2, <1>5, <1>7, VolumeTypes, Zenon DEF VolumeRecord
  <2>2. vol' \in [Vol -> Volume(WId)]
    BY <1>2, <1>5, <2>1, WriteTypes, Zenon
  <2>3. ProcTyped'
    BY <1>2, <1>7, GotoTyped, Zenon DEF VolumeRecord, At, Follows, PC, StatusPC, AllocatePC, EarlyPC, FreePC
  <2> QED BY <1>1, <1>2, <2>2, <2>3, Zenon DEF TypeInv, StoreTyped
<1>8. CASE VolumeAttachment(p)
  <2>1. \E x \in Volume(WId) : SetVolume(Wanted(p).vol, x)
    BY <1>2, <1>5, <1>8, VolumeTypes, Zenon DEF VolumeAttachment
  <2>2. vol' \in [Vol -> Volume(WId)]
    BY <1>2, <1>5, <2>1, WriteTypes
  <2> DEFINE vs == Append(proc[p].vols, Wanted(p))
             last == Len(vs) = Len(all)
             w == [proc[p].wl EXCEPT !.bound = last]
             l == IF last THEN "vol_save" ELSE "vol_provision"
  <2>3. vs \in Seq(Allocation) /\ Len(vs) = Len(proc[p].vols) + 1
    BY <1>2, <1>4 DEF Allocation
  <2>4. w \in Workload /\ ManagedVolumes(w) = all
    <3>1. last \in BOOLEAN
      OBVIOUS
    <3> HIDE DEF last
    <3> QED BY <1>2, <3>1 DEF Workload, ManagedVolumes
  <2>5. l \in {"vol_save", "vol_provision"} /\ (l = "vol_provision" => Len(vs) < Len(ManagedVolumes(w)))
    BY <1>2, <1>3, <2>3, <2>4, SMTT(30)
  <2>6. proc' = [proc EXCEPT ![p].vols = vs, ![p].wl = w, ![p].pc = l]
    BY <1>8 DEF VolumeAttachment
  <2> HIDE DEF vs, last, w, l
  <2>7. Turned(p, l, w, proc[p].st, proc[p].tr, vs, proc[p].then)
    <3>1. l \in PC /\ w \in Workload \cup {None} /\ proc \in [Proc -> LocalState]
      BY <1>2, <2>4, <2>5, Zenon DEF PC, ProcTyped
    <3> QED BY <2>3, <2>6, <3>1, Turns, Zenon
  <2>8. Held(proc'[p])
    BY <1>2, <2>4, <2>5, <2>7, Zenon DEF Turned, Held, StatusPC, AllocatePC, EarlyPC, FreePC
  <2> QED BY <1>1, <1>2, <2>2, <2>7, <2>8, TurnedTyped, Zenon DEF TypeInv, StoreTyped
<1> QED BY <1>6, <1>7, <1>8, Zenon

\* On with the next volume to free.
LEMMA FreeNextTyped ==
  ASSUME TypeInv, NEW p \in Proc, proc[p].pc \in FreePC, FreeNext(p)
  PROVE  ProcTyped' /\ lock' \in [WId -> Proc \cup {None}]
<1> DEFINE rest == StillToFree(p)
<1>1. /\ proc[p].pc # "idle" /\ proc[p].vols \in Seq(Allocation) /\ proc[p].vols # <<>>
      /\ proc[p].then \in {"fail_read", "delete_store", "idle"} /\ proc[p].id \in WId /\ proc[p].wl \in Workload
      /\ ProcTyped /\ StoreTyped
  BY Zenon DEF TypeInv, ProcTyped, Held, LocalState, Allocation, FreePC
<1>2. CASE Return(p)
  BY <1>1, <1>2, ReturnTyped
<1>3. CASE ~(rest = <<>> /\ proc[p].then = "idle")
  <2> DEFINE l == IF rest = <<>> THEN proc[p].then ELSE "free_detach"
  <2>1. proc' = [proc EXCEPT ![p].vols = rest, ![p].pc = l] /\ UNCHANGED lock
    BY <1>3 DEF FreeNext
  <2>2. rest \in Seq(Allocation)
    BY <1>1, ShorterSequence, Zenon DEF StillToFree
  <2>3. l \in {"fail_read", "delete_store", "free_detach"} /\ (l = "free_detach" => rest # <<>>)
    BY <1>1, <1>3
  <2> HIDE DEF rest, l
  <2>4. Turned(p, l, proc[p].wl, proc[p].st, proc[p].tr, rest, proc[p].then)
    <3>1. l \in PC /\ proc \in [Proc -> LocalState]
      BY <1>1, <2>3, Zenon DEF PC, ProcTyped
    <3> QED BY <2>1, <2>2, <3>1, Turns, Zenon
  <2>5. Held(proc'[p])
    BY <1>1, <2>3, <2>4, Zenon DEF Turned, Held, StatusPC, AllocatePC, EarlyPC, FreePC
  <2> QED BY <1>1, <2>1, <2>4, <2>5, TurnedTyped, Zenon DEF StoreTyped
<1> QED BY <1>2, <1>3, Zenon DEF FreeNext

\* The steps that take volumes down.
LEMMA FreeingSteps ==
  ASSUME TypeInv, NEW p \in Proc,
         FreeDetach(p) \/ FreeAttachment(p) \/ FreeLookup(p) \/ FreeDelete(p) \/ FreeRecord(p)
  PROVE  TypeInv'
<1>1. proc[p].pc \in FreePC /\ UNCHANGED <<wl, st, res, tracker, crashes>>
  BY Zenon DEF FreeDetach, FreeAttachment, FreeLookup, FreeDelete, FreeRecord, At, FreePC
<1>2. /\ proc[p].vols \in Seq(Allocation) /\ proc[p].vols # <<>> /\ proc[p].id \in WId /\ ProcTyped /\ StoreTyped
  BY <1>1, Zenon DEF TypeInv, ProcTyped, Held, LocalState, Allocation, FreePC
<1>3. Freed(p) \in Allocation
  BY <1>2, SMTT(30) DEF Freed
<1>4. Freed(p).vol \in Vol /\ vol[Freed(p).vol] \in Volume(WId)
  BY <1>2, <1>3, Zenon DEF StoreTyped, Allocation
<1>5. vol' \in [Vol -> Volume(WId)]
  <2>1. (\E x \in Volume(WId) : SetVolume(Freed(p).vol, x)) \/ UNCHANGED vol
    BY <1>2, <1>4, VolumeTypes, Zenon DEF FreeDetach, FreeAttachment, FreeLookup, FreeDelete, FreeRecord
  <2> QED BY <1>2, <1>4, <2>1, WriteTypes, Zenon DEF StoreTyped
<1>6. ProcTyped' /\ lock' \in [WId -> Proc \cup {None}]
  <2>1. FreeNext(p) \/ (UNCHANGED lock /\ \E l \in FreePC : Goto(p, l))
    BY DEF FreeDetach, FreeAttachment, FreeLookup, FreeDelete, FreeRecord, FreePC
  <2>2. CASE UNCHANGED lock /\ \E l \in FreePC : Goto(p, l)
    BY <1>1, <1>2, <2>2, GotoTyped, ZenonT(30) DEF StoreTyped, Follows, PC, StatusPC, AllocatePC, EarlyPC, FreePC
  <2> QED BY <1>1, <2>1, <2>2, FreeNextTyped
<1> QED BY <1>1, <1>2, <1>5, <1>6, Zenon DEF TypeInv, StoreTyped

\* The choices at the start of an apply and of a reconcile.
LEMMA ChoosingSteps ==
  ASSUME TypeInv, NEW p \in Proc, ApplyStatus(p) \/ ApplyAdmit(p) \/ ReconcileLoad(p)
  PROVE  TypeInv'
<1>1. /\ proc[p].pc \in {"apply_status", "apply_admit", "rec_load"}
      /\ UNCHANGED <<wl, st, res, tracker, crashes, vol>>
  BY Zenon DEF ApplyStatus, ApplyAdmit, ReconcileLoad, At
<1>2. /\ proc[p].id \in WId /\ ProcTyped /\ StoreTyped /\ Held(proc[p]) /\ proc \in [Proc -> LocalState]
      /\ st[proc[p].id] \in Status \cup {None}
  BY <1>1, Zenon DEF TypeInv, ProcTyped, StoreTyped, Held
<1>3. ProcTyped' /\ lock' \in [WId -> Proc \cup {None}]
  <2>1. CASE Return(p)
    BY <1>1, <2>1, ReturnTyped, Zenon
  <2>2. CASE ApplyStatus(p) /\ ~Return(p)
    <3> DEFINE old == proc[p].wl
               s == IF StoredStatus(proc[p].id) = None THEN NewStatus(old, "Missing") ELSE StoredStatus(proc[p].id)
               w == [old EXCEPT !.desired = proc[p].req.desired]
    <3>1. /\ UNCHANGED lock /\ proc[p].pc = "apply_status"
          /\ \/ Goto(p, "apply_admit")
             \/ proc' = [proc EXCEPT ![p].pc = "trans_save", ![p].st = s, ![p].wl = w]
      BY <2>2, Zenon DEF ApplyStatus, At
    <3>2. old \in Workload /\ proc[p].req \in Workload
      BY <1>2, <3>1 DEF Held
    <3>3. s \in Status /\ w \in Workload
      BY <1>2, <3>2, NewStatusType, Zenon DEF StoredStatus, Actual, Workload
    <3> HIDE DEF s, w
    <3>4. CASE Goto(p, "apply_admit")
      BY <1>2, <3>1, <3>4, GotoTyped, Zenon DEF StoreTyped, Follows, PC, StatusPC, AllocatePC, EarlyPC, FreePC
    <3>5. CASE proc' = [proc EXCEPT ![p].pc = "trans_save", ![p].st = s, ![p].wl = w]
      <4>1. Turned(p, "trans_save", w, s, proc[p].tr, proc[p].vols, proc[p].then)
        <5>1. "trans_save" \in PC /\ w \in Workload \cup {None} /\ s \in Status \cup {None}
          BY <3>3, Zenon DEF PC
        <5> QED BY <1>2, <3>5, <5>1, Turns, Zenon
      <4>2. Held(proc'[p])
        BY <1>2, <3>3, <4>1 DEF Turned, Held, StatusPC, AllocatePC, EarlyPC, FreePC
      <4> QED BY <1>2, <3>1, <4>1, <4>2, TurnedTyped, Zenon DEF StoreTyped
    <3> QED BY <3>1, <3>4, <3>5, Zenon
  <2>3. CASE ApplyAdmit(p) /\ ~Return(p)
    <3>1. /\ UNCHANGED lock /\ proc[p].pc = "apply_admit"
          /\ \E l \in {"apply_reject", "apply_delete_old", "apply_save"} :
               proc' = [proc EXCEPT ![p].wl = proc[p].req, ![p].pc = l]
      BY <2>3 DEF ApplyAdmit, At
    <3>2. PICK l \in {"apply_reject", "apply_delete_old", "apply_save"} :
            proc' = [proc EXCEPT ![p].wl = proc[p].req, ![p].pc = l]
      BY <3>1, Zenon
    <3>3. proc[p].req \in Workload /\ proc[p].vols = <<>>
      BY <1>2, <3>1 DEF Held, EarlyPC
    <3>4. Turned(p, l, proc[p].req, proc[p].st, proc[p].tr, proc[p].vols, proc[p].then)
      <4>1. l \in PC /\ proc[p].req \in Workload \cup {None}
        BY <3>3, SMTT(30) DEF PC
      <4> QED BY <1>2, <3>2, <4>1, Turns, Zenon
    <3>5. Held(proc'[p])
      BY <1>2, <3>3, <3>4 DEF Turned, Held, StatusPC, AllocatePC, EarlyPC, FreePC
    <3> QED BY <1>2, <3>1, <3>4, <3>5, TurnedTyped, Zenon DEF StoreTyped
  <2>4. CASE ReconcileLoad(p) /\ ~Return(p)
    <3>1. /\ UNCHANGED lock /\ proc[p].pc = "rec_load" /\ st[proc[p].id] # None
          /\ GotoWith(p, "rec_observe", st[proc[p].id])
      BY <2>4, Zenon DEF ReconcileLoad, At, StoredStatus
    <3> QED BY <1>2, <3>1, GotoWithTyped, Zenon DEF StoreTyped, Follows, PC, StatusPC, AllocatePC, EarlyPC, FreePC
  <2> QED BY <2>1, <2>2, <2>3, <2>4, Zenon
<1> QED BY <1>1, <1>2, <1>3, Zenon DEF TypeInv, StoreTyped

\* What a reconcile decides on.
LEMMA ObservingStep ==
  ASSUME TypeInv, NEW p \in Proc, ReconcileObserve(p)
  PROVE  TypeInv'
<1> DEFINE i == proc[p].id
           s == proc[p].st
           t == getRetryTracker(i)
           L == {"save", "rec_stop", "pend_stop", "rec_delete"}
           Tracked == UNCHANGED tracker \/ \E x \in Tracker \cup {None} : SetTracker(i, x)
           Turning == \E l \in L : \E x \in Status : GotoWith(p, l, x)
           Starting == \E x \in Status : proc' = [proc EXCEPT ![p].pc = "rec_start", ![p].st = x, ![p].tr = t]
<1>1. proc[p].pc = "rec_observe" /\ UNCHANGED <<wl, st, res, lock, crashes, vol>>
  BY Zenon DEF ReconcileObserve, At
<1>2. /\ i \in WId /\ ProcTyped /\ StoreTyped /\ Held(proc[p]) /\ proc \in [Proc -> LocalState]
      /\ s \in Status /\ Mine(p) \in Resource \cup {None} /\ proc[p].wl \in Workload
  BY <1>1, MineTyped, Zenon DEF TypeInv, ProcTyped, Held, StatusPC
<1>3. t \in Tracker /\ \A reason : RecordFailure(t, reason).tracker \in Tracker
  <2>1. NewRetryTracker \in Tracker
    BY PolicyAssumption DEF NewRetryTracker, Tracker, AttemptCap
  <2>2. t \in Tracker
    BY <1>2, <2>1, Zenon DEF StoreTyped, getRetryTracker
  <2> QED BY <2>2, TrackerTypes, Zenon
<1>4. /\ \A a \in Actual : [s EXCEPT !.actual = a] \in Status
      /\ \A a \in Actual, b \in BOOLEAN : [s EXCEPT !.actual = a, !.terminal = b] \in Status
      /\ \A a \in Actual, b \in BOOLEAN : [[s EXCEPT !.actual = a] EXCEPT !.terminal = b] \in Status
      /\ \A a \in Actual, b \in Actual : [[s EXCEPT !.actual = a] EXCEPT !.actual = b] \in Status
      /\ \A a \in Actual, c \in {"none", "recent", "old"} : [[s EXCEPT !.actual = a] EXCEPT !.pendingSince = c] \in Status
  <2>1. \A x \in Status : (\A a \in Actual : [x EXCEPT !.actual = a] \in Status)
          /\ (\A b \in BOOLEAN : [x EXCEPT !.terminal = b] \in Status)
          /\ (\A c \in {"none", "recent", "old"} : [x EXCEPT !.pendingSince = c] \in Status)
    BY StatusTypes, Zenon
  <2> QED BY <1>2, <2>1, StatusTypes, Zenon
<1>5. {"Failed", "Stopped", "Pending"} \subseteq Actual
  BY Zenon DEF Actual, ResourceState
<1>6. Tracked /\ (Turning \/ Starting)
  <2>1. PICK a \in StatusOutcomes(Mine(p)) :
          LET actual == normalizeStateForDesired(proc[p].wl.desired, a)
          IN  \/ /\ a = "error"
                 /\ GotoWith(p, "save", [s EXCEPT !.actual = "Failed"])
                 /\ UNCHANGED tracker
              \/ /\ a # "error"
                 /\ \/ ReconcileStopped(p, actual)
                    \/ ReconcilePending(p) \/ ReconcileMissing(p) \/ ReconcileFailed(p) \/ ReconcileNotRunning(p)
                    \/ /\ GotoWith(p, "save", [s EXCEPT !.actual = actual])
                       /\ UNCHANGED tracker
    BY DEF ReconcileObserve
  <2> DEFINE actual == normalizeStateForDesired(proc[p].wl.desired, a)
  <2>2. a # "error" => actual \in Actual
    BY <1>2, <2>1, AnswerTypes, Zenon DEF normalizeStateForDesired, Actual, ResourceState
  <2> HIDE DEF actual
  <2>3. CASE a = "error"
    BY <1>4, <1>5, <2>1, <2>3, Zenon
  <2>4. CASE a # "error" /\ ReconcileStopped(p, actual)
    <3>1. GotoWith(p, IF actual = "Running" THEN "rec_stop" ELSE "save", [s EXCEPT !.actual = actual, !.terminal = FALSE])
      BY <2>4, Zenon DEF ReconcileStopped
    <3>2. [s EXCEPT !.actual = actual, !.terminal = FALSE] \in Status
      BY <1>4, <2>2, <2>4, Zenon
    <3>3. Tracked
      BY <2>4, Zenon DEF ReconcileStopped, resetRetryTracker
    <3> QED BY <3>1, <3>2, <3>3, Zenon
  <2>5. CASE ReconcilePending(p)
    <3> DEFINE x == [s EXCEPT !.actual = "Pending"]
    <3>1. x \in Status /\ [x EXCEPT !.pendingSince = "recent"] \in Status
      BY <1>4, <1>5, Zenon
    <3>2. UNCHANGED tracker /\ \/ GotoWith(p, "save", [x EXCEPT !.pendingSince = "recent"])
                               \/ GotoWith(p, "save", x) \/ GotoWith(p, "pend_stop", x)
      BY <2>5, Zenon DEF ReconcilePending
    <3> HIDE DEF x
    <3> QED BY <3>1, <3>2, Zenon
  <2>6. CASE ReconcileMissing(p)
    <3> DEFINE x == [s EXCEPT !.actual = "Failed"]
    <3>1. x \in Status
      BY <1>4, <1>5, Zenon
    <3>2. UNCHANGED tracker /\ (GotoWith(p, "save", x) \/ GotoWith(p, "rec_delete", x))
      BY <2>6, Zenon DEF ReconcileMissing, Readmit
    <3> HIDE DEF x
    <3> QED BY <3>1, <3>2, Zenon
  <2>7. CASE ReconcileFailed(p)
    <3> DEFINE x == [s EXCEPT !.actual = "Failed"]
    <3>1. x \in Status /\ [x EXCEPT !.terminal = TRUE] \in Status
      BY <1>4, <1>5, Zenon
    <3>2. /\ UNCHANGED tracker \/ SetTracker(i, t) \/ \E reason : SetTracker(i, RecordFailure(t, reason).tracker)
          /\ GotoWith(p, "save", x) \/ GotoWith(p, "rec_delete", x) \/ GotoWith(p, "save", [x EXCEPT !.terminal = TRUE])
      BY <2>7, Zenon DEF ReconcileFailed, Readmit
    <3> HIDE DEF x, t
    <3> QED BY <1>3, <3>1, <3>2, Zenon
  <2>8. CASE ReconcileNotRunning(p)
    <3> DEFINE x == [s EXCEPT !.actual = "Stopped"]
    <3>1. x \in Status /\ [x EXCEPT !.actual = "Failed"] \in Status
      BY <1>4, <1>5, Zenon
    <3>2. /\ SetTracker(i, t)
          /\ \/ GotoWith(p, "save", [x EXCEPT !.actual = "Failed"]) \/ GotoWith(p, "save", x)
             \/ proc' = [proc EXCEPT ![p].pc = "rec_start", ![p].st = x, ![p].tr = t]
      BY <2>8, Zenon DEF ReconcileNotRunning
    <3> HIDE DEF x, t
    <3> QED BY <1>3, <3>1, <3>2, Zenon
  <2>9. CASE a # "error" /\ GotoWith(p, "save", [s EXCEPT !.actual = actual]) /\ UNCHANGED tracker
    BY <1>4, <2>2, <2>9, Zenon
  <2> QED BY <2>1, <2>3, <2>4, <2>5, <2>6, <2>7, <2>8, <2>9, ZenonT(30) DEF actual
<1> HIDE DEF t
<1>7. tracker' \in [WId -> Tracker \cup {None}]
  BY <1>2, <1>6, WriteTypes, Zenon DEF StoreTyped
<1>8. ProcTyped'
  <2>1. CASE Turning
    BY <1>1, <1>2, <2>1, GotoWithTyped, Zenon DEF Follows, PC, AllocatePC, EarlyPC, FreePC
  <2>2. CASE Starting
    <3>1. PICK x \in Status : proc' = [proc EXCEPT ![p].pc = "rec_start", ![p].st = x, ![p].tr = t]
      BY <2>2, Zenon
    <3>2. Turned(p, "rec_start", proc[p].wl, x, t, proc[p].vols, proc[p].then)
      <4>1. "rec_start" \in PC /\ x \in Status \cup {None} /\ t \in Tracker \cup {None}
        BY <1>3, Zenon DEF PC
      <4> QED BY <1>2, <3>1, <4>1, Turns, Zenon
    <3>3. Held(proc'[p])
      BY <1>2, <1>3, <3>2, Zenon DEF Turned, Held, StatusPC, AllocatePC, EarlyPC, FreePC
    <3> QED BY <1>2, <3>2, <3>3, TurnedTyped, Zenon
  <2> QED BY <1>6, <2>1, <2>2, Zenon
<1> QED BY <1>1, <1>2, <1>7, <1>8, Zenon DEF TypeInv, StoreTyped

\* The steps of a reconcile that start the workload.
LEMMA StartingSteps ==
  ASSUME TypeInv, NEW p \in Proc, ReconcileRestart(p) \/ ReconcileStart(p)
  PROVE  TypeInv'
<1>1. proc[p].pc \in {"rec_restart", "rec_start"} /\ UNCHANGED <<wl, st, lock, crashes, vol>>
  BY Zenon DEF ReconcileRestart, ReconcileStart, At
<1>2. /\ proc[p].id \in WId /\ ProcTyped /\ StoreTyped /\ proc[p].st \in Status
      /\ Mine(p) \in Resource \cup {None}
      /\ \A r \in Resource \cup {None} : SetMine(p, r) => res' \in [WType -> [WId -> Resource \cup {None}]]
  BY <1>1, MineTyped, Zenon DEF TypeInv, ProcTyped, Held, StatusPC
<1>3. res' \in [WType -> [WId -> Resource \cup {None}]]
  <2>1. \E r \in Resource \cup {None} : SetMine(p, r)
    BY <1>2, OutcomeTypes, Zenon DEF ReconcileRestart, ReconcileStart
  <2> QED BY <1>2, <2>1, Zenon
<1>4. {"Running", "Failed"} \subseteq Actual
  BY DEF Actual, ResourceState
<1>5. /\ UNCHANGED tracker \/ \E x \in Tracker \cup {None} : SetTracker(proc[p].id, x)
      /\ \E l \in {"rec_recheck", "save"} : \E s \in Status : GotoWith(p, l, s)
  <2>1. CASE ReconcileRestart(p)
    <3>1. PICK a \in {"Running", "Failed"} : GotoWith(p, "rec_recheck", [proc[p].st EXCEPT !.actual = a])
      BY <2>1, Zenon DEF ReconcileRestart
    <3>2. [proc[p].st EXCEPT !.actual = a] \in Status
      BY <1>2, <1>4, StatusTypes, Zenon
    <3>3. UNCHANGED tracker \/ SetTracker(proc[p].id, None)
      BY <2>1, Zenon DEF ReconcileRestart, resetRetryTracker
    <3> QED BY <3>1, <3>2, <3>3
  <2>2. CASE ReconcileStart(p)
    <3>1. proc[p].tr \in Tracker
      BY <2>2, Zenon DEF ReconcileStart, At, TypeInv, ProcTyped, Held
    <3>2. \/ SetTracker(proc[p].id, None) /\ GotoWith(p, "rec_recheck", [proc[p].st EXCEPT !.terminal = FALSE])
          \/ \E reason : \E x \in {None, RecordFailure(proc[p].tr, reason).tracker} :
               /\ SetTracker(proc[p].id, x)
               /\ GotoWith(p, "save", [proc[p].st EXCEPT !.actual = "Failed",
                                         !.terminal = @ \/ ~RecordFailure(proc[p].tr, reason).retryable])
      BY <2>2, Zenon DEF ReconcileStart, resetRetryTracker
    <3>3. CASE SetTracker(proc[p].id, None) /\ GotoWith(p, "rec_recheck", [proc[p].st EXCEPT !.terminal = FALSE])
      <4>1. [proc[p].st EXCEPT !.terminal = FALSE] \in Status
        BY <1>2, StatusTypes, Zenon
      <4> QED BY <3>3, <4>1, Zenon
    <3>4. ASSUME NEW reason, NEW x \in {None, RecordFailure(proc[p].tr, reason).tracker},
                 SetTracker(proc[p].id, x),
                 GotoWith(p, "save", [proc[p].st EXCEPT !.actual = "Failed",
                                        !.terminal = @ \/ ~RecordFailure(proc[p].tr, reason).retryable])
          PROVE  /\ \E y \in Tracker \cup {None} : SetTracker(proc[p].id, y)
                 /\ \E s \in Status : GotoWith(p, "save", s)
      <4> DEFINE b == proc[p].st.terminal \/ ~RecordFailure(proc[p].tr, reason).retryable
      <4>1. b \in BOOLEAN
        OBVIOUS
      <4>2. GotoWith(p, "save", [proc[p].st EXCEPT !.actual = "Failed", !.terminal = b])
        BY <3>4, Zenon
      <4> HIDE DEF b
      <4>3. [proc[p].st EXCEPT !.actual = "Failed", !.terminal = b] \in Status
        BY <1>2, <1>4, <4>1, StatusTypes, Zenon
      <4> QED BY <3>1, <3>4, <4>2, <4>3, TrackerTypes, Zenon
    <3> QED BY <3>2, <3>3, <3>4, Zenon
  <2> QED BY <2>1, <2>2
<1>6. tracker' \in [WId -> Tracker \cup {None}]
  BY <1>2, <1>5, WriteTypes, Zenon DEF StoreTyped
<1>7. ProcTyped'
  BY <1>1, <1>2, <1>5, GotoWithTyped, Zenon DEF Follows, PC, AllocatePC, EarlyPC, FreePC
<1> QED BY <1>1, <1>2, <1>3, <1>6, <1>7, Zenon DEF TypeInv, StoreTyped

\* A goroutine is given a new record.
LEMMA AnewTyped ==
  ASSUME ProcTyped, NEW p \in Proc, NEW r \in LocalState, Held(r), proc' = [proc EXCEPT ![p] = r]
  PROVE  ProcTyped'
BY Zenon DEF ProcTyped

\* The records with which an apply, another locked operation and a GetStatus begin.
Applying(l, i, q, w) == [IdleProc EXCEPT !.pc = l, !.id = i, !.req = q, !.wl = w]

Begun(l, i, w) == [IdleProc EXCEPT !.pc = l, !.id = i, !.wl = w]

Asking(l, i, s) == [IdleProc EXCEPT !.pc = l, !.id = i, !.st = s]

\* They are local states with these fields.
LEMMA FreshApply ==
  ASSUME NEW i \in WId, NEW l \in PC, NEW q \in Workload, NEW w \in Workload \cup {None}
  PROVE  LET x == Applying(l, i, q, w)
         IN  x \in LocalState /\ x.pc = l /\ x.id = i /\ x.req = q /\ x.wl = w /\ x.vols = <<>>
<1>1. [[IdleProc EXCEPT !.pc = l] EXCEPT !.id = i] \in LocalState
  BY IdleTyped, OneField, Zenon
<1>2. [[[IdleProc EXCEPT !.pc = l] EXCEPT !.id = i] EXCEPT !.req = q] \in LocalState
  BY <1>1, OneField, Zenon
<1>3. [[[[IdleProc EXCEPT !.pc = l] EXCEPT !.id = i] EXCEPT !.req = q] EXCEPT !.wl = w] \in LocalState
  BY <1>2, OneField, Zenon
<1>4. Applying(l, i, q, w) \in LocalState
  BY <1>3, Zenon DEF Applying
<1> QED BY <1>4, SMT DEF Applying, IdleProc

\* The same of the goroutine of a delete or of a reconcile.
LEMMA FreshBegun ==
  ASSUME NEW i \in WId, NEW l \in PC, NEW w \in Workload \cup {None}
  PROVE  LET x == Begun(l, i, w)
         IN  x \in LocalState /\ x.pc = l /\ x.id = i /\ x.wl = w /\ x.vols = <<>>
<1>1. [[IdleProc EXCEPT !.pc = l] EXCEPT !.id = i] \in LocalState
  BY IdleTyped, OneField, Zenon
<1>2. [[[IdleProc EXCEPT !.pc = l] EXCEPT !.id = i] EXCEPT !.wl = w] \in LocalState
  BY <1>1, OneField, Zenon
<1>3. Begun(l, i, w) \in LocalState
  BY <1>2, Zenon DEF Begun
<1> QED BY <1>3, SMT DEF Begun, IdleProc

\* The same of the goroutine that reads a status.
LEMMA FreshAsking ==
  ASSUME NEW i \in WId, NEW l \in PC, NEW s \in Status \cup {None}
  PROVE  LET x == Asking(l, i, s)
         IN  x \in LocalState /\ x.pc = l /\ x.id = i /\ x.st = s /\ x.vols = <<>>
<1>1. [[IdleProc EXCEPT !.pc = l] EXCEPT !.id = i] \in LocalState
  BY IdleTyped, OneField, Zenon
<1>2. [[[IdleProc EXCEPT !.pc = l] EXCEPT !.id = i] EXCEPT !.st = s] \in LocalState
  BY <1>1, OneField, Zenon
<1>3. Asking(l, i, s) \in LocalState
  BY <1>2, Zenon DEF Asking
<1> QED BY <1>3, SMT DEF Asking, IdleProc

\* The operations begin.
LEMMA BeginningSteps ==
  ASSUME TypeInv, NEW p \in Proc, NEW i \in WId,
         \/ \E w \in Request : ApplyWorkload(p, i, w)
         \/ DeleteWorkload(p, i) \/ ReconcileWorkload(p, i) \/ GetStatus(p, i)
  PROVE  TypeInv'
<1>1. ProcTyped /\ StoreTyped /\ wl[i] \in Workload \cup {None} /\ st[i] \in Status \cup {None}
  BY DEF TypeInv, StoreTyped
<1>2. {"apply_status", "apply_admit", "delete_runtime", "rec_load", "get_workload"} \subseteq PC
  BY ZenonT(30) DEF PC
<1>3. ASSUME NEW w \in Request, ApplyWorkload(p, i, w) PROVE TypeInv'
  <2> DEFINE l == IF GetWorkload(i) # None /\ GetWorkload(i).rev = w.rev THEN "apply_status" ELSE "apply_admit"
             r == Applying(l, i, w, wl[i])
  <2>1. l \in {"apply_status", "apply_admit"} /\ (l = "apply_status" => wl[i] # None) /\ w \in Workload
    BY Zenon DEF GetWorkload, Request
  <2>2. proc' = [proc EXCEPT ![p] = r] /\ lock' = [lock EXCEPT ![i] = p] /\ UNCHANGED <<wl, st, res, tracker, crashes, vol>>
    BY <1>3, Zenon DEF ApplyWorkload, GetWorkload, Applying
  <2> HIDE DEF l
  <2>a. r = Applying(l, i, w, wl[i])
    BY Zenon
  <2> HIDE DEF r
  <2>3. r \in LocalState /\ r.pc = l /\ r.id = i /\ r.req = w /\ r.wl = wl[i] /\ r.vols = <<>>
    <3>1. l \in PC
      BY <1>2, <2>1
    <3>2. w \in Workload /\ wl[i] \in Workload \cup {None}
      BY <1>1, <2>1, Zenon
    <3> QED BY ONLY <2>a, <3>1, <3>2, i \in WId, FreshApply, SMTT(30)
  <2>4. Held(r)
    BY <1>1, <2>1, <2>3 DEF Held, StatusPC, AllocatePC, EarlyPC, FreePC
  <2>5. ProcTyped' /\ lock' \in [WId -> Proc \cup {None}]
    BY <1>1, <2>2, <2>3, <2>4, AnewTyped, WriteTypes, Zenon
  <2> QED BY <1>1, <2>2, <2>5, Zenon DEF TypeInv, StoreTyped
<1>4. CASE DeleteWorkload(p, i) \/ ReconcileWorkload(p, i)
  <2>1. PICK l \in {"delete_runtime", "rec_load"} :
          /\ proc' = [proc EXCEPT ![p] = Begun(l, i, wl[i])]
          /\ wl[i] # None
          /\ lock' = [lock EXCEPT ![i] = p] /\ UNCHANGED <<wl, st, res, tracker, crashes, vol>>
    BY <1>4, Zenon DEF Begun, DeleteWorkload, ReconcileWorkload, GetWorkload, ListWorkloads
  <2> DEFINE r == Begun(l, i, wl[i])
  <2>a. r = Begun(l, i, wl[i]) /\ proc' = [proc EXCEPT ![p] = r]
    BY <2>1, Zenon
  <2> HIDE DEF r
  <2>2. r \in LocalState /\ r.pc = l /\ r.id = i /\ r.wl = wl[i] /\ r.vols = <<>>
    <3>1. l \in PC
      BY <1>2, <2>1
    <3>2. wl[i] \in Workload \cup {None}
      BY <1>1, Zenon
    <3> QED BY ONLY <2>a, <3>1, <3>2, i \in WId, FreshBegun, SMTT(30)
  <2>4. Held(r)
    BY <1>1, <2>1, <2>2 DEF Held, StatusPC, AllocatePC, EarlyPC, FreePC
  <2>5. ProcTyped' /\ lock' \in [WId -> Proc \cup {None}]
    BY <1>1, <2>1, <2>2, <2>a, <2>4, AnewTyped, WriteTypes, ZenonT(40)
  <2> QED BY <1>1, <2>1, <2>5 DEF TypeInv, StoreTyped
<1>5. CASE GetStatus(p, i)
  <2> DEFINE r == Asking("get_workload", i, st[i])
  <2>a. /\ r = Asking("get_workload", i, st[i]) /\ proc' = [proc EXCEPT ![p] = r]
        /\ st[i] # None /\ UNCHANGED <<wl, st, res, tracker, lock, crashes, vol>>
    BY <1>5, Zenon DEF Asking, GetStatus, ListStatuses, StoredStatus
  <2> HIDE DEF r
  <2>1. r \in LocalState /\ r.pc = "get_workload" /\ r.id = i /\ r.st = st[i] /\ r.vols = <<>>
    <3>1. "get_workload" \in PC
      BY <1>2
    <3>2. st[i] \in Status \cup {None}
      BY <1>1, Zenon
    <3> QED BY ONLY <2>a, <3>1, <3>2, i \in WId, FreshAsking, SMTT(30)
  <2>3. Held(r)
    BY <1>1, <2>1, <2>a, Zenon DEF Held, StatusPC, AllocatePC, EarlyPC, FreePC
  <2>4. ProcTyped'
    BY <1>1, <2>1, <2>a, <2>3, AnewTyped, Zenon
  <2> QED BY <1>1, <2>a, <2>4 DEF TypeInv, StoreTyped
<1> QED BY <1>3, <1>4, <1>5, Zenon

\* The steps of a GetStatus.
LEMMA GettingSteps ==
  ASSUME TypeInv, NEW p \in Proc, GetStep(p)
  PROVE  TypeInv'
<1>1. /\ proc[p].pc \in {"get_workload", "get_observe", "get_save"}
      /\ UNCHANGED <<wl, res, lock, crashes, vol>>
  BY DEF GetStep, GetStatusWorkload, GetStatusObserve, GetStatusSave, At
<1>2. /\ ProcTyped /\ StoreTyped /\ Held(proc[p]) /\ proc[p] \in LocalState /\ proc \in [Proc -> LocalState]
      /\ proc[p].id \in WId /\ proc[p].st \in Status /\ wl[proc[p].id] \in Workload \cup {None}
  BY <1>1, Zenon DEF TypeInv, StoreTyped, ProcTyped, Held, StatusPC
<1>3. proc' = [proc EXCEPT ![p] = IdleProc] => ProcTyped'
  BY <1>2, IdleTyped, AnewTyped, Zenon
<1>4. CASE GetStatusWorkload(p)
  <2> DEFINE w == wl[proc[p].id]
             r == [proc[p] EXCEPT !.pc = "get_observe", !.wl = w]
  <2>1. proc[p].pc = "get_workload" /\ UNCHANGED <<wl, st, res, tracker, lock, crashes, vol>>
    BY <1>4 DEF GetStatusWorkload, At
  <2>2. proc' = [proc EXCEPT ![p] = IdleProc] \/ (proc' = [proc EXCEPT ![p] = r] /\ w # None)
    BY <1>4, Zenon DEF GetStatusWorkload, GetWorkload
  <2>3. w # None => r \in LocalState
    <3>1. "get_observe" \in PC /\ w \in Workload \cup {None}
      BY <1>2 DEF PC
    <3> QED BY <1>2, <3>1, SeveralFields, Zenon
  <2>4. w # None => Held(r)
    <3>1. r.pc = "get_observe" /\ r.id = proc[p].id /\ r.wl = w /\ r.st = proc[p].st
      BY <1>2, Zenon DEF LocalState
    <3> HIDE DEF r
    <3> QED BY <1>2, <3>1, Zenon DEF Held, StatusPC, AllocatePC, EarlyPC, FreePC
  <2> HIDE DEF r
  <2>5. ProcTyped'
    BY <1>2, <1>3, <2>2, <2>3, <2>4, AnewTyped, ZenonT(30)
  <2> QED BY <1>2, <2>1, <2>5 DEF TypeInv, StoreTyped
<1>5. CASE GetStatusObserve(p)
  <2>1. proc[p].pc = "get_observe" /\ UNCHANGED <<wl, st, res, lock, crashes, vol>>
    BY <1>5 DEF GetStatusObserve, At
  <2>2. UNCHANGED tracker \/ SetTracker(proc[p].id, None)
    BY <1>5 DEF GetStatusObserve, resetRetryTracker
  <2>3. PICK a \in StatusOutcomes(Mine(p)) :
          IF a = "error" THEN proc' = [proc EXCEPT ![p] = IdleProc]
          ELSE GotoWith(p, "get_save",
                 ClearedIfStopped([proc[p].st EXCEPT !.actual = normalizeStateForDesired(proc[p].wl.desired, a)],
                                  proc[p].wl.desired))
    BY <1>5, Zenon DEF GetStatusObserve
  <2> DEFINE s == [proc[p].st EXCEPT !.actual = normalizeStateForDesired(proc[p].wl.desired, a)]
  <2>4. a # "error" => s \in Status
    <3>1. a # "error" => normalizeStateForDesired(proc[p].wl.desired, a) \in Actual
      BY <2>1, <2>3, MineTyped, AnswerTypes, Zenon DEF normalizeStateForDesired, Actual, ResourceState
    <3> QED BY <1>2, <3>1, StatusTypes, Zenon
  <2> HIDE DEF s
  <2>5. a # "error" => ClearedIfStopped(s, proc[p].wl.desired) \in Status
    BY <2>4, StatusTypes, Zenon DEF ClearedIfStopped
  <2>6. a # "error" => GotoWith(p, "get_save", ClearedIfStopped(s, proc[p].wl.desired))
    BY <2>3 DEF s
  <2>7. ProcTyped'
    BY <1>2, <1>3, <2>1, <2>3, <2>5, <2>6, GotoWithTyped, ZenonT(30) DEF Follows, PC, AllocatePC, EarlyPC, FreePC
  <2>8. tracker' \in [WId -> Tracker \cup {None}]
    BY <1>2, <2>2, WriteTypes, Zenon DEF StoreTyped
  <2> QED BY <1>2, <2>1, <2>7, <2>8, Zenon DEF TypeInv, StoreTyped
<1>6. CASE GetStatusSave(p)
  <2>1. st' \in [WId -> Status \cup {None}]
    BY <1>2, <1>6, WriteTypes, Zenon DEF GetStatusSave
  <2> QED BY <1>2, <1>3, <1>6, <2>1, Zenon DEF GetStatusSave, TypeInv, StoreTyped
<1> QED BY <1>4, <1>5, <1>6 DEF GetStep

\* Waited and Aged make statuses of statuses, and Elapsed trackers of trackers.
LEMMA TimeTypes ==
  /\ \A s \in Status \cup {None} : Waited(s) \in Status \cup {None} /\ Aged(s) \in Status \cup {None}
  /\ \A s \in Status : Waited(s) \in Status /\ Aged(s) \in Status
  /\ \A t \in Tracker \cup {None} : Elapsed(t) \in Tracker \cup {None}
<1>1. ASSUME NEW s \in Status PROVE Waited(s) \in Status \cup {None} /\ (s # None => Waited(s) \in Status)
  BY StatusTypes, Zenon DEF Waited
<1>2. ASSUME NEW s \in Status PROVE Waited(s) \in Status
  BY StatusTypes, Zenon DEF Waited
<1>3. ASSUME NEW s \in Status PROVE Aged(s) \in Status
  BY <1>2, StatusTypes, Zenon DEF Aged
<1>4. Waited(None) = None /\ Aged(None) = None
  BY DEF Waited, Aged
<1>5. ASSUME NEW t \in Tracker \cup {None} PROVE Elapsed(t) \in Tracker \cup {None}
  BY TrackerTypes DEF Elapsed
<1> QED BY <1>2, <1>3, <1>4, <1>5, Zenon

\* The steps of the environment.
LEMMA EnvironmentSteps ==
  ASSUME TypeInv, Surroundings \/ Crash \/ PendingThresholdPasses \/ FailedTTLPasses
  PROVE  TypeInv'
<1>1. ProcTyped /\ StoreTyped
  BY Zenon DEF TypeInv
<1>3. CASE BackoffElapses
  <2>1. tracker' \in [WId -> Tracker \cup {None}]
    BY <1>1, <1>3, TimeTypes, Zenon DEF BackoffElapses, StoreTyped
  <2> QED BY <1>1, <1>3, <2>1, Zenon DEF BackoffElapses, TypeInv, StoreTyped, ProcTyped
<1>4. ASSUME NEW ty \in WType, NEW i \in WId, Drift(ty, i) PROVE TypeInv'
  <2>1. res[ty][i] \in Resource \cup {None}
    BY <1>1, Zenon DEF StoreTyped
  <2>2. \E r \in Resource \cup {None} : res' = [res EXCEPT ![ty][i] = r]
    BY <1>4, <2>1, OutcomeTypes, Zenon DEF Drift
  <2>3. res' \in [WType -> [WId -> Resource \cup {None}]]
    BY <1>1, <2>2, WriteTypes, Zenon
  <2> QED BY <1>1, <1>4, <2>3, Zenon DEF Drift, TypeInv, StoreTyped, ProcTyped
<1>5. CASE Crash
  <2>1. ProcTyped'
    BY <1>5, IdleTyped, Zenon DEF Crash, ProcTyped
  <2>2. crashes' \in 0 .. MaxCrashes
    BY <1>1, <1>5, ConfigAssumption, SMTT(30) DEF Crash, StoreTyped
  <2>3. lock' \in [WId -> Proc \cup {None}] /\ tracker' \in [WId -> Tracker \cup {None}]
    BY <1>5 DEF Crash
  <2>4. UNCHANGED <<wl, st, res, vol>>
    BY <1>5, Zenon DEF Crash
  <2> QED BY <1>1, <2>1, <2>2, <2>3, <2>4, SMTT(30) DEF TypeInv, StoreTyped
<1>6. CASE PendingThresholdPasses \/ FailedTTLPasses
  <2>1. UNCHANGED <<wl, res, lock, crashes, vol>>
    BY <1>6 DEF PendingThresholdPasses, FailedTTLPasses
  <2>2. tracker' \in [WId -> Tracker \cup {None}] /\ st' \in [WId -> Status \cup {None}]
    BY <1>1, <1>6, TimeTypes DEF PendingThresholdPasses, FailedTTLPasses, StoreTyped
  <2>3. ASSUME NEW p \in Proc, NEW s \in Status \cup {None}, proc[p].st \in Status => s \in Status
        PROVE  [proc[p] EXCEPT !.st = s] \in LocalState /\ Held([proc[p] EXCEPT !.st = s])
    <3> DEFINE r == [proc[p] EXCEPT !.st = s]
    <3>1. proc[p] \in LocalState /\ Held(proc[p])
      BY <1>1 DEF ProcTyped
    <3>2. r \in LocalState
      BY <3>1, OneField
    <3>3. /\ r.pc = proc[p].pc /\ r.id = proc[p].id /\ r.req = proc[p].req /\ r.wl = proc[p].wl
          /\ r.st = s /\ r.tr = proc[p].tr /\ r.vols = proc[p].vols /\ r.then = proc[p].then
      BY <3>1, Zenon DEF LocalState
    <3> HIDE DEF r
    <3>4. Held(r)
      BY <2>3, <3>1, <3>3, Zenon DEF Held
    <3> QED BY <3>2, <3>4 DEF r
  <2>4. ASSUME NEW p \in Proc
        PROVE  LET s == IF PendingThresholdPasses THEN Waited(proc[p].st) ELSE Aged(proc[p].st)
               IN  s \in Status \cup {None} /\ (proc[p].st \in Status => s \in Status)
    <3>1. proc[p].st \in Status \cup {None}
      BY <1>1 DEF ProcTyped, LocalState
    <3> QED BY <3>1, TimeTypes, Zenon
  <2>5. ProcTyped'
    <3>1. CASE PendingThresholdPasses
      <4>1. proc' = [p \in Proc |-> [proc[p] EXCEPT !.st = Waited(proc[p].st)]]
        BY <3>1, Zenon DEF PendingThresholdPasses
      <4> QED BY <2>3, <2>4, <3>1, <4>1 DEF ProcTyped
    <3>2. CASE FailedTTLPasses /\ ~PendingThresholdPasses
      <4>1. proc' = [p \in Proc |-> [proc[p] EXCEPT !.st = Aged(proc[p].st)]]
        BY <3>2, Zenon DEF FailedTTLPasses
      <4> QED BY <2>3, <2>4, <3>2, <4>1, Zenon DEF ProcTyped
    <3> QED BY <1>6, <3>1, <3>2
  <2> QED BY <1>1, <2>1, <2>2, <2>5, Zenon DEF TypeInv, StoreTyped
<1> QED BY <1>3, <1>4, <1>5, <1>6, Zenon DEF Surroundings

\* The types of the manager stand while none of its variables changes.
LEMMA TypesStand == TypeInv /\ UNCHANGED vars => TypeInv'
BY Zenon DEF vars, TypeInv, StoreTyped, ProcTyped

\* The collector's local variables that are in use where it stands.
GCHeld ==
  /\ gc \in GCLocal
  /\ gc.pc \in {"orphans_state", "orphans_delete"} => gc.type \in WType
  /\ gc.pc \in {"zombies_delete", "zombies_read", "zombies_write"} => gc.id \in WId
  /\ gc.pc \in {"zombies_status", "zombies_delete", "zombies_read", "zombies_write"}
       => \A i \in gc.ids : gc.listed[i] \in WType
  /\ gc.pc \in {"zombies_read", "zombies_write"} => gc.msg \in Actual
  /\ gc.pc = "zombies_write" => gc.st \in Status

\* A local state of the collector stays one under an assignment to a field.
LEMMA GCField ==
  ASSUME NEW r \in GCLocal
  PROVE  /\ \A l \in GCPC : [r EXCEPT !.pc = l] \in GCLocal
         /\ \A T \in SUBSET WType : [r EXCEPT !.types = T] \in GCLocal
         /\ \A ty \in WType \cup {None} : [r EXCEPT !.type = ty] \in GCLocal
         /\ \A S \in SUBSET WId : [r EXCEPT !.ids = S] \in GCLocal
         /\ \A i \in WId \cup {None} : [r EXCEPT !.id = i] \in GCLocal
         /\ \A f \in [WId -> WType \cup {None}] : [r EXCEPT !.listed = f] \in GCLocal
         /\ \A a \in Actual \cup {None} : [r EXCEPT !.msg = a] \in GCLocal
         /\ \A s \in Status \cup {None} : [r EXCEPT !.st = s] \in GCLocal
<1>1. ASSUME NEW l \in GCPC PROVE [r EXCEPT !.pc = l] \in GCLocal
  BY <1>1 DEF GCLocal
<1>2. ASSUME NEW T \in SUBSET WType PROVE [r EXCEPT !.types = T] \in GCLocal
  BY <1>2 DEF GCLocal
<1>3. ASSUME NEW ty \in WType \cup {None} PROVE [r EXCEPT !.type = ty] \in GCLocal
  BY <1>3 DEF GCLocal
<1>4. ASSUME NEW S \in SUBSET WId PROVE [r EXCEPT !.ids = S] \in GCLocal
  BY <1>4 DEF GCLocal
<1>5. ASSUME NEW i \in WId \cup {None} PROVE [r EXCEPT !.id = i] \in GCLocal
  BY <1>5 DEF GCLocal
<1>6. ASSUME NEW f \in [WId -> WType \cup {None}] PROVE [r EXCEPT !.listed = f] \in GCLocal
  BY <1>6 DEF GCLocal
<1>7. ASSUME NEW a \in Actual \cup {None} PROVE [r EXCEPT !.msg = a] \in GCLocal
  BY <1>7 DEF GCLocal
<1>8. ASSUME NEW s \in Status \cup {None} PROVE [r EXCEPT !.st = s] \in GCLocal
  BY <1>8 DEF GCLocal
<1> QED BY <1>1, <1>2, <1>3, <1>4, <1>5, <1>6, <1>7, <1>8, ZenonT(30)

\* The collector between cycles.
LEMMA IdleCollector ==
  /\ IdleGC \in GCLocal /\ IdleGC.pc = "idle"
  /\ [IdleGC EXCEPT !.pc = "list", !.types = OrphanTypes \cap Registered] \in GCLocal
  /\ [IdleGC EXCEPT !.pc = "list", !.types = OrphanTypes \cap Registered].pc = "list"
<1>1. IdleGC \in GCLocal /\ IdleGC.pc = "idle"
  BY DEF IdleGC, GCLocal, GCPC
<1>2. OrphanTypes \cap Registered \in SUBSET WType /\ "list" \in GCPC
  BY OrphanTypesAssumption DEF GCPC
<1>3. [[IdleGC EXCEPT !.pc = "list"] EXCEPT !.types = OrphanTypes \cap Registered] \in GCLocal
  BY <1>1, <1>2, GCField, Zenon
<1>4. [IdleGC EXCEPT !.pc = "list", !.types = OrphanTypes \cap Registered].pc = "list"
  BY DEF IdleGC
<1> QED BY <1>1, <1>3, <1>4, ZenonT(30)

\* The phase that looks for orphans.
LEMMA OrphansSteps ==
  ASSUME TypeInv, GCHeld, collect \/ OrphansList \/ OrphansState \/ OrphansDelete
  PROVE  TypeInv' /\ GCHeld'
<1>1. gc \in GCLocal /\ TypeInv
  BY Zenon DEF GCHeld
<1>2. CASE collect
  <2>1. gc' \in GCLocal /\ gc'.pc = "list" /\ UNCHANGED vars
    BY <1>2, IdleCollector, Zenon DEF collect
  <2> QED BY <2>1, TypesStand DEF GCHeld
<1>3. CASE OrphansList
  <2>1. gc.pc = "list" /\ UNCHANGED vars
    BY <1>3, Zenon DEF OrphansList
  <2>2. gc.types \in SUBSET WType
    BY <1>1, Zenon DEF GCLocal
  <2>3. CASE gc' = [gc EXCEPT !.pc = "failed"]
    <3>1. gc' \in GCLocal /\ gc'.pc = "failed"
      <4>1. "failed" \in GCPC
        BY DEF GCPC
      <4>2. gc' \in GCLocal
        BY <1>1, <2>3, <4>1, GCField, Zenon
      <4> QED BY <1>1, <2>3, <4>2, Zenon DEF GCLocal
    <3> QED BY <2>1, <3>1, TypesStand, Zenon DEF GCHeld
  <2>4. ASSUME NEW ty \in gc.types, NEW found \in ListOutcomes(res[ty]),
               gc' = IF found = None THEN [gc EXCEPT !.types = @ \ {ty}]
                     ELSE [gc EXCEPT !.types = @ \ {ty}, !.type = ty, !.ids = found, !.pc = "orphans_state"]
        PROVE  GCHeld'
    <3> DEFINE T == gc.types \ {ty}
    <3>1. T \in SUBSET WType /\ ty \in WType
      BY <2>2, <2>4
    <3>2. found # None => found \in SUBSET WId
      BY <2>4, <3>1, Zenon DEF ListOutcomes, Faulty, TypeInv, StoreTyped
    <3> HIDE DEF T
    <3>3. [gc EXCEPT !.types = T] \in GCLocal
      BY <1>1, <3>1, GCField, Zenon
    <3>4. CASE found = None
      <4>1. gc' = [gc EXCEPT !.types = T]
        BY <2>4, <3>4, Zenon DEF T
      <4>2. gc'.pc = "list"
        BY <1>1, <2>1, <4>1, Zenon DEF GCLocal
      <4> QED BY <3>3, <4>1, <4>2, Zenon DEF GCHeld
    <3>5. CASE found # None
      <4>1. gc' = [gc EXCEPT !.types = T, !.type = ty, !.ids = found, !.pc = "orphans_state"]
        BY <2>4, <3>5, Zenon DEF T
      <4>2. "orphans_state" \in GCPC /\ ty \in WType \cup {None}
        BY <3>1 DEF GCPC
      <4>3. [[gc EXCEPT !.types = T] EXCEPT !.type = ty] \in GCLocal
        BY <3>3, <4>2, GCField, Zenon
      <4>4. [[[gc EXCEPT !.types = T] EXCEPT !.type = ty] EXCEPT !.ids = found] \in GCLocal
        BY <3>2, <3>5, <4>3, GCField, Zenon
      <4>5. [[[[gc EXCEPT !.types = T] EXCEPT !.type = ty] EXCEPT !.ids = found] EXCEPT !.pc = "orphans_state"] \in GCLocal
        BY <4>2, <4>4, GCField, Zenon
      <4>6. gc'.pc = "orphans_state" /\ gc'.type = ty
        BY <1>1, <4>1 DEF GCLocal
      <4> QED BY <3>1, <4>1, <4>5, <4>6, Zenon DEF GCHeld
    <3> QED BY <3>4, <3>5
  <2> QED BY <1>1, <1>3, <2>1, <2>3, <2>4, TypesStand, Zenon DEF OrphansList
<1>4. CASE OrphansState
  <2> DEFINE S == gc.ids \ ListWorkloads
  <2>1. gc.pc = "orphans_state" /\ UNCHANGED vars /\ gc' = [gc EXCEPT !.pc = "orphans_delete", !.ids = S]
    BY <1>4 DEF OrphansState
  <2>2. S \in SUBSET WId /\ "orphans_delete" \in GCPC
    BY <1>1 DEF GCLocal, GCPC
  <2> HIDE DEF S
  <2>3. [gc EXCEPT !.pc = "orphans_delete"] \in GCLocal
    BY <1>1, <2>2, GCField
  <2>4. [[gc EXCEPT !.pc = "orphans_delete"] EXCEPT !.ids = S] \in GCLocal
    BY <2>2, <2>3, GCField, Zenon
  <2>5. gc'.pc = "orphans_delete" /\ gc'.type = gc.type
    BY <1>1, <2>1, Zenon DEF GCLocal
  <2> QED BY <2>1, <2>4, <2>5, TypesStand, Zenon DEF GCHeld
<1>5. CASE OrphansDelete
  <2>1. gc.pc = "orphans_delete" /\ UNCHANGED <<wl, st, tracker, lock, proc, crashes, vol>> /\ gc.type \in WType
    BY <1>5 DEF OrphansDelete, GCHeld
  <2>2. CASE gc' = [gc EXCEPT !.pc = "list", !.type = None] /\ UNCHANGED res
    <3>1. "list" \in GCPC
      BY DEF GCPC
    <3>2. [gc EXCEPT !.pc = "list"] \in GCLocal
      BY <1>1, <3>1, GCField
    <3>3. [[gc EXCEPT !.pc = "list"] EXCEPT !.type = None] \in GCLocal
      BY <3>2, GCField, Zenon
    <3>4. gc'.pc = "list"
      BY <1>1, <2>2, Zenon DEF GCLocal
    <3> QED BY <2>1, <2>2, <3>3, <3>4, TypesStand, ZenonT(30) DEF GCHeld, vars
  <2>3. ASSUME NEW i \in gc.ids, gc' = [gc EXCEPT !.ids = @ \ {i}],
               \E o \in DeleteOutcomes(res[gc.type][i]) : res' = [res EXCEPT ![gc.type][i] = o.res]
        PROVE  TypeInv' /\ GCHeld'
    <3>1. i \in WId /\ gc.ids \ {i} \in SUBSET WId
      BY <1>1, <2>3, Zenon DEF GCLocal
    <3>2. gc' \in GCLocal /\ gc'.pc = gc.pc /\ gc'.type = gc.type
      BY <1>1, <2>3, <3>1, GCField, ZenonT(40) DEF GCLocal
    <3>3. res' \in [WType -> [WId -> Resource \cup {None}]]
      <4>1. res[gc.type][i] \in Resource \cup {None} /\ StoreTyped
        BY <2>1, <3>1 DEF TypeInv, StoreTyped
      <4>2. \E r \in Resource \cup {None} : res' = [res EXCEPT ![gc.type][i] = r]
        BY <2>3, <4>1, OutcomeTypes, Zenon
      <4> QED BY <2>1, <3>1, <4>1, <4>2, WriteTypes, ZenonT(30)
    <3> QED BY <2>1, <3>2, <3>3, Zenon DEF GCHeld, TypeInv, StoreTyped, ProcTyped
  <2> QED BY <1>5, <2>2, <2>3, Zenon DEF OrphansDelete
<1> QED BY <1>2, <1>3, <1>4, <1>5, Zenon

\* The phase that drops workloads that failed long ago.
LEMMA FailedSteps ==
  ASSUME TypeInv, GCHeld, FailedList \/ FailedDelete
  PROVE  TypeInv' /\ GCHeld'
<1>1. gc \in GCLocal /\ StoreTyped
  BY DEF GCHeld, TypeInv
<1>2. CASE FailedList
  <2> DEFINE S == {i \in ListStatuses : st[i].actual = "Failed" /\ st[i].age = "old"}
  <2>1. UNCHANGED vars /\ gc' = [gc EXCEPT !.pc = "failed_delete", !.ids = S]
    BY <1>2 DEF FailedList
  <2>2. S \in SUBSET WId /\ "failed_delete" \in GCPC
    BY DEF GCPC, ListStatuses
  <2> HIDE DEF S
  <2>3. [gc EXCEPT !.pc = "failed_delete"] \in GCLocal
    BY <1>1, <2>2, GCField
  <2>4. [[gc EXCEPT !.pc = "failed_delete"] EXCEPT !.ids = S] \in GCLocal
    BY <2>2, <2>3, GCField, Zenon
  <2>5. gc'.pc = "failed_delete"
    BY <1>1, <2>1, Zenon DEF GCLocal
  <2> QED BY <2>1, <2>4, <2>5, TypesStand, SMTT(30) DEF GCHeld
<1>3. CASE FailedDelete
  <2>1. gc.pc = "failed_delete" /\ UNCHANGED <<res, tracker, lock, proc, crashes>>
    BY <1>3 DEF FailedDelete
  <2>2. CASE gc' = [gc EXCEPT !.pc = "zombies"] /\ UNCHANGED <<wl, st, vol>>
    <3>1. gc' \in GCLocal /\ gc'.pc = "zombies"
      <4>1. "zombies" \in GCPC
        BY DEF GCPC
      <4>2. gc' \in GCLocal
        BY <1>1, <2>2, <4>1, GCField, Zenon
      <4> QED BY <1>1, <2>2, <4>2, Zenon DEF GCLocal
    <3> QED BY <2>1, <2>2, <3>1, TypesStand, Zenon DEF GCHeld, vars
  <2>3. ASSUME NEW i \in gc.ids, gc' = [gc EXCEPT !.ids = @ \ {i}], DeleteRecords(i) PROVE TypeInv' /\ GCHeld'
    <3>1. i \in WId /\ gc.ids \ {i} \in SUBSET WId
      BY <1>1, <2>3, Zenon DEF GCLocal
    <3>2. gc' \in GCLocal /\ gc'.pc = "failed_delete"
      BY <1>1, <2>1, <2>3, <3>1, GCField, Zenon DEF GCLocal
    <3>3. wl' \in [WId -> Workload \cup {None}] /\ st' \in [WId -> Status \cup {None}] /\ vol' \in [Vol -> Volume(WId)]
      BY <1>1, <2>3, <3>1, WriteTypes, SMTT(30)
    <3> QED BY <2>1, <3>2, <3>3, Zenon DEF GCHeld, TypeInv, StoreTyped, ProcTyped
  <2> QED BY <1>3, <2>2, <2>3, Zenon DEF FailedDelete
<1> QED BY <1>2, <1>3, SMTT(30)

\* The phase that drops workloads whose resource cannot be asked.
LEMMA ZombiesSteps ==
  ASSUME TypeInv, GCHeld, ZombiesList \/ ZombiesStatus \/ ZombiesDelete \/ ZombiesRead \/ ZombiesWrite
  PROVE  TypeInv' /\ GCHeld'
<1>1. gc \in GCLocal /\ StoreTyped
  BY DEF GCHeld, TypeInv
<1>2. {"zombies_status", "zombies_delete", "zombies_read", "zombies_write"} \subseteq GCPC
  BY DEF GCPC
<1>3. CASE ZombiesList
  <2> DEFINE S == {i \in ListWorkloads : GetRuntime(wl[i].type)}
             f == [i \in WId |-> IF wl[i] = None THEN None ELSE wl[i].type]
  <2>1. UNCHANGED vars /\ gc' = [gc EXCEPT !.pc = "zombies_status", !.ids = S, !.listed = f]
    BY <1>3, Zenon DEF ZombiesList
  <2>2. S \in SUBSET WId /\ f \in [WId -> WType \cup {None}] /\ \A i \in S : f[i] \in WType
    BY <1>1 DEF ListWorkloads, StoreTyped, Workload
  <2> HIDE DEF S, f
  <2>3. [gc EXCEPT !.pc = "zombies_status"] \in GCLocal
    BY <1>1, <1>2, GCField, Zenon
  <2>4. [[gc EXCEPT !.pc = "zombies_status"] EXCEPT !.ids = S] \in GCLocal
    BY <2>2, <2>3, GCField, Zenon
  <2>5. [[[gc EXCEPT !.pc = "zombies_status"] EXCEPT !.ids = S] EXCEPT !.listed = f] \in GCLocal
    BY <2>2, <2>4, GCField, Zenon
  <2>6. gc'.pc = "zombies_status" /\ gc'.ids = S /\ gc'.listed = f
    BY <1>1, <2>1, Zenon DEF GCLocal
  <2> QED BY <2>1, <2>2, <2>5, <2>6, TypesStand, Zenon DEF GCHeld
<1>4. CASE ZombiesStatus
  <2>1. UNCHANGED vars /\ gc.pc = "zombies_status" /\ \A i \in gc.ids : gc.listed[i] \in WType
    BY <1>4, Zenon DEF ZombiesStatus, GCHeld
  <2>2. CASE gc' = IdleGC
    BY <2>1, <2>2, IdleCollector, TypesStand, Zenon DEF GCHeld
  <2>3. ASSUME NEW i \in gc.ids, NEW a \in StatusOutcomes(res[gc.listed[i]][i]),
               gc' = IF a = "error" THEN [gc EXCEPT !.ids = @ \ {i}, !.id = i, !.pc = "zombies_delete"]
                     ELSE [gc EXCEPT !.ids = @ \ {i}, !.id = i, !.pc = "zombies_read", !.msg = a]
        PROVE  GCHeld'
    <3> DEFINE S == gc.ids \ {i}
    <3>1. S \in SUBSET WId /\ i \in WId /\ i \in WId \cup {None} /\ \A j \in S : gc.listed[j] \in WType
      BY <1>1, <2>1, Zenon DEF GCLocal
    <3>2. a # "error" => a \in Actual
      <4>1. res[gc.listed[i]][i] \in Resource \cup {None}
        BY <1>1, <2>1, <3>1, ZenonT(30) DEF StoreTyped
      <4> QED BY <4>1, AnswerTypes, Zenon
    <3> HIDE DEF S
    <3>3. [gc EXCEPT !.ids = S] \in GCLocal
      BY <1>1, <3>1, GCField, Zenon
    <3>4. [[gc EXCEPT !.ids = S] EXCEPT !.id = i] \in GCLocal
      BY <3>1, <3>3, GCField, Zenon
    <3>5. CASE a = "error"
      <4>1. gc' = [gc EXCEPT !.ids = S, !.id = i, !.pc = "zombies_delete"]
        BY <2>3, <3>5, Zenon DEF S
      <4>2. "zombies_delete" \in GCPC
        BY <1>2
      <4>3. [[[gc EXCEPT !.ids = S] EXCEPT !.id = i] EXCEPT !.pc = "zombies_delete"] \in GCLocal
        BY <3>4, <4>2, GCField, Zenon
      <4>4. gc'.pc = "zombies_delete" /\ gc'.id = i /\ gc'.ids = S /\ gc'.listed = gc.listed
        BY <1>1, <4>1 DEF GCLocal
      <4> QED BY <3>1, <4>1, <4>3, <4>4, Zenon DEF GCHeld
    <3>6. CASE a # "error"
      <4>1. gc' = [gc EXCEPT !.ids = S, !.id = i, !.pc = "zombies_read", !.msg = a]
        BY <2>3, <3>6, Zenon DEF S
      <4>2. "zombies_read" \in GCPC /\ a \in Actual \cup {None}
        BY <1>2, <3>2, <3>6
      <4>3. [[[gc EXCEPT !.ids = S] EXCEPT !.id = i] EXCEPT !.pc = "zombies_read"] \in GCLocal
        BY <3>4, <4>2, GCField, Zenon
      <4>4. [[[[gc EXCEPT !.ids = S] EXCEPT !.id = i] EXCEPT !.pc = "zombies_read"] EXCEPT !.msg = a] \in GCLocal
        BY <4>2, <4>3, GCField, Zenon
      <4>5. gc'.pc = "zombies_read" /\ gc'.id = i /\ gc'.ids = S /\ gc'.listed = gc.listed /\ gc'.msg = a
        BY <1>1, <4>1, Zenon DEF GCLocal
      <4> QED BY <3>1, <3>2, <3>6, <4>1, <4>4, <4>5, Zenon DEF GCHeld
    <3> QED BY <3>5, <3>6, Zenon
  <2> QED BY <1>4, <2>1, <2>2, <2>3, TypesStand, Zenon DEF ZombiesStatus
<1>5. CASE ZombiesDelete
  <2>1. gc.pc = "zombies_delete" /\ UNCHANGED <<res, tracker, lock, proc, crashes>> /\ gc.id \in WId
        /\ \A i \in gc.ids : gc.listed[i] \in WType
    BY <1>5 DEF ZombiesDelete, GCHeld
  <2>2. gc' = [gc EXCEPT !.pc = "zombies_status", !.id = None]
    BY <1>5 DEF ZombiesDelete
  <2>3. wl' \in [WId -> Workload \cup {None}] /\ st' \in [WId -> Status \cup {None}] /\ vol' \in [Vol -> Volume(WId)]
    BY <1>1, <1>5, <2>1, WriteTypes, Zenon DEF ZombiesDelete
  <2>4. [gc EXCEPT !.pc = "zombies_status"] \in GCLocal
    BY <1>1, <1>2, GCField, Zenon
  <2>5. [[gc EXCEPT !.pc = "zombies_status"] EXCEPT !.id = None] \in GCLocal
    BY <2>4, GCField, Zenon
  <2>6. gc'.pc = "zombies_status" /\ gc'.ids = gc.ids /\ gc'.listed = gc.listed
    BY <1>1, <2>2, Zenon DEF GCLocal
  <2> QED BY <2>1, <2>2, <2>3, <2>5, <2>6, Zenon DEF GCHeld, TypeInv, StoreTyped, ProcTyped
<1>6. CASE ZombiesRead
  <2>1. /\ gc.pc = "zombies_read" /\ UNCHANGED vars /\ gc.id \in WId /\ gc.msg \in Actual
        /\ st[gc.id] \in Status \cup {None} /\ \A i \in gc.ids : gc.listed[i] \in WType
    BY <1>1, <1>6, Zenon DEF ZombiesRead, GCHeld, StoreTyped
  <2>2. CASE st[gc.id] = None
    <3>1. gc' = [gc EXCEPT !.pc = "zombies_status", !.id = None, !.msg = None]
      BY <1>6, <2>2 DEF ZombiesRead, StoredStatus
    <3>2. [gc EXCEPT !.pc = "zombies_status"] \in GCLocal
      BY <1>1, <1>2, GCField, Zenon
    <3>3. [[gc EXCEPT !.pc = "zombies_status"] EXCEPT !.id = None] \in GCLocal
      BY <3>2, GCField, Zenon
    <3>4. [[[gc EXCEPT !.pc = "zombies_status"] EXCEPT !.id = None] EXCEPT !.msg = None] \in GCLocal
      BY <3>3, GCField, Zenon
    <3>5. gc'.pc = "zombies_status" /\ gc'.ids = gc.ids /\ gc'.listed = gc.listed
      BY <1>1, <3>1 DEF GCLocal
    <3> QED BY <2>1, <3>1, <3>4, <3>5, TypesStand, Zenon DEF GCHeld
  <2>3. CASE st[gc.id] # None
    <3>1. gc' = [gc EXCEPT !.pc = "zombies_write", !.st = st[gc.id]]
      BY <1>6, <2>3 DEF ZombiesRead, StoredStatus
    <3>2. [gc EXCEPT !.pc = "zombies_write"] \in GCLocal
      BY <1>1, <1>2, GCField, Zenon
    <3>3. [[gc EXCEPT !.pc = "zombies_write"] EXCEPT !.st = st[gc.id]] \in GCLocal
      BY <2>1, <3>2, GCField, Zenon
    <3>4. /\ gc'.pc = "zombies_write" /\ gc'.ids = gc.ids /\ gc'.listed = gc.listed
          /\ gc'.id = gc.id /\ gc'.msg = gc.msg /\ gc'.st = st[gc.id]
      BY <1>1, <3>1, Zenon DEF GCLocal
    <3> QED BY <2>1, <2>3, <3>1, <3>3, <3>4, TypesStand, ZenonT(30) DEF GCHeld
  <2> QED BY <2>2, <2>3, Zenon
<1>7. CASE ZombiesWrite
  <2>1. /\ gc.pc = "zombies_write" /\ UNCHANGED <<wl, res, tracker, lock, proc, crashes, vol>> /\ gc.id \in WId
        /\ gc.msg \in Actual /\ gc.st \in Status /\ \A i \in gc.ids : gc.listed[i] \in WType
    BY <1>7, Zenon DEF ZombiesWrite, GCHeld
  <2>2. WithMessage(gc.st, gc.msg) \in Status
    BY <2>1, StatusTypes, Zenon DEF WithMessage, Actual
  <2>3. st' \in [WId -> Status \cup {None}]
    BY <1>1, <1>7, <2>1, <2>2, WriteTypes, Zenon DEF ZombiesWrite
  <2>4. gc' = [gc EXCEPT !.pc = "zombies_status", !.id = None, !.msg = None, !.st = None]
    BY <1>7 DEF ZombiesWrite
  <2>5. [gc EXCEPT !.pc = "zombies_status"] \in GCLocal
    BY <1>1, <1>2, GCField
  <2>6. [[gc EXCEPT !.pc = "zombies_status"] EXCEPT !.id = None] \in GCLocal
    BY <2>5, GCField, Zenon
  <2>7. [[[gc EXCEPT !.pc = "zombies_status"] EXCEPT !.id = None] EXCEPT !.msg = None] \in GCLocal
    BY <2>6, GCField, Zenon
  <2>8. [[[[gc EXCEPT !.pc = "zombies_status"] EXCEPT !.id = None] EXCEPT !.msg = None] EXCEPT !.st = None] \in GCLocal
    BY <2>7, GCField, Zenon
  <2>9. gc'.pc = "zombies_status" /\ gc'.ids = gc.ids /\ gc'.listed = gc.listed
    BY <1>1, <2>4 DEF GCLocal
  <2> QED BY <2>1, <2>3, <2>4, <2>8, <2>9, Zenon DEF GCHeld, TypeInv, StoreTyped, ProcTyped
<1> QED BY <1>3, <1>4, <1>5, <1>6, <1>7, SMTT(30)
===============================================================================
