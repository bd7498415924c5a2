--------------------------- MODULE ControlClient ---------------------------
(***************************************************************************)
(* The scheduler control client (internal/control/client.go): the loop of  *)
(* Run, which dials the scheduler, registers the node, sends a first       *)
(* heartbeat and then one per tick, and starts over when the lease has     *)
(* expired or a call fails.  What the heartbeat reports is read through    *)
(* the workload manager (GetProc of WorkloadManager); here it is left out. *)
(*                                                                         *)
(* Time is in seconds.  Timers count down, and no time passes while the    *)
(* client has something to do.                                             *)
(***************************************************************************)
EXTENDS Integers

CONSTANTS
  Intervals,  \* what the scheduler may send as heartbeat_interval_seconds
  Leases      \* for how many seconds a lease may be granted

ASSUME ControlAssumption == Intervals \subseteq Int /\ Leases \subseteq Nat

defaultRPCTimeout == 10

defaultHeartbeatSeconds == 10

MaxBackoff == 30

\* Failed attempts in a row are counted up to here: the back-off is at its limit.
MaxFails == 6

\* The zero time.Time, and a lease that has run out.
NoLease == -2

Expired == -1

VARIABLES
  pc,         \* where Run stands
  backoff,    \* its local variables backoff, interval and leaseExpiry, the
  interval,   \* latter as the time that is left
  lease,
  timer,      \* the time left of the sleep, or of the call under way
  ticker,     \* the time left to the next tick
  ticked,     \* a tick waits in ticker.C, which holds one
  orderly,    \* the scheduler and the TLS files are in order
  cancelled,  \* the context of Run
  fails       \* attempts that have failed since the last accepted registration

vars == <<pc, backoff, interval, lease, timer, ticker, ticked, orderly, cancelled, fails>>

Calls == {"register", "first", "heartbeat"}

\* The types of the variables; a ticker takes no interval of zero.
TypeOK ==
  /\ pc \in Calls \cup {"dial", "sleep", "wait", "exited"}
  /\ backoff \in 1 .. MaxBackoff
  /\ interval \in Nat \ {0}
  /\ lease \in Nat \cup {NoLease, Expired}
  /\ timer \in 0 .. MaxBackoff
  /\ ticker \in Nat \ {0}
  /\ ticked \in BOOLEAN /\ orderly \in BOOLEAN /\ cancelled \in BOOLEAN
  /\ fails \in 0 .. MaxFails

Init ==
  /\ pc = "dial"
  /\ backoff = 1
  /\ interval = defaultHeartbeatSeconds /\ ticker = defaultHeartbeatSeconds
  /\ lease = NoLease
  /\ timer = 0
  /\ ticked = FALSE
  /\ orderly \in BOOLEAN
  /\ cancelled = FALSE
  /\ fails = 0

-----------------------------------------------------------------------------
\* Faulty variants of the definitions below, used only to see that a property
\* notices: a context that is not passed on, a lease that is not
\* looked at, and one that is not renewed.
ctxIgnored == FALSE

leaseIgnored == FALSE

renewedNever(granted) == lease

nextBackoff(current) == IF current * 2 > MaxBackoff THEN MaxBackoff ELSE current * 2

ctxDone == cancelled

leaseExpired == lease = Expired

\* A heartbeat without a lease in its answer leaves the old one.
renewed(granted) == IF granted = NoLease THEN lease ELSE granted

KeepClock == UNCHANGED <<orderly, cancelled>>

Call(c) == pc' = c /\ timer' = defaultRPCTimeout

\* sleepWithContext follows a failed attempt.
Fail ==
  /\ pc' = "sleep"
  /\ timer' = backoff
  /\ fails' = IF fails = MaxFails THEN MaxFails ELSE fails + 1
  /\ UNCHANGED <<backoff, interval, lease, ticker, ticked>>

\* A call fails when the scheduler is not in order, at the latest when its time
\* is up, or when the context is done.
CallFails == ~orderly \/ timer = 0 \/ ctxDone

\* Faulty variant of Registered below: backoff is not reset.
RegisteredNoReset ==
  /\ pc = "register" /\ ~ctxDone /\ timer > 0
  /\ fails' = 0
  /\ \E s \in Intervals, l \in Leases :
       interval' = (IF s <= 0 THEN defaultHeartbeatSeconds ELSE s) /\ lease' = l
  /\ Call("first")
  /\ UNCHANGED <<backoff, ticker, ticked>> /\ KeepClock

\* What the scheduler grants: in order, no lease, or leases that outlive the first
\* heartbeat and the wait for the first tick, and that every heartbeat renews.
Granted(i) ==
  {NoLease} \cup IF orderly THEN {l \in Leases : l >= i + defaultRPCTimeout} ELSE Leases

Renewals == IF orderly /\ lease # NoLease THEN Granted(interval) \ {NoLease} ELSE Granted(interval)

Return ==
  /\ pc = "dial" /\ ctxDone
  /\ pc' = "exited"
  /\ UNCHANGED <<backoff, interval, lease, timer, ticker, ticked, fails>> /\ KeepClock

\* dial does not block; it fails when the certificate, key or CA cannot be used.
Dial ==
  /\ pc = "dial" /\ ~ctxDone
  /\ \/ ~orderly /\ Fail
     \/ Call("register") /\ UNCHANGED <<backoff, interval, lease, ticker, ticked, fails>>
  /\ KeepClock

\* The registration is not answered, or not accepted.
RegisterFails ==
  /\ pc = "register" /\ CallFails
  /\ Fail
  /\ KeepClock

heartbeatInterval(seconds) == IF seconds <= 0 THEN defaultHeartbeatSeconds ELSE seconds

Registered ==
  /\ pc = "register" /\ ~ctxDone /\ timer > 0
  /\ backoff' = 1 /\ fails' = 0
  /\ \E s \in Intervals :
       /\ interval' = heartbeatInterval(s)
       /\ lease' \in Granted(interval')
  /\ Call("first")
  /\ UNCHANGED <<ticker, ticked>> /\ KeepClock

\* What the first heartbeat is answered is not looked at.
FirstHeartbeat ==
  /\ pc = "first"
  /\ \/ CallFails /\ pc' = "dial" /\ UNCHANGED <<ticker, ticked>>
     \/ /\ ~ctxDone /\ timer > 0
        /\ pc' = "wait" /\ ticker' = interval /\ ticked' = FALSE
  /\ timer' = 0
  /\ UNCHANGED <<backoff, interval, lease, fails>> /\ KeepClock

\* The select of the inner loop; either case may be taken when both are ready.
Done ==
  /\ pc = "wait" /\ ctxDone
  /\ pc' = "exited"
  /\ UNCHANGED <<backoff, interval, lease, timer, ticker, ticked, fails>> /\ KeepClock

Ticked ==
  /\ pc = "wait" /\ ticked
  /\ ticked' = FALSE
  /\ \/ leaseExpired /\ pc' = "dial" /\ UNCHANGED timer
     \/ ~leaseExpired /\ Call("heartbeat")
  /\ UNCHANGED <<backoff, interval, lease, ticker, fails>> /\ KeepClock

Heartbeat ==
  /\ pc = "heartbeat"
  /\ \/ CallFails /\ pc' = "dial" /\ UNCHANGED lease
     \/ /\ ~ctxDone /\ timer > 0
        /\ pc' = "wait"
        /\ \E l \in Renewals : lease' = renewed(l)
  /\ timer' = 0
  /\ UNCHANGED <<backoff, interval, ticker, ticked, fails>> /\ KeepClock

Slept ==
  /\ pc = "sleep"
  /\ \/ ctxDone /\ pc' = "exited" /\ UNCHANGED backoff
     \/ timer = 0 /\ pc' = "dial" /\ backoff' = nextBackoff(backoff)
  /\ UNCHANGED <<interval, lease, timer, ticker, ticked, fails>> /\ KeepClock

-----------------------------------------------------------------------------
(* The environment.                                                        *)

\* A second passes.  An orderly scheduler answers before the call times out.
Tick ==
  /\ \/ pc = "wait" /\ ~ticked
     \/ pc = "sleep" /\ timer > 0
     \/ pc \in Calls /\ timer > (IF orderly THEN 1 ELSE 0)
  /\ ~ctxDone
  /\ timer' = IF timer > 0 THEN timer - 1 ELSE 0
  /\ lease' = IF lease > Expired THEN lease - 1 ELSE lease
  /\ IF pc \in {"wait", "heartbeat"}
     THEN /\ ticker' = IF ticker = 1 THEN interval ELSE ticker - 1
          /\ ticked' = (ticked \/ ticker = 1)
     ELSE UNCHANGED <<ticker, ticked>>
  /\ UNCHANGED <<pc, backoff, interval, orderly, cancelled, fails>>

\* The scheduler fails or comes back; main cancels the context when it shuts down.
Toggle ==
  /\ orderly' = ~orderly
  /\ UNCHANGED <<pc, backoff, interval, lease, timer, ticker, ticked, cancelled, fails>>

Cancel ==
  /\ ~cancelled /\ cancelled' = TRUE
  /\ UNCHANGED <<pc, backoff, interval, lease, timer, ticker, ticked, orderly, fails>>

-----------------------------------------------------------------------------
Run ==
  \/ Return \/ Dial \/ RegisterFails \/ Registered \/ FirstHeartbeat
  \/ Done \/ Ticked \/ Heartbeat \/ Slept

Next == Run \/ Tick \/ Toggle \/ Cancel

Spec == Init /\ [][Next]_vars

\* The goroutine of Run goes on, and time does.
FairSpec == Spec /\ WF_vars(Run) /\ WF_vars(Tick)

-----------------------------------------------------------------------------
(* Properties.                                                             *)

\* The wait after n failed attempts: it starts at 1s, doubles, and is capped at 30s
\* (README.md:163-165).
Wait(n) ==
  CASE n = 0 -> 1 [] n = 1 -> 2 [] n = 2 -> 4 [] n = 3 -> 8 [] n = 4 -> 16 [] OTHER -> 30

\* The wait before the next attempt is that of the failures since the last accepted
\* registration, with which it starts over (README.md:166), however dials, calls and
\* leases fail; nextBackoff is applied after the sleep.
BackoffFollowsFailures ==
  pc # "exited" => backoff = Wait(IF pc = "sleep" THEN fails - 1 ELSE fails)

\* When the scheduler stays in order, and grants leases that outlive a slow first
\* heartbeat and one interval, the node registers and stays registered: renewals
\* come in time although the ticks go on during a slow heartbeat.
StaysRegistered ==
  <>[](orderly /\ ~cancelled) => <>[](pc \in {"wait", "heartbeat"})

\* A lease that runs out while the client waits for its tick makes it dial and
\* register anew, unless it is told to stop.
ExpiryNoticed == (pc = "wait" /\ lease = Expired) ~> (pc = "dial" \/ cancelled)

\* Wherever the loop stands when main cancels the context, Run returns.
ReturnsWhenCancelled == cancelled ~> pc = "exited"
=============================================================================
