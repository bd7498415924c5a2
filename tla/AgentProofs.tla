----------------------------- MODULE AgentProofs ------------------------------
(*****************************************************************************)
(* What holds of the parts of the agent around the manager, each with an     *)
(* inductive invariant of its own.                                           *)
(*                                                                           *)
(* The registration loop, for any intervals and leases: its timers stay in   *)
(* range, and its back-off follows its failures.                             *)
(*                                                                           *)
(* The compose runtime, for any services and revisions: the containers of a  *)
(* project are found, its status is true, and they run with the environment  *)
(* of their revision.                                                        *)
(*                                                                           *)
(* The status queries: a completed operation has written its status, and a   *)
(* query saw the writes of all that had completed when it came in.  The list *)
(* that ListActions sorts and cuts is shown to exist, by the least number of *)
(* tasks that could not be listed, and to leave none out.                    *)
(*                                                                           *)
(* The storage pools: pool by pool, nothing is oversold, every disk has its  *)
(* pool, and the GBs of its disks, counted one by one, are as many as the    *)
(* pool says are allocated.  That count is finite because each step adds or  *)
(* takes away one disk.                                                      *)
(*****************************************************************************)
EXTENDS ControlClient, ComposeRuntime, StatusQueries, StoragePools, FiniteSetTheorems,
        WellFoundedInduction, TLAPS

-----------------------------------------------------------------------------
(* The registration loop.                                                  *)

\* A sleep follows a failure.
SleepsAfterFailure == pc = "sleep" => fails > 0

\* The inductive invariant.
Inv == TypeOK /\ SleepsAfterFailure /\ BackoffFollowsFailures

\* What Wait gives is a back-off, and nextBackoff goes from one wait to the next.
LEMMA NextWait ==
  ASSUME NEW n \in 0 .. MaxFails
  PROVE  /\ Wait(n) \in 1 .. MaxBackoff
         /\ n > 0 => nextBackoff(Wait(n - 1)) = Wait(n)
<1>1. n \in {0, 1, 2, 3, 4, 5, 6}
  BY DEF MaxFails
<1> QED BY <1>1 DEF Wait, nextBackoff, MaxBackoff

\* A failed attempt, whichever: the loop goes to sleep, with the wait it has.
LEMMA FailStep ==
  ASSUME Inv, pc \in {"dial", "register"}, Fail, KeepClock
  PROVE  Inv'
<1>1. TypeOK'
  BY DEF Inv, TypeOK, Fail, KeepClock, MaxFails, MaxBackoff
<1>2. fails' > 0 /\ Wait(fails' - 1) = Wait(fails)
  BY DEF Inv, TypeOK, Fail, MaxFails, Wait
<1>3. SleepsAfterFailure'
  BY <1>2 DEF SleepsAfterFailure
<1>4. BackoffFollowsFailures'
  BY <1>2 DEF Inv, BackoffFollowsFailures, Fail
<1> QED BY <1>1, <1>3, <1>4, SMTT(30) DEF Inv

\* The loop starts with no failure and the shortest wait.
LEMMA InvInit == Init => Inv
<1> SUFFICES ASSUME Init PROVE Inv
  OBVIOUS
<1>1. ticked \in BOOLEAN /\ orderly \in BOOLEAN /\ cancelled \in BOOLEAN
  BY Zenon DEF Init
<1>2. TypeOK
  BY <1>1 DEF Init, TypeOK, Calls, defaultHeartbeatSeconds, MaxBackoff, MaxFails
<1> QED BY <1>2 DEF Init, Inv, SleepsAfterFailure, BackoffFollowsFailures, Wait

\* A step that neither begins nor ends a sleep, and leaves back-off and failures.
LEMMA Unrelated ==
  ASSUME Inv, TypeOK', (pc # "sleep" /\ pc' # "sleep") \/ pc' = pc, pc # "exited" \/ pc' = pc,
         UNCHANGED <<backoff, fails>>
  PROVE  Inv'
BY DEF Inv, SleepsAfterFailure, BackoffFollowsFailures

\* An accepted registration resets both.
LEMMA RegisteredStep ==
  ASSUME Inv, Registered
  PROVE  Inv'
<1>1. PICK s \in Intervals : interval' = heartbeatInterval(s) /\ lease' \in Granted(interval')
  BY DEF Registered
<1>2. interval' \in Nat \ {0}
  BY <1>1, ControlAssumption, SMTT(30) DEF heartbeatInterval, defaultHeartbeatSeconds
<1>3. lease' \in Nat \cup {NoLease, Expired}
  BY <1>1, ControlAssumption, Zenon DEF Granted
<1>4. TypeOK'
  BY <1>2, <1>3, SMTT(30) DEF Inv, TypeOK, Registered, Call, Calls, KeepClock, defaultRPCTimeout, MaxBackoff,
     MaxFails
<1> QED BY <1>4 DEF Inv, SleepsAfterFailure, BackoffFollowsFailures, Registered, Call, Wait

\* Waking up doubles the wait, which then is that of the failures so far.
LEMMA SleptStep ==
  ASSUME Inv, Slept
  PROVE  Inv'
<1>1. CASE ctxDone /\ pc' = "exited" /\ UNCHANGED backoff
  <2>1. TypeOK'
    BY <1>1 DEF Inv, TypeOK, Slept, KeepClock
  <2> QED BY <1>1, <2>1, SMTT(30) DEF Inv, SleepsAfterFailure, BackoffFollowsFailures
<1>2. CASE timer = 0 /\ pc' = "dial" /\ backoff' = nextBackoff(backoff)
  <2>1. backoff = Wait(fails - 1) /\ fails \in 0 .. MaxFails /\ fails > 0
    BY DEF Inv, TypeOK, Slept, SleepsAfterFailure, BackoffFollowsFailures
  <2>2. backoff' = Wait(fails) /\ backoff' \in 1 .. MaxBackoff
    BY <1>2, <2>1, NextWait, SMTT(30)
  <2>3. fails' = fails
    BY DEF Slept
  <2>4. TypeOK'
    BY <1>2, <2>2, SMTT(30) DEF Inv, TypeOK, Slept, KeepClock
  <2> QED BY <1>2, <2>2, <2>3, <2>4, SMTT(30) DEF Inv, SleepsAfterFailure, BackoffFollowsFailures
<1> QED BY <1>1, <1>2 DEF Slept

\* A heartbeat renews the lease or ends the registration.
LEMMA HeartbeatStep ==
  ASSUME Inv, Heartbeat
  PROVE  Inv'
<1>1. lease' \in Nat \cup {NoLease, Expired}
  <2>1. CASE UNCHANGED lease
    BY <2>1, SMTT(30) DEF Inv, TypeOK
  <2>2. CASE \E l \in Renewals : lease' = renewed(l)
    BY <2>2, ControlAssumption, SMTT(30), Z3T(30) DEF Renewals, Granted, renewed, Inv, TypeOK
  <2> QED BY <2>1, <2>2, SMTT(30) DEF Heartbeat
<1>2. TypeOK'
  BY <1>1 DEF Inv, TypeOK, Heartbeat, KeepClock, MaxBackoff
<1>3. UNCHANGED <<backoff, fails>> /\ pc = "heartbeat" /\ pc' \in {"dial", "wait"}
  BY DEF Heartbeat
<1> QED BY <1>2, <1>3, Unrelated, SMTT(30)

\* Time only counts timers down.
LEMMA TickStep ==
  ASSUME Inv, Tick
  PROVE  Inv'
<1>1. timer' \in 0 .. MaxBackoff
  BY DEF Inv, TypeOK, Tick, MaxBackoff
<1>2. lease' \in Nat \cup {NoLease, Expired}
  BY DEF Inv, TypeOK, Tick, NoLease, Expired
<1>3. ticker' \in Nat \ {0} /\ ticked' \in BOOLEAN
  <2>1. CASE pc \in {"wait", "heartbeat"}
    <3>1. ticker' = (IF ticker = 1 THEN interval ELSE ticker - 1) /\ ticked' = (ticked \/ ticker = 1)
      BY <2>1 DEF Tick
    <3> QED BY <3>1 DEF Inv, TypeOK
  <2>2. CASE pc \notin {"wait", "heartbeat"}
    BY <2>2 DEF Inv, TypeOK, Tick
  <2> QED BY <2>1, <2>2, SMTT(30)
<1>4. UNCHANGED <<pc, backoff, interval, orderly, cancelled, fails>>
  BY DEF Tick
<1>5. TypeOK'
  BY <1>1, <1>2, <1>3, <1>4, SMTT(30) DEF Inv, TypeOK
<1> QED BY <1>4, <1>5, Unrelated, SMTT(30), Z3T(30)

\* Every step keeps the invariant.
LEMMA InvNext == Inv /\ [Next]_vars => Inv'
<1> SUFFICES ASSUME Inv, [Next]_vars PROVE Inv'
  OBVIOUS
<1>1. CASE Return
  <2>1. TypeOK' /\ UNCHANGED <<backoff, fails>> /\ pc = "dial" /\ pc' = "exited"
    BY <1>1, SMTT(30) DEF Inv, TypeOK, Return, KeepClock
  <2> QED BY <2>1, Unrelated, SMTT(30), Z3T(30)
<1>2. CASE Dial
  <2>1. CASE Fail
    BY <1>2, <2>1, FailStep, SMTT(30) DEF Dial
  <2>2. CASE Call("register") /\ UNCHANGED <<backoff, interval, lease, ticker, ticked, fails>>
    <3>1. TypeOK' /\ UNCHANGED <<backoff, fails>> /\ pc = "dial" /\ pc' = "register"
      BY <1>2, <2>2, SMTT(30) DEF Inv, TypeOK, Dial, Call, Calls, KeepClock, defaultRPCTimeout, MaxBackoff
    <3> QED BY <3>1, Unrelated, SMTT(30)
  <2> QED BY <1>2, <2>1, <2>2, SMTT(30) DEF Dial
<1>3. CASE RegisterFails
  BY <1>3, FailStep, SMTT(30) DEF RegisterFails
<1>4. CASE Registered
  BY <1>4, RegisteredStep, SMTT(30)
<1>5. CASE FirstHeartbeat
  <2>1. ticked \in BOOLEAN
    BY DEF Inv, TypeOK
  <2>2. ticked' \in BOOLEAN
    BY <1>5, <2>1, ZenonT(40) DEF FirstHeartbeat
  <2>3. TypeOK' /\ UNCHANGED <<backoff, fails>> /\ pc = "first" /\ pc' \in {"dial", "wait"}
    BY <1>5, <2>2, SMTT(30) DEF Inv, TypeOK, FirstHeartbeat, KeepClock, MaxBackoff
  <2> QED BY <2>3, Unrelated, SMTT(30)
<1>6. CASE Done
  <2>1. TypeOK' /\ UNCHANGED <<backoff, fails>> /\ pc = "wait" /\ pc' = "exited"
    BY <1>6 DEF Inv, TypeOK, Done, KeepClock
  <2> QED BY <2>1, Unrelated, SMTT(30), Z3T(30)
<1>7. CASE Ticked
  <2>1. ticked' \in BOOLEAN
    BY <1>7, Zenon DEF Ticked
  <2>2. TypeOK' /\ UNCHANGED <<backoff, fails>> /\ pc = "wait" /\ pc' \in {"dial", "heartbeat"}
    BY <1>7, <2>1, SMTT(30), Z3T(30) DEF Inv, TypeOK, Ticked, Call, Calls, KeepClock, defaultRPCTimeout, MaxBackoff
  <2> QED BY <2>2, Unrelated, SMTT(30)
<1>8. CASE Heartbeat
  BY <1>8, HeartbeatStep, SMTT(30)
<1>9. CASE Slept
  BY <1>9, SleptStep, SMTT(30)
<1>10. CASE Tick
  BY <1>10, TickStep, SMTT(30)
<1>11. CASE Toggle \/ Cancel
  <2>1. TypeOK' /\ UNCHANGED <<pc, backoff, fails>>
    BY <1>11, Zenon DEF Inv, TypeOK, Toggle, Cancel
  <2> QED BY <2>1, Unrelated, SMTT(30)
<1>12. CASE UNCHANGED vars
  <2>1. TypeOK' /\ UNCHANGED <<pc, backoff, fails>>
    BY <1>12 DEF Inv, TypeOK, vars
  <2> QED BY <2>1, Unrelated, SMTT(30)
<1> QED
  BY <1>1, <1>2, <1>3, <1>4, <1>5, <1>6, <1>7, <1>8, <1>9, <1>10, <1>11, <1>12, SMTT(30), Z3T(30) DEF Next, Run

\* Run's timers stay in range, and its ticker never gets an interval of zero,
\* whatever interval the scheduler sends.
THEOREM TypeCorrect == Spec => []TypeOK
<1>1. Inv => TypeOK
  BY DEF Inv
<1> QED BY <1>1, InvInit, InvNext, PTL DEF Spec

\* The wait before an attempt follows the failures since the last accepted
\* registration, as nextBackoff and its reset in Run make it.
THEOREM BackoffCorrect == Spec => []BackoffFollowsFailures
<1>1. Inv => BackoffFollowsFailures
  BY DEF Inv
<1> QED BY <1>1, InvInit, InvNext, PTL DEF Spec

-----------------------------------------------------------------------------
(* The compose runtime.                                                    *)

\* A container of a service.
Container == [svc : Service, rev : ComposeRev, env : RevOrNone, up : BOOLEAN]

\* The types of the variables; a create knows its revision.
ComposeTypeOK ==
  /\ project \in [exists : BOOLEAN, yml : RevOrNone, env : RevOrNone]
  /\ containers \in SUBSET Container /\ IsFiniteSet(containers)
  /\ ccall \in [pc : {"idle", "mkdir", "yml", "env", "down", "rmdir"}, rev : RevOrNone]
  /\ ccall.pc \in {"mkdir", "yml", "env"} => ccall.rev \in ComposeRev
  /\ ccut \in BOOLEAN

\* As long as each down took all containers with it, those that there are belong to
\* services of the compose file; none are left when the directory is removed, and
\* none are there while one is made.
Belong ==
  /\ containers # {} => Ready /\ \A c \in containers : c.svc \in Declared
  /\ ccall.pc \in {"mkdir", "yml", "env", "rmdir"} => containers = {}

\* The .env of a revision.
EnvOf(r) == IF r \in HasEnv THEN r ELSE "none"

\* As long as no call was cut short, a project that was started has a container of
\* every service, the directory holds the .env of its compose file or none, and the
\* containers have it.
Whole ==
  /\ containers # {} => \A s \in Declared : \E c \in containers : c.svc = s
  /\ ccall.pc \in {"mkdir", "yml", "env"} => project.env = "none"
  /\ ccall.pc \in {"mkdir", "yml"} => project.yml = "none"
  /\ ccall.pc = "env" => project.yml = ccall.rev
  /\ ccall.pc \in {"idle", "down"} => project.env = EnvOf(project.yml)
  /\ \A c \in containers : c.env = EnvOf(c.rev)

\* The inductive invariant.
ComposeInv ==
  /\ ComposeTypeOK
  /\ "down" \notin ComposeFaults \/ ~ccut => Belong
  /\ ~ccut => Whole

\* The first state satisfies the invariant.
LEMMA ComposeStart0 == ComposeInit => ComposeInv
<1> SUFFICES ASSUME ComposeInit PROVE ComposeInv
  OBVIOUS
<1>1. ComposeTypeOK
  BY FS_EmptySet, ZenonT(40) DEF ComposeInit, ComposeTypeOK, NoProject, ComposeIdle, RevOrNone
<1> QED BY <1>1, ComposeAssumption DEF ComposeInit, ComposeInv, Belong, Whole, NoProject, ComposeIdle, EnvOf

\* The compose command finds services of the project's revision.
LEMMA DeclaredType ==
  ASSUME ComposeTypeOK, Ready
  PROVE  project.yml \in ComposeRev /\ Declared \subseteq Service /\ Declared # {}
BY ComposeAssumption DEF ComposeTypeOK, Ready, Declared, RevOrNone

\* CGoto moves the call and keeps its revision; CReturn ends it.
LEMMA CMoves ==
  ASSUME ComposeTypeOK
  PROVE  /\ \A label : CGoto(label) => ccall'.pc = label /\ ccall'.rev = ccall.rev /\ ccut' = ccut
                                    /\ ccall' = [pc |-> label, rev |-> ccall.rev]
         /\ \A ended \in BOOLEAN :
              CReturn(ended) => ccall' = [pc |-> "idle", rev |-> "none"] /\ ccut' = (ccut \/ ~ended)
BY Zenon DEF ComposeTypeOK, CGoto, CReturn, ComposeIdle

\* A file of the project is replaced.
LEMMA ProjectMoves ==
  ASSUME ComposeTypeOK
  PROVE  /\ \A x : [project EXCEPT !.exists = x] = [exists |-> x, yml |-> project.yml, env |-> project.env]
         /\ \A x : [project EXCEPT !.yml = x] = [exists |-> project.exists, yml |-> x, env |-> project.env]
         /\ \A x : [project EXCEPT !.env = x] = [exists |-> project.exists, yml |-> project.yml, env |-> x]
BY DEF ComposeTypeOK

\* Create finds no containers and, unless a call was cut short, no files.
LEMMA ComposeCreateSteps ==
  ASSUME ComposeInv,
         (\E r \in ComposeRev : ComposeCreate(r)) \/ CreateDirectory \/ CreateYAML \/ CreateEnv
  PROVE  ComposeInv'
<1>0. ComposeTypeOK /\ RevOrNone = ComposeRev \cup {"none"}
  BY SMTT(30), Z3T(30) DEF ComposeInv, RevOrNone
<1> HIDE DEF RevOrNone
<1>1. ASSUME NEW r \in ComposeRev, ComposeCreate(r) PROVE ComposeInv'
  BY <1>0, <1>1, ComposeAssumption DEF ComposeCreate, ComposeInv, ComposeTypeOK, Belong, Whole, Ready, Declared, EnvOf
<1>2. CASE CreateDirectory
  <2>1. CASE project' = [project EXCEPT !.exists = TRUE] /\ CGoto("yml")
    <3>1. /\ project' = [exists |-> TRUE, yml |-> project.yml, env |-> project.env]
          /\ ccall' = [pc |-> "yml", rev |-> ccall.rev] /\ ccut' = ccut
      BY <1>0, <2>1, CMoves, ProjectMoves, ZenonT(40)
    <3> QED BY <1>0, <1>2, <3>1 DEF CreateDirectory, ComposeInv, ComposeTypeOK, Belong, Whole, Ready, Declared, EnvOf
  <2>2. CASE CReturn(FALSE) /\ UNCHANGED project
    <3>1. ccall' = [pc |-> "idle", rev |-> "none"] /\ ccut' = TRUE
      BY <1>0, <2>2, CMoves, Zenon
    <3> QED BY <1>0, <1>2, <2>2, <3>1 DEF CreateDirectory, ComposeInv, ComposeTypeOK, Belong, Whole, Ready, Declared, EnvOf
  <2> QED BY <1>2, <2>1, <2>2, Zenon DEF CreateDirectory
<1>3. CASE CreateYAML
  <2>1. CASE project' = [project EXCEPT !.yml = ccall.rev] /\ CGoto("env")
    <3>1. /\ project' = [exists |-> project.exists, yml |-> ccall.rev, env |-> project.env]
          /\ ccall' = [pc |-> "env", rev |-> ccall.rev] /\ ccut' = ccut
      BY <1>0, <2>1, CMoves, ProjectMoves
    <3> QED BY <1>0, <1>3, <3>1 DEF CreateYAML, ComposeInv, ComposeTypeOK, Belong, Whole, Ready, Declared, EnvOf
  <2>2. CASE (\E left \in {project.yml, "none"} : project' = [project EXCEPT !.yml = left]) /\ CReturn(FALSE)
    <3>1. PICK left \in {project.yml, "none"} :
            project' = [exists |-> project.exists, yml |-> left, env |-> project.env]
      BY <1>0, <2>2, ProjectMoves
    <3>2. ccall' = [pc |-> "idle", rev |-> "none"] /\ ccut' = TRUE
      BY <1>0, <2>2, CMoves, Zenon
    <3> QED BY <1>0, <1>3, <3>1, <3>2 DEF CreateYAML, ComposeInv, ComposeTypeOK, Belong, Whole, Ready, Declared, EnvOf
  <2> QED BY <1>3, <2>1, <2>2, Zenon DEF CreateYAML
<1>4. CASE CreateEnv
  <2>1. CASE /\ project' = [project EXCEPT !.env = IF ccall.rev \in HasEnv THEN ccall.rev ELSE @]
             /\ CReturn(TRUE)
    <3>1. /\ project' = [exists |-> project.exists, yml |-> project.yml,
                         env |-> IF ccall.rev \in HasEnv THEN ccall.rev ELSE project.env]
          /\ ccall' = [pc |-> "idle", rev |-> "none"]
      BY <1>0, <2>1, CMoves, ProjectMoves, Zenon
    <3>2. ccut' = ccut
      BY <1>0, <2>1 DEF CReturn, ComposeTypeOK
    <3> QED BY <1>0, <1>4, <3>1, <3>2 DEF CreateEnv, ComposeInv, ComposeTypeOK, Belong, Whole, Ready, Declared, EnvOf
  <2>2. CASE (\E left \in {project.env, "none"} : project' = [project EXCEPT !.env = left]) /\ CReturn(FALSE)
    <3>1. PICK left \in {project.env, "none"} :
            project' = [exists |-> project.exists, yml |-> project.yml, env |-> left]
      BY <1>0, <2>2, ProjectMoves
    <3>2. ccall' = [pc |-> "idle", rev |-> "none"] /\ ccut' = TRUE
      BY <1>0, <2>2, CMoves, Zenon
    <3> QED BY <1>0, <1>4, <3>1, <3>2 DEF CreateEnv, ComposeInv, ComposeTypeOK, Belong, Whole, Ready, Declared, EnvOf
  <2> QED BY <1>4, <2>1, <2>2, Zenon DEF CreateEnv
<1> QED BY <1>1, <1>2, <1>3, <1>4

\* The image of a finite set is finite.
LEMMA ImageFinite ==
  ASSUME NEW S, IsFiniteSet(S), NEW f, DOMAIN f = S
  PROVE  IsFiniteSet({f[x] : x \in S})
<1> DEFINE T == {f[x] : x \in S}
           g == [x \in S |-> f[x]]
<1>1. g \in Surjection(S, T)
  BY DEF Surjection
<1> HIDE DEF T, g
<1> QED BY <1>1, FS_Surjection, Zenon DEF ExistsSurjection, T

\* What a start leaves: a container of every service it made, as the files say, and
\* the others as they were.
LEMMA MadeFacts ==
  ASSUME ComposeTypeOK, Ready, NEW made \in SUBSET Declared, NEW started \in SUBSET made
  PROVE  /\ Made(made, started) \in SUBSET Container /\ IsFiniteSet(Made(made, started))
         /\ \A s \in made : \E c \in Made(made, started) : c.svc = s
         /\ \A c \in Made(made, started) :
              \/ c \in containers /\ c.svc \notin made
              \/ c.svc \in made /\ c.rev = project.yml /\ c.env = project.env
<1> DEFINE New(s) == [svc |-> s, rev |-> project.yml, env |-> project.env, up |-> s \in started]
           Old == {c \in containers : c.svc \notin made}
           news == {New(s) : s \in made}
<1>1. project.yml \in ComposeRev /\ project.env \in RevOrNone /\ made \subseteq Service
  BY DeclaredType DEF ComposeTypeOK
<1>2. \A s \in made : New(s) \in Container /\ New(s).svc = s
                      /\ New(s).rev = project.yml /\ New(s).env = project.env
  <2> TAKE s \in made
  <2>1. (s \in started) \in BOOLEAN /\ s \in Service
    BY <1>1
  <2> QED BY <1>1, <2>1, ZenonT(40) DEF Container
<1>3. IsFiniteSet(made)
  BY <1>1, ComposeAssumption, FS_Subset
<1>4. IsFiniteSet(news)
  <2> DEFINE f == [s \in made |-> New(s)]
  <2>1. DOMAIN f = made /\ news = {f[s] : s \in made}
    BY Zenon
  <2> HIDE DEF f, news
  <2> QED BY <1>3, <2>1, ImageFinite, Zenon
<1>5. IsFiniteSet(Old) /\ Old \subseteq Container
  BY FS_Subset DEF ComposeTypeOK
<1>6. Made(made, started) = Old \cup news
  BY Zenon DEF Made
<1>7. IsFiniteSet(Old \cup news)
  BY <1>4, <1>5, FS_Union, ZenonT(40)
<1> HIDE DEF New
<1> QED BY <1>2, <1>5, <1>6, <1>7, SMTT(30), Z3T(30)

\* A container that is stopped is the same but for that.
LEMMA StoppedContainer ==
  ASSUME NEW c \in Container, NEW up \in BOOLEAN
  PROVE  LET d == [c EXCEPT !.up = up]
         IN d \in Container /\ d.svc = c.svc /\ d.rev = c.rev /\ d.env = c.env
BY ZenonT(40) DEF Container

\* Containers of which each had a counterpart of the same service, revision and
\* environment, with none missing.
LEMMA SameContainers ==
  ASSUME ComposeInv, UNCHANGED <<project, ccall>>, ccut' = ccut,
         containers' \in SUBSET Container, IsFiniteSet(containers'),
         \A d \in containers' : \E c \in containers : d.svc = c.svc /\ d.rev = c.rev /\ d.env = c.env,
         \A c \in containers : \E d \in containers' : d.svc = c.svc
  PROVE  ComposeInv'
BY SMTT(30), Z3T(30) DEF ComposeInv, ComposeTypeOK, Belong, Whole, Ready, Declared

\* Start, Stop and containers that exit.
LEMMA ContainerSteps ==
  ASSUME ComposeInv, ComposeStart \/ ComposeStop \/ ContainerExits
  PROVE  ComposeInv'
<1>0. ComposeTypeOK
  BY DEF ComposeInv
<1>1. CASE ComposeStart
  <2>1. CASE containers' = Made(Declared, Declared) /\ UNCHANGED ccut
    BY <1>0, <1>1, <2>1, MadeFacts, SMTT(30), Z3T(30) DEF ComposeStart, ComposeInv, ComposeTypeOK, Belong, Whole, Ready, Declared, EnvOf
  <2>2. CASE /\ \E made \in SUBSET Declared : \E started \in SUBSET made : containers' = Made(made, started)
             /\ ccut' = TRUE
    <3>1. PICK made \in SUBSET Declared : \E started \in SUBSET made : containers' = Made(made, started)
      BY <2>2
    <3>2. PICK started \in SUBSET made : containers' = Made(made, started)
      BY <3>1
    <3> QED BY <1>0, <1>1, <2>2, <3>2, MadeFacts, ZenonT(40) DEF ComposeStart, ComposeInv, ComposeTypeOK, Belong, Ready, Declared
  <2> QED BY <1>1, <2>1, <2>2, ZenonT(40) DEF ComposeStart
<1>2. CASE ComposeStop
  <2>1. PICK stopped : containers' = {[c EXCEPT !.up = @ /\ c.svc \notin stopped] : c \in containers}
    BY <1>2, Zenon DEF ComposeStop
  <2> DEFINE Stop(c) == [c EXCEPT !.up = c.up /\ c.svc \notin stopped]
  <2>2. containers' = {Stop(c) : c \in containers}
    BY <2>1, Zenon
  <2>3. \A c \in containers : Stop(c) \in Container /\ Stop(c).svc = c.svc /\ Stop(c).rev = c.rev
                              /\ Stop(c).env = c.env
    <3> TAKE c \in containers
    <3>1. c \in Container
      BY <1>0 DEF ComposeTypeOK
    <3>2. (c.up /\ c.svc \notin stopped) \in BOOLEAN
      BY SMTT(30), Z3T(30)
    <3> QED BY <3>1, <3>2, StoppedContainer, Zenon
  <2> HIDE DEF Stop
  <2>4. IsFiniteSet(containers')
    <3> DEFINE f == [c \in containers |-> Stop(c)]
    <3>1. DOMAIN f = containers /\ containers' = {f[c] : c \in containers}
      BY <2>2, Zenon
    <3> HIDE DEF f
    <3>2. IsFiniteSet({f[c] : c \in containers})
      BY <1>0, <3>1, ImageFinite DEF ComposeTypeOK
    <3> QED BY <3>1, <3>2
  <2> QED BY <1>2, <2>2, <2>3, <2>4, SameContainers DEF ComposeStop
<1>3. CASE ContainerExits
  <2>1. PICK c \in containers : containers' = (containers \ {c}) \cup {[c EXCEPT !.up = FALSE]}
    BY <1>3, Zenon DEF ContainerExits
  <2>2. PICK d : /\ d = [c EXCEPT !.up = FALSE] /\ d \in Container
                 /\ d.svc = c.svc /\ d.rev = c.rev /\ d.env = c.env
    BY <1>0, StoppedContainer, ZenonT(40) DEF ComposeTypeOK
  <2>3. containers' = (containers \ {c}) \cup {d}
    BY <2>1, <2>2
  <2>4. IsFiniteSet(containers')
    BY <1>0, <2>3, FS_AddElement, FS_RemoveElement, ZenonT(40) DEF ComposeTypeOK
  <2>5. containers' \in SUBSET Container
    BY <1>0, <2>2, <2>3, ZenonT(40) DEF ComposeTypeOK
  <2> QED BY <1>3, <2>2, <2>3, <2>4, <2>5, SameContainers, ZenonT(40) DEF ContainerExits
<1> QED BY <1>1, <1>2, <1>3

\* Delete, and the crash.
LEMMA ComposeDeleteSteps ==
  ASSUME ComposeInv, ComposeDelete \/ DeleteDown \/ DeleteDirectory \/ ComposeCrash
  PROVE  ComposeInv'
<1>0. ComposeTypeOK /\ RevOrNone = ComposeRev \cup {"none"}
  BY SMTT(30), Z3T(30) DEF ComposeInv, RevOrNone
<1>1. CASE ComposeDelete
  <2>1. ccall' = [pc |-> "down", rev |-> ccall.rev] /\ ccut' = ccut
    BY <1>0, <1>1, CMoves DEF ComposeDelete
  <2> QED BY <1>0, <1>1, <2>1, SMTT(30), Z3T(30) DEF ComposeDelete, ComposeInv, ComposeTypeOK, Belong, Whole, Ready, Declared, EnvOf
<1>2. CASE DeleteDown
  <2>1. ccall' = [pc |-> "rmdir", rev |-> ccall.rev] /\ UNCHANGED project
    BY <1>0, <1>2, Zenon DEF DeleteDown, ComposeTypeOK
  <2>2. containers' \subseteq containers
    BY <1>2, Zenon DEF DeleteDown
  <2>3. IsFiniteSet(containers')
    BY <1>0, <2>2, FS_Subset DEF ComposeTypeOK
  <2>4. CASE Ready /\ containers' = {c \in containers : c.svc \notin Declared} /\ UNCHANGED ccut
    <3>1. "down" \notin ComposeFaults \/ ~ccut => containers' = {}
      BY <2>4 DEF ComposeInv, Belong
    <3> QED BY <1>0, <1>2, <2>1, <2>2, <2>3, <2>4, <3>1, SMTT(30), Z3T(30)
            DEF DeleteDown, ComposeInv, ComposeTypeOK, Belong, Whole
  <2>5. CASE ~Ready /\ UNCHANGED <<containers, ccut>>
    BY <1>0, <1>2, <2>1, <2>3, <2>5, ZenonT(40) DEF DeleteDown, ComposeInv, ComposeTypeOK, Belong, Whole
  <2>6. CASE ComposeFault("down") /\ ccut' = TRUE
    BY <1>0, <2>1, <2>2, <2>3, <2>6, SMTT(30), Z3T(30) DEF ComposeFault, ComposeInv, ComposeTypeOK
  <2> QED BY <1>2, <2>4, <2>5, <2>6, Zenon DEF DeleteDown
<1>3. CASE DeleteDirectory
  <2>1. CASE project' = NoProject /\ CReturn(TRUE)
    <3>1. ccall' = [pc |-> "idle", rev |-> "none"]
      BY <1>0, <2>1, CMoves, Zenon
    <3>2. ccut' = ccut
      BY <1>0, <2>1, ZenonT(40) DEF CReturn, ComposeTypeOK
    <3> QED BY <1>0, <1>3, <2>1, <3>1, <3>2, ComposeAssumption, ZenonT(40)
            DEF DeleteDirectory, ComposeInv, ComposeTypeOK, Belong, Whole, NoProject, EnvOf
  <2>2. CASE /\ \E yml \in {project.yml, "none"}, env \in {project.env, "none"} :
                  project' = [exists |-> TRUE, yml |-> yml, env |-> env]
             /\ CReturn(FALSE)
    <3>1. ccall' = [pc |-> "idle", rev |-> "none"] /\ ccut' = TRUE
      BY <1>0, <2>2, CMoves, Zenon
    <3>2. project' \in [exists : BOOLEAN, yml : RevOrNone, env : RevOrNone]
      BY <1>0, <2>2, SMTT(30), Z3T(30) DEF ComposeTypeOK
    <3> QED BY <1>0, <1>3, <3>1, <3>2 DEF DeleteDirectory, ComposeInv, ComposeTypeOK, Belong
  <2> QED BY <1>3, <2>1, <2>2, ZenonT(40) DEF DeleteDirectory
<1>4. CASE ComposeCrash
  <2>1. ccall' = [pc |-> "idle", rev |-> "none"] /\ ccut' = TRUE
    BY <1>0, <1>4, CMoves, Zenon DEF ComposeCrash
  <2> QED BY <1>0, <1>4, <2>1 DEF ComposeCrash, ComposeInv, ComposeTypeOK, Belong, Ready, Declared
<1> QED BY <1>1, <1>2, <1>3, <1>4

\* Every step keeps the invariant.
LEMMA ComposeInvStep ==
  ASSUME ComposeInv, [ComposeNext]_cvars
  PROVE  ComposeInv'
<1>1. CASE UNCHANGED cvars
  BY <1>1, SMTT(30), Z3T(30) DEF cvars, ComposeInv, ComposeTypeOK, Belong, Whole, Ready, Declared
<1> QED BY <1>1, ComposeCreateSteps, ContainerSteps, ComposeDeleteSteps, ZenonT(40) DEF ComposeNext

\* When down takes the containers with it, a project with containers has its
\* directory, by which Status and List find it, wherever the agent crashed.
THEOREM ContainersFound ==
  ASSUME "down" \notin ComposeFaults
  PROVE  ComposeSpec => []ContainersListed
<1>1. ComposeInv /\ [ComposeNext]_cvars => ComposeInv'
  BY ComposeInvStep
<1>2. ComposeInv => ContainersListed
  BY DEF ComposeInv, Belong, Ready, ContainersListed, Projects
<1> QED BY ComposeStart0, <1>1, <1>2, PTL DEF ComposeSpec

\* While docker answers, Status reports Running and Stopped only when that is what
\* the containers are.
THEOREM StatusTrue == ComposeSpec => []StatusTruthful
<1>1. ComposeInv /\ [ComposeNext]_cvars => ComposeInv'
  BY ComposeInvStep, SMTT(30)
<1>2. ASSUME ComposeInv PROVE StatusTruthful
  <2> DEFINE running == {c \in containers : c.up}
  <2>1. IsFiniteSet(containers) /\ running \subseteq containers
    BY <1>2, SMTT(30), Z3T(30) DEF ComposeInv, ComposeTypeOK
  <2>2. Cardinality(running) = Cardinality(containers) => running = containers
    BY <2>1, FS_Subset
  <2>3. ASSUME NEW cli \in {"exact", "empty", "error"}
        PROVE  /\ Status(cli, "exact") = "Running" =>
                    running # {} /\ Cardinality(running) = Cardinality(containers)
               /\ Status(cli, "exact") = "Stopped" => running = {}
    <3>1. Listed(cli, "exact", containers) = containers /\ Listed(cli, "exact", running) = running
      BY Zenon DEF Listed
    <3> HIDE DEF running
    <3>2. Status(cli, "exact") =
            CASE ~project.exists -> "NotFound"
              [] project.exists /\ cli = "error" /\ "exact" = "error" -> "Error"
              [] OTHER -> IF running = {} THEN "Stopped"
                          ELSE IF Cardinality(running) = Cardinality(containers) THEN "Running" ELSE "Pending"
      BY <3>1, Zenon DEF Status, running
    <3> QED BY <3>2
  <2>4. \A cli \in IF Ready THEN {"exact", "empty", "error"} ELSE {"error"} : cli \in {"exact", "empty", "error"}
    BY SMTT(30), Z3T(30)
  <2>5. running # {} /\ ~ccut => \A s \in Declared : \E c \in containers : c.svc = s
    BY <1>2 DEF ComposeInv, Whole
  <2> QED BY <2>2, <2>3, <2>4, <2>5, SMTT(30), Z3T(30) DEF StatusTruthful
<1> QED BY ComposeStart0, <1>1, <1>2, PTL DEF ComposeSpec

\* Unless a call was cut short, no container runs with the variables of a revision
\* that is gone.
THEOREM EnvironmentMatches == ComposeSpec => []EnvironmentOfRevision
<1>1. ComposeInv /\ [ComposeNext]_cvars => ComposeInv'
  BY ComposeInvStep
<1>2. ComposeInv => EnvironmentOfRevision
  BY DEF ComposeInv, Whole, EnvironmentOfRevision, EnvOf
<1> QED BY ComposeStart0, <1>1, <1>2, PTL DEF ComposeSpec

-----------------------------------------------------------------------------
(* The status queries.                                                     *)

\* The sequence s lists the numbers of S, the greatest first.
NewestFirst(s, S) ==
  /\ s \in [1 .. Cardinality(S) -> S]
  /\ \A i, j \in 1 .. Cardinality(S) : i < j => s[i] > s[j]

\* A set of naturals has a least member.
LEMMA LeastOf ==
  ASSUME NEW S \in SUBSET Nat, S # {}
  PROVE  \E m \in S : \A x \in S : m <= x
<1>1. PICK m \in S : \A x \in S : ~(<<x, m>> \in OpToRel(<, Nat))
  BY NatLessThanWellFounded, WFMin, ZenonT(40)
<1>2. ASSUME NEW x \in S PROVE m <= x
  <2>1. ~(x < m)
    BY <1>1, ZenonT(40) DEF OpToRel
  <2> QED BY <2>1, SMTT(30)
<1> QED BY <1>2

\* A list of all members but the least is extended to them all.
LEMMA ListExtended ==
  ASSUME NEW S \in SUBSET Nat, IsFiniteSet(S), NEW m \in S, \A x \in S : m <= x,
         NEW s, NewestFirst(s, S \ {m})
  PROVE  \E r : NewestFirst(r, S)
<1> DEFINE k == Cardinality(S)
           r == [i \in 1 .. k |-> IF i = k THEN m ELSE s[i]]
<1>1. Cardinality(S \ {m}) = k - 1 /\ k \in Nat /\ k # 0
  BY FS_RemoveElement, FS_CardinalityType, FS_EmptySet, ZenonT(40)
<1>2. s \in [1 .. k - 1 -> S \ {m}] /\ \A i, j \in 1 .. k - 1 : i < j => s[i] > s[j]
  BY <1>1, ZenonT(40) DEF NewestFirst
<1> HIDE DEF k
<1>3. r \in [1 .. k -> S]
  BY <1>1, <1>2, SMTT(30), Z3T(30)
<1>4. ASSUME NEW i \in 1 .. k, NEW j \in 1 .. k, i < j PROVE r[i] > r[j]
  <2>1. r[i] = s[i] /\ i \in 1 .. k - 1 /\ s[i] \in S \ {m}
    BY <1>1, <1>2, <1>4, SMTT(30)
  <2>2. CASE j = k
    <3>1. r[j] = m
      BY <2>2, Zenon
    <3>2. m \in Nat /\ s[i] \in Nat /\ m <= s[i] /\ m # s[i]
      BY <2>1, ZenonT(40)
    <3>3. s[i] > m
      BY <3>2, SMTT(30), Z3T(30)
    <3> QED BY <2>1, <3>1, <3>3, Zenon
  <2>3. CASE j # k
    BY <1>1, <1>2, <1>4, <2>1, <2>3, SMTT(30), Z3T(30)
  <2> QED BY <2>2, <2>3
<1> HIDE DEF r
<1> QED BY <1>3, <1>4, Zenon DEF NewestFirst, k

\* Every finite set of naturals can be listed: a least size at which one cannot would
\* be that of a set whose list extends that of its members but the least.
LEMMA Listable ==
  ASSUME NEW S \in SUBSET Nat, IsFiniteSet(S)
  PROVE  \E s : NewestFirst(s, S)
<1> DEFINE Bad == {k \in Nat : \E T \in SUBSET Nat : /\ IsFiniteSet(T) /\ Cardinality(T) = k
                                                     /\ ~\E s : NewestFirst(s, T)}
<1> SUFFICES ASSUME Bad # {} PROVE FALSE
  BY FS_CardinalityType, ZenonT(40)
<1>1. PICK k \in Bad : \A l \in Bad : k <= l
  BY LeastOf, ZenonT(40)
<1>2. PICK T \in SUBSET Nat : IsFiniteSet(T) /\ Cardinality(T) = k /\ ~\E s : NewestFirst(s, T)
  BY <1>1, ZenonT(40)
<1>3. CASE T = {}
  <2>1. 1 .. Cardinality(T) = {}
    BY <1>3, FS_EmptySet, SMTT(30), Z3T(30)
  <2>2. [i \in {} |-> 0] \in [{} -> {}]
    OBVIOUS
  <2>3. NewestFirst([i \in {} |-> 0], T)
    BY <1>3, <2>1, <2>2, ZenonT(40) DEF NewestFirst
  <2> QED BY <1>2, <2>3, Zenon
<1>4. CASE T # {}
  <2>1. PICK m \in T : \A x \in T : m <= x
    BY <1>4, LeastOf, ZenonT(40)
  <2>2. /\ IsFiniteSet(T \ {m}) /\ Cardinality(T \ {m}) = k - 1
        /\ Cardinality(T \ {m}) \in Nat /\ k \in Nat
    BY <1>2, FS_RemoveElement, FS_CardinalityType, ZenonT(40)
  <2>3. ~(k <= k - 1)
    BY <2>2, SMTT(30)
  <2>4. k - 1 \notin Bad
    BY <1>1, <2>3, Zenon
  <2>5. \E s : NewestFirst(s, T \ {m})
    BY <2>2, <2>4, ZenonT(40)
  <2>6. \E r : NewestFirst(r, T)
    BY ONLY <1>2, <2>1, <2>5, ListExtended, ZenonT(40)
  <2> QED BY <1>2, <2>6, Zenon
<1> QED BY <1>3, <1>4

\* Such a list leaves nothing out: it has as many members as the set, no two alike.
LEMMA ListComplete ==
  ASSUME NEW S \in SUBSET Nat, IsFiniteSet(S), NEW s, NewestFirst(s, S), NEW x \in S
  PROVE  \E i \in 1 .. Cardinality(S) : s[i] = x
<1> DEFINE k == Cardinality(S)
<1>1. k \in Nat /\ IsFiniteSet(1 .. k) /\ Cardinality(1 .. k) = k
  BY FS_CardinalityType, FS_Interval, SMTT(30), Z3T(30)
<1> HIDE DEF k
<1>2. s \in [1 .. k -> S] /\ \A i, j \in 1 .. k : i < j => s[i] > s[j]
  BY DEF NewestFirst, k
<1>3. ASSUME NEW i \in 1 .. k, NEW j \in 1 .. k, s[i] = s[j] PROVE i = j
  <2>1. s[i] \in Nat /\ s[j] \in Nat
    BY <1>2, ZenonT(40)
  <2> QED BY <1>1, <1>2, <1>3, <2>1, SMTT(30)
<1>4. s \in Injection(1 .. k, S)
  BY <1>2, <1>3, ZenonT(40) DEF Injection, IsInjective
<1>5. s \in Surjection(1 .. k, S)
  BY <1>1, <1>4, FS_Injection, ZenonT(40) DEF k
<1> QED BY <1>5, ZenonT(40) DEF Surjection, k

\* The list that ListActions makes before it cuts it.
LEMMA ListSorted ==
  ASSUME NEW S \in SUBSET Nat, IsFiniteSet(S)
  PROVE  NewestFirst(SortedByCreatedAt(S, TRUE), S)
<1>1. PICK s : NewestFirst(s, S)
  BY Listable
<1>2. \E r \in [1 .. Cardinality(S) -> S] :
        \A i, j \in 1 .. Cardinality(S) : i < j => IF TRUE THEN r[i] > r[j] ELSE r[i] < r[j]
  BY <1>1, ZenonT(40) DEF NewestFirst
<1> QED BY <1>2, ZenonT(40) DEF SortedByCreatedAt, NewestFirst

\* Its first entry is the newest of all.
LEMMA FirstIsNewest ==
  ASSUME NEW S \in SUBSET Nat, IsFiniteSet(S), S # {}, NEW s, NewestFirst(s, S)
  PROVE  1 <= Cardinality(S) /\ s[1] \in S /\ \A x \in S : s[1] >= x
<1> DEFINE k == Cardinality(S)
<1>1. k \in Nat /\ k # 0
  BY FS_CardinalityType, FS_EmptySet, ZenonT(40)
<1>2. \A x \in S : \E i \in 1 .. k : s[i] = x
  BY ListComplete, ZenonT(40)
<1>3. s \in [1 .. k -> S] /\ \A i, j \in 1 .. k : i < j => s[i] > s[j]
  BY DEF NewestFirst
<1> HIDE DEF k
<1>4. 1 \in 1 .. k /\ 1 <= k
  BY <1>1, SMTT(30)
<1>5. s[1] \in S
  BY <1>3, <1>4, Zenon
<1>6. ASSUME NEW x \in S PROVE s[1] >= x
  <2>1. PICK i \in 1 .. k : s[i] = x
    BY <1>2
  <2>2. s[1] \in Nat /\ x \in Nat
    BY <1>5, ZenonT(40)
  <2>3. i = 1 \/ 1 < i
    BY SMTT(30)
  <2>4. s[1] = x \/ s[1] > x
    BY <1>3, <1>4, <2>1, <2>3, ZenonT(40)
  <2> QED BY ONLY <2>2, <2>4, SMTT(30)
<1> QED BY <1>4, <1>5, <1>6, Zenon DEF k

\* The limit cuts off its end, and leaves the first entry of a list that has one.
LEMMA CutAtEnd ==
  ASSUME NEW S, IsFiniteSet(S), NEW s \in [1 .. Cardinality(S) -> S], NEW limit \in Nat
  PROVE  \E n \in 0 .. Cardinality(S) :
           /\ DOMAIN Limited(s, limit) = 1 .. n
           /\ \A i \in 1 .. n : Limited(s, limit)[i] = s[i]
           /\ limit = 1 /\ Cardinality(S) # 0 => n # 0
<1> DEFINE k == Cardinality(S)
<1>1. k \in Nat
  BY FS_CardinalityType
<1> HIDE DEF k
<1>2. s \in [1 .. k -> S]
  BY DEF k
<1>3. s \in Seq(S) /\ Len(s) = k
  BY <1>1, <1>2, SMTT(30)
<1>4. CASE limit > 0 /\ limit < k
  <2>1. Limited(s, limit) = SubSeq(s, 1, limit)
    BY <1>3, <1>4, Zenon DEF Limited
  <2>2. /\ limit \in 0 .. k /\ DOMAIN SubSeq(s, 1, limit) = 1 .. limit
        /\ \A i \in 1 .. limit : SubSeq(s, 1, limit)[i] = s[i]
    BY <1>1, <1>3, <1>4, SMTT(30), Z3T(30)
  <2>3. limit # 0
    BY <1>4, SMTT(30)
  <2> QED BY <2>1, <2>2, <2>3, ZenonT(40) DEF k
<1>5. CASE ~(limit > 0 /\ limit < k)
  <2>1. Limited(s, limit) = s
    BY <1>3, <1>5, Zenon DEF Limited
  <2>2. k \in 0 .. k /\ DOMAIN s = 1 .. k
    BY <1>1, <1>2, SMTT(30), Z3T(30)
  <2> QED BY <2>1, <2>2, ZenonT(40) DEF k
<1> QED BY <1>4, <1>5, Zenon

\* The operation t is among the first n that wrote the status of w.
Among(t, w, n) == \E i \in 1 .. n : writes[w][i] = t

\* The map holds finitely many tasks; an operation that completed has stored
\* its outcome; and a query that saw so many of the writes saw those of all that had
\* completed when it came in.
QueryInv ==
  /\ phase \in [Op -> {"new", "queued", "executing", "done"}]
  /\ tracked \subseteq Op /\ IsFiniteSet(tracked)
  /\ writes \in [Subject -> Seq(Op)]
  /\ \A t \in Op : phase[t] = "done" /\ t \notin failed => Among(t, OpOf[t].of, Len(writes[OpOf[t].of]))
  /\ query.pc = "tasks" =>
       /\ query.of \in Subject /\ query.seen \in 0 .. Len(writes[query.of])
       /\ \A t \in query.before : Among(t, query.of, query.seen)

\* The first state satisfies the invariant.
LEMMA QueryStart == QueryInit => QueryInv
<1> SUFFICES ASSUME QueryInit PROVE QueryInv
  OBVIOUS
<1>1. phase \in [Op -> {"new", "queued", "executing", "done"}] /\ \A t \in Op : phase[t] = "new"
  BY DEF QueryInit, Exec!Init
<1>2. query.pc = "idle"
  BY DEF QueryInit, QueryIdle
<1> QED BY <1>1, <1>2, FS_EmptySet, SMTT(30) DEF QueryInit, QueryInv

\* A step of an operation moves that operation alone.
LEMMA PhaseStep ==
  ASSUME QueryInv, NEW t \in Op,
         Exec!Accept(t) \/ Exec!Begin(t) \/ Exec!Drop(t) \/ Exec!Direct(t) \/ Exec!Finish(t)
  PROVE  /\ phase' \in [Op -> {"new", "queued", "executing", "done"}]
         /\ \A u \in Op : u # t => phase'[u] = phase[u]
         /\ Exec!Accept(t) => phase'[t] = "queued"
         /\ Exec!Begin(t) \/ Exec!Direct(t) => phase'[t] = "executing"
BY ZenonT(40) DEF QueryInv, Exec!Accept, Exec!Begin, Exec!Drop, Exec!Direct, Exec!Finish

\* Submit, the queue and its workers.
LEMMA QueueSteps ==
  ASSUME QueryInv, NEW t \in Op,
         Offer(t) \/ Accepted(t) \/ Refused(t) \/ Begins(t) \/ NoHandler(t) \/ Cleanup(t)
  PROVE  QueryInv'
<1>1. UNCHANGED <<writes, query>> /\ failed \subseteq failed'
  BY DEF Offer, Accepted, Refused, Begins, NoHandler, Cleanup
<1>2. tracked' \subseteq tracked \cup {t}
  BY DEF Offer, Accepted, Refused, Begins, NoHandler, Cleanup
<1>3. IsFiniteSet(tracked')
  BY <1>2, FS_AddElement, FS_Subset, ZenonT(40) DEF QueryInv
<1>4. phase' \in [Op -> {"new", "queued", "executing", "done"}]
  BY PhaseStep, Zenon DEF Offer, Accepted, Refused, Begins, NoHandler, Cleanup, QueryInv
<1>5. \A u \in Op : phase'[u] = "done" /\ u \notin failed' => phase[u] = "done"
  BY PhaseStep, Zenon DEF Offer, Accepted, Refused, Begins, NoHandler, Cleanup
<1> QED BY <1>1, <1>2, <1>3, <1>4, <1>5, ZenonT(40) DEF QueryInv, Among

\* The manager writes, and the handler returns.
LEMMA ManagerSteps ==
  ASSUME QueryInv, NEW t \in Op, Persist(t) \/ Ends(t)
  PROVE  QueryInv'
<1> DEFINE w == OpOf[t].of
<1>0. w \in Subject /\ \A u \in Op : OpOf[u].of \in Subject
  BY OpAssumption
<1>1. CASE Persist(t)
  <2>1. UNCHANGED <<phase, tracked, failed, query>>
    BY <1>1, ZenonT(40) DEF Persist
  <2>2. /\ writes' \in [Subject -> Seq(Op)]
        /\ \A v \in Subject : /\ Len(writes'[v]) \in Nat /\ Len(writes[v]) \in Nat
                              /\ Len(writes[v]) <= Len(writes'[v])
                              /\ \A i \in 1 .. Len(writes[v]) : writes'[v][i] = writes[v][i]
    <3>1. writes' = [writes EXCEPT ![w] = Append(writes[w], t)]
      BY <1>1, ZenonT(40) DEF Persist
    <3>2. /\ writes[w] \in Seq(Op) /\ Append(writes[w], t) \in Seq(Op)
          /\ Len(Append(writes[w], t)) = Len(writes[w]) + 1
          /\ \A i \in 1 .. Len(writes[w]) : Append(writes[w], t)[i] = writes[w][i]
      BY <1>0, SMTT(30), Z3T(30) DEF QueryInv
    <3> HIDE DEF w
    <3> QED BY <1>0, <3>1, <3>2, SMTT(30), Z3T(30) DEF QueryInv
  <2>3. ASSUME NEW u, NEW v \in Subject, NEW n \in 0 .. Len(writes[v]), Among(u, v, n)
        PROVE  Among(u, v, n)'
    <3>1. \A i \in 1 .. n : i \in 1 .. Len(writes[v])
      BY <2>2, <2>3, SMTT(30), Z3T(30)
    <3> QED BY <2>2, <2>3, <3>1, SMTT(30), Z3T(30) DEF Among
  <2>4. \A u \in Op : phase'[u] = "done" /\ u \notin failed' => Among(u, OpOf[u].of, Len(writes[OpOf[u].of]))'
    <3> SUFFICES ASSUME NEW u \in Op, phase[u] = "done", u \notin failed
                 PROVE  Among(u, OpOf[u].of, Len(writes[OpOf[u].of]))'
      BY <2>1, ZenonT(40)
    <3> DEFINE v == OpOf[u].of
    <3>1. v \in Subject /\ Among(u, v, Len(writes[v])) /\ Len(writes[v]) \in 0 .. Len(writes[v])
      BY <1>0, <2>2, SMTT(30), Z3T(30) DEF QueryInv
    <3>2. Among(u, v, Len(writes[v]))'
      <4>1. PICK i \in 1 .. Len(writes[v]) : writes[v][i] = u
        BY <3>1, ZenonT(40) DEF Among
      <4>2. i \in 1 .. Len(writes'[v]) /\ writes'[v][i] = u
        BY <2>2, <3>1, <4>1, SMTT(30), Z3T(30)
      <4> QED BY <4>2, ZenonT(40) DEF Among
    <3> QED BY <3>2, ZenonT(40)
  <2>5. query.pc = "tasks" =>
          /\ query.of \in Subject /\ query.seen \in 0 .. Len(writes'[query.of])
          /\ \A u \in query.before : Among(u, query.of, query.seen)'
    BY <2>1, <2>2, <2>3, SMTT(30), Z3T(30) DEF QueryInv
  <2> QED BY <2>1, <2>2, <2>4, <2>5, ZenonT(40) DEF QueryInv
<1>2. CASE Ends(t)
  <2>1. UNCHANGED <<tracked, writes, query>>
    BY <1>2, SMTT(30), Z3T(30) DEF Ends
  <2>2. phase' \in [Op -> {"new", "queued", "executing", "done"}] /\ \A u \in Op : u # t => phase'[u] = phase[u]
    BY <1>2, PhaseStep, SMTT(30), Z3T(30) DEF Ends
  <2>3. failed \subseteq failed' /\ (t \notin failed' => Wrote(t))
    BY <1>2, SMTT(30), Z3T(30) DEF Ends
  <2>4. Wrote(t) => Among(t, w, Len(writes[w]))
    <3>1. DOMAIN writes[w] = 1 .. Len(writes[w])
      BY <1>0 DEF QueryInv
    <3> QED BY <3>1, ZenonT(40) DEF Wrote, Among
  <2> QED BY <2>1, <2>2, <2>3, <2>4, ZenonT(40) DEF QueryInv, Among
<1> QED BY <1>1, <1>2, SMTT(30)

\* The two reads of a query.
LEMMA QuerySteps ==
  ASSUME QueryInv, (\E w \in Subject : GetWorkloadStatus(w)) \/ GetWorkloadStatusTasks
  PROVE  QueryInv'
<1>0. UNCHANGED <<phase, tracked, failed, writes>>
  BY SMTT(30) DEF GetWorkloadStatus, GetWorkloadStatusTasks
<1>1. ASSUME NEW w \in Subject, GetWorkloadStatus(w) PROVE QueryInv'
  <2>1. /\ query'.of = w /\ query'.seen = Len(writes[w])
        /\ query'.before = {t \in Op : OpOf[t].of = w /\ phase[t] = "done" /\ t \notin failed}
    BY <1>1, ZenonT(40) DEF GetWorkloadStatus
  <2>2. Len(writes[w]) \in Nat
    BY SMTT(30), Z3T(30) DEF QueryInv
  <2>3. query'.seen \in 0 .. Len(writes[w]) /\ query'.of \in Subject
    BY <2>1, <2>2, SMTT(30)
  <2>4. \A t \in query'.before : Among(t, w, Len(writes[w]))
    BY <2>1, Zenon DEF QueryInv
  <2>5. \A t \in query'.before : Among(t, query.of, query.seen)'
    BY <1>0, <2>1, <2>4, Zenon DEF Among
  <2>6. \A t \in Op : \A v, n : Among(t, v, n)' <=> Among(t, v, n)
    BY <1>0, Zenon DEF Among
  <2> QED BY <1>0, <2>1, <2>3, <2>5, <2>6, ZenonT(40) DEF QueryInv
<1>2. CASE GetWorkloadStatusTasks
  <2>1. query'.pc = "idle"
    BY <1>2 DEF GetWorkloadStatusTasks, QueryIdle
  <2> QED BY <1>0, <2>1, ZenonT(40) DEF QueryInv, Among
<1> QED BY <1>1, <1>2, SMTT(30)

\* Every step keeps the invariant.
LEMMA QueryStep ==
  ASSUME QueryInv, [QueryNext]_qvars
  PROVE  QueryInv'
<1>1. CASE UNCHANGED qvars
  BY <1>1, ZenonT(40) DEF qvars, QueryInv, Among
<1> QED BY <1>1, QueueSteps, ManagerSteps, QuerySteps, ZenonT(40) DEF QueryNext

\* The tasks of a workload are the ones that ListActions finds for it.
LEMMA TasksOfWorkload ==
  ASSUME QueryInv, NEW w \in Subject
  PROVE  /\ Filtered(w, "", "") = {t \in ListTaskSnapshots("") : OpOf[t].of = w}
         /\ Filtered(w, "", "") \in SUBSET tracked
         /\ Filtered(w, "", "") \in SUBSET Nat /\ IsFiniteSet(Filtered(w, "", ""))
         /\ 0 \notin Filtered(w, "", "")
<1>1. Filtered(w, "", "") = {t \in ListTaskSnapshots("") : OpOf[t].of = w}
  BY SubjectAssumption, ZenonT(40) DEF Filtered
<1>2. Filtered(w, "", "") \in SUBSET tracked
  BY <1>1, ZenonT(40) DEF ListTaskSnapshots
<1>3. Filtered(w, "", "") \in SUBSET (Nat \ {0})
  BY <1>2, OpAssumption, ZenonT(40) DEF QueryInv
<1>4. IsFiniteSet(Filtered(w, "", ""))
  BY <1>2, FS_Subset, ZenonT(40) DEF QueryInv
<1> QED BY <1>1, <1>2, <1>3, <1>4, ZenonT(40)

\* The latest task of a workload, and what is told of it.
LEMMA LatestTask ==
  ASSUME QueryInv, NEW w \in Subject, Filtered(w, "", "") # {}
  PROVE  LET latest == SortedByCreatedAt(Filtered(w, "", ""), TRUE)[1]
             told == pendingStatusFromTasks(w)
         IN  /\ latest \in Filtered(w, "", "") /\ \A u \in Filtered(w, "", "") : latest >= u
             /\ told.op \in {0, latest}
             /\ TaskState(latest) \in {"pending", "running"} => told = [kind |-> "pending", op |-> latest]
<1> DEFINE F == Filtered(w, "", "")
           latest == SortedByCreatedAt(F, TRUE)[1]
           chosen == CHOOSE t \in F : \A u \in F : t >= u
<1>1. F = {t \in ListTaskSnapshots("") : OpOf[t].of = w} /\ F \in SUBSET Nat /\ IsFiniteSet(F)
  BY TasksOfWorkload, Zenon
<1>2. pendingStatusFromTasks(w) =
        CASE F = {} -> NoAnswer
          [] F # {} /\ TaskState(chosen) \in {"pending", "running"} -> [kind |-> "pending", op |-> chosen]
          [] F # {} /\ TaskState(chosen) = "failed" -> [kind |-> "failed", op |-> chosen]
          [] OTHER -> NoAnswer
  BY <1>1, Zenon DEF pendingStatusFromTasks
<1>3. F # {}
  BY ZenonT(40)
<1> HIDE DEF F
<1>4. latest \in F /\ \A u \in F : latest >= u
  BY <1>1, <1>3, ListSorted, FirstIsNewest, ZenonT(40)
<1> HIDE DEF latest
<1>5. chosen \in F /\ \A u \in F : chosen >= u
  BY <1>4, ZenonT(40)
<1> HIDE DEF chosen
<1>6. chosen = latest
  <2>1. chosen \in Nat /\ latest \in Nat /\ chosen >= latest /\ latest >= chosen
    BY <1>1, <1>4, <1>5, ZenonT(40)
  <2> QED BY ONLY <2>1, SMTT(30)
<1>7. pendingStatusFromTasks(w).op \in {0, latest}
  <2> DEFINE told == pendingStatusFromTasks(w)
  <2>1. told \in {NoAnswer, [kind |-> "pending", op |-> latest], [kind |-> "failed", op |-> latest]}
    BY <1>2, <1>3, <1>6, ZenonT(40)
  <2> HIDE DEF told
  <2>2. told.op \in {0, latest}
    BY ONLY <2>1, SMTT(30) DEF NoAnswer
  <2> QED BY <2>2, Zenon DEF told
<1>8. TaskState(latest) \in {"pending", "running"} =>
        pendingStatusFromTasks(w) = [kind |-> "pending", op |-> latest]
  BY <1>2, <1>3, <1>6, ZenonT(40)
<1> QED BY <1>4, <1>7, <1>8, Zenon DEF F, latest

\* What the two calls say of a workload agrees.
LEMMA CallsAgree ==
  ASSUME QueryInv
  PROVE  ActionsAgree
<1> SUFFICES ASSUME NEW w \in Subject, NEW limit \in 0 .. Cardinality(tracked)
             PROVE  LET actions == ListActions(w, "", "", TRUE, limit)
                        listed == {actions[i] : i \in DOMAIN actions}
                        told == pendingStatusFromTasks(w)
                    IN  /\ told.op # 0 => told.op = ListActions(w, "", "", TRUE, 1)[1]
                        /\ \A t \in Filtered(w, "", "") \ listed, u \in listed : t < u
  BY ZenonT(40) DEF ActionsAgree
<1> DEFINE F == Filtered(w, "", "")
           s == SortedByCreatedAt(F, TRUE)
           k == Cardinality(F)
           actions == Limited(s, limit)
           told == pendingStatusFromTasks(w)
<1>1. F \in SUBSET Nat /\ IsFiniteSet(F) /\ k \in Nat
  BY TasksOfWorkload, FS_CardinalityType, ZenonT(40)
<1>2. F # {} => told.op \in {0, s[1]}
  BY LatestTask, Zenon
<1>3. F = {} => told.op = 0
  <2>1. F = {t \in ListTaskSnapshots("") : OpOf[t].of = w}
    BY TasksOfWorkload, Zenon
  <2> HIDE DEF F
  <2>2. F = {} => told = NoAnswer
    BY <2>1, ZenonT(40) DEF pendingStatusFromTasks
  <2> QED BY <2>2, SMTT(30) DEF NoAnswer
<1> HIDE DEF F, told
<1>4. NewestFirst(s, F)
  BY <1>1, ListSorted, Zenon
<1> HIDE DEF s
<1>5. s \in [1 .. k -> F] /\ \A i, j \in 1 .. k : i < j => s[i] > s[j]
  BY <1>4, Zenon DEF NewestFirst
<1>6. \A x \in F : \E i \in 1 .. k : s[i] = x
  BY <1>1, <1>4, ListComplete, ZenonT(40)
<1>7. ASSUME NEW l \in Nat
      PROVE  \E n \in 0 .. k : /\ DOMAIN Limited(s, l) = 1 .. n
                               /\ \A i \in 1 .. n : Limited(s, l)[i] = s[i]
                               /\ l = 1 /\ k # 0 => n # 0
  <2>1. l \in Nat /\ IsFiniteSet(F) /\ s \in [1 .. k -> F]
    BY <1>1, <1>5
  <2> QED BY ONLY <2>1, CutAtEnd, ZenonT(40)
<1>8. told.op # 0 => told.op = Limited(s, 1)[1]
  <2> SUFFICES ASSUME F # {} PROVE Limited(s, 1)[1] = s[1]
    BY <1>2, <1>3, ZenonT(40)
  <2>1. k # 0
    BY <1>1, FS_EmptySet, ZenonT(40)
  <2>2. 1 \in Nat
    OBVIOUS
  <2>3. PICK n \in 0 .. k : (\A i \in 1 .. n : Limited(s, 1)[i] = s[i]) /\ n # 0
    BY <1>7, <2>1, <2>2, Zenon
  <2>4. 1 \in 1 .. n
    BY <1>1, <2>3, SMTT(30), Z3T(30) DEF k
  <2> QED BY <2>3, <2>4, Zenon
<1>9. ASSUME NEW t \in F, ~\E i \in DOMAIN actions : actions[i] = t, NEW j \in DOMAIN actions
      PROVE  t < actions[j]
  <2>1. limit \in Nat
    BY SMTT(30)
  <2>2. PICK n \in 0 .. k : DOMAIN actions = 1 .. n /\ \A i \in 1 .. n : actions[i] = s[i]
    BY <1>7, <2>1, Zenon
  <2>3. PICK i \in 1 .. k : s[i] = t
    BY <1>6, Zenon
  <2> HIDE DEF k, actions
  <2>4. i \notin 1 .. n
    BY <1>9, <2>2, <2>3, ZenonT(40)
  <2>5. j \in 1 .. k /\ j < i
    BY <1>1, <1>9, <2>2, <2>3, <2>4, SMTT(30), Z3T(30)
  <2>6. actions[j] = s[j] /\ s[j] > t
    BY <1>5, <1>9, <2>2, <2>3, <2>5, ZenonT(40)
  <2>7. s[j] \in Nat /\ t \in Nat
    BY <1>1, <1>5, <2>5, ZenonT(40)
  <2> QED BY <2>6, <2>7, SMTT(30)
<1> HIDE DEF k, actions
<1>10. told.op # 0 => told.op = ListActions(w, "", "", TRUE, 1)[1]
  BY <1>8, Zenon DEF ListActions, F, s
<1>11. ListActions(w, "", "", TRUE, limit) = actions
  BY Zenon DEF ListActions, F, s, actions
<1> QED BY <1>9, <1>10, <1>11, ZenonT(40) DEF F, told

-----------------------------------------------------------------------------
(* The theorems.                                                           *)

\* The second read answers Pending when the latest task of the workload is under way.
LEMMA LatestTold ==
  ASSUME QueryInv, GetWorkloadStatusTasks,
         NEW t \in tracked, OpOf[t].of = query.of, phase[t] \in {"queued", "executing"}
  PROVE  \/ answer'.kind = "pending"
         \/ \E u \in Op : u > t /\ OpOf[u].of = query.of /\ phase[u] = "done"
<1> DEFINE mine == Filtered(query.of, "", "")
           latest == SortedByCreatedAt(mine, TRUE)[1]
<1>1. query.of \in Subject
  BY DEF QueryInv, GetWorkloadStatusTasks
<1>2. t \in mine /\ \A u \in mine : u \in tracked /\ OpOf[u].of = query.of
  BY <1>1, TasksOfWorkload, ZenonT(40) DEF ListTaskSnapshots
<1>3. /\ latest \in mine /\ \A u \in mine : latest >= u
      /\ TaskState(latest) \in {"pending", "running"} =>
           pendingStatusFromTasks(query.of) = [kind |-> "pending", op |-> latest]
  BY <1>1, <1>2, LatestTask, ZenonT(40)
<1> HIDE DEF latest, mine
<1>4. /\ latest \in Op /\ OpOf[latest].of = query.of /\ latest >= t /\ t \in Nat /\ latest \in Nat
      /\ phase[latest] \in {"new", "queued", "executing", "done"}
  BY <1>2, <1>3, OpAssumption, ZenonT(40) DEF QueryInv
<1>5. CASE phase[latest] = "done"
  <2>1. latest > t
    BY <1>4, <1>5, SMTT(30), Z3T(30)
  <2> QED BY <1>4, <1>5, <2>1, ZenonT(40)
<1>6. CASE phase[latest] # "done"
  <2>1. TaskState(latest) \in {"pending", "running"}
    BY <1>4, <1>6, SMTT(30), Z3T(30) DEF TaskState
  <2>2. answer' = [kind |-> "pending", op |-> latest]
    BY <1>3, <2>1 DEF GetWorkloadStatusTasks
  <2> QED BY <2>2, SMTT(30)
<1> QED BY <1>5, <1>6, SMTT(30)

\* A caller whose operation was accepted is told Pending until it has ended, for any
\* operations and any order in which Submit, the workers and the cleanup run.
THEOREM ToldPending == QuerySpec => PendingUntilDone
<1>1. QueryInv /\ [QueryNext]_qvars => QueryInv'
  BY QueryStep, SMTT(30)
<1>2. QueryInv /\ [QueryNext]_qvars =>
        [GetWorkloadStatusTasks =>
           \A t \in Op :
             OpOf[t].of = query.of /\ phase[t] \in {"queued", "executing"} /\ t \in tracked =>
               \/ answer'.kind = "pending"
               \/ \E u \in Op : u > t /\ OpOf[u].of = query.of /\ phase[u] = "done"]_qvars
  BY LatestTold
<1> QED BY QueryStart, <1>1, <1>2, PTL DEF QuerySpec, PendingUntilDone

\* An answer reflects every operation on the workload that had completed when the
\* call came in.
THEOREM EarlierWritesSeen == QuerySpec => SeesEarlierWrites
<1>1. QueryInv /\ [QueryNext]_qvars => QueryInv'
  BY QueryStep, SMTT(30)
<1>2. QueryInv /\ [QueryNext]_qvars =>
        [GetWorkloadStatusTasks /\ answer'.kind \in {"status", "notfound"} =>
           \A t \in query.before : \E i \in 1..query.seen : writes[query.of][i] = t]_qvars
  BY DEF QueryInv, Among, GetWorkloadStatusTasks
<1> QED BY QueryStart, <1>1, <1>2, PTL DEF QuerySpec, SeesEarlierWrites

\* GetWorkloadStatus and ListActions always agree on the newest task of a workload, and
\* a limit cuts off only older ones, for any operations and any limit up to their number.
THEOREM ActionsAlwaysAgree == QuerySpec => []ActionsAgree
<1>1. QueryInv /\ [QueryNext]_qvars => QueryInv'
  BY QueryStep, SMTT(30)
<1>2. QueryInv => ActionsAgree
  BY CallsAgree, SMTT(30), Z3T(30)
<1> QED BY QueryStart, <1>1, <1>2, PTL DEF QuerySpec

-----------------------------------------------------------------------------
(* The storage pools.                                                      *)

\* The inductive invariant: types, capacities, and a pool for every disk.
PoolsInv == PoolsTypeOK /\ NotOversold /\ DiskHasPool

\* A pool on its own: what NotOversold says of each.
Sound(p) ==
  /\ p \in Pool
  /\ p.available >= 0
  /\ p.available + p.allocated <= p.total
  /\ p.quota > 0 => p.allocated <= p.quota

\* PoolsInv, pool by pool and disk by disk.
LEMMA InvByPool ==
  PoolsInv <=>
    /\ pools \in [PoolName -> Pool \cup {NoPool}]
    /\ allocations \in [DiskID -> DiskAllocation \cup {NoDisk}]
    /\ \A n \in PoolName : pools[n] # NoPool => Sound(pools[n])
    /\ DiskHasPool
BY ZenonT(40) DEF PoolsInv, PoolsTypeOK, NotOversold, Sound

\* AllocateDisk's check against the space available and the quota keeps a pool sound.
LEMMA TakeSound ==
  ASSUME NEW p, Sound(p), NEW size \in Int, size > 0, size <= p.available,
         p.quota > 0 => p.allocated + size <= p.quota
  PROVE  Sound(Take(p, size))
<1>1. p.allocated + size \in Int /\ p.available - size \in Int
  BY DEF Sound, Pool
<1>2. Take(p, size) \in Pool
  BY <1>1, Zenon DEF Take, Sound, Pool
<1>3. /\ Take(p, size).total = p.total /\ Take(p, size).quota = p.quota
      /\ Take(p, size).available = p.available - size
      /\ Take(p, size).allocated = p.allocated + size
  BY ZenonT(40) DEF Take, Sound, Pool
<1> QED BY <1>2, <1>3, SMTT(30), Z3T(30) DEF Sound, Pool

\* So does giving back a positive size.
LEMMA ReleaseSound ==
  ASSUME NEW p, Sound(p), NEW size \in Nat \ {0}
  PROVE  Sound(Release(p, size))
<1>1. p.available + size \in Int /\ p.allocated - size \in Int
  BY DEF Sound, Pool
<1>2. Release(p, size) \in Pool
  BY <1>1, Zenon DEF Release, Sound, Pool
<1>3. /\ Release(p, size).total = p.total /\ Release(p, size).quota = p.quota
      /\ Release(p, size).available = p.available + size
      /\ Release(p, size).allocated = p.allocated - size
  BY ZenonT(40) DEF Release, Sound, Pool
<1> QED BY <1>2, <1>3, SMTT(30), Z3T(30) DEF Sound, Pool

\* The pools that a step does not name are as they were: it is enough to look at
\* the pool that it writes and at the disks.
LEMMA PoolWritten ==
  ASSUME PoolsInv, NEW n \in PoolName, NEW p, Sound(p), pools' = [pools EXCEPT ![n] = p],
         allocations' \in [DiskID -> DiskAllocation \cup {NoDisk}],
         \A d \in DiskID : allocations'[d] # NoDisk =>
           \/ allocations'[d].pool = n
           \/ allocations[d] # NoDisk /\ allocations'[d].pool = allocations[d].pool
  PROVE  PoolsInv'
<1>1. p \in Pool /\ p # NoPool
  BY PoolAssumption, ZenonT(40) DEF Sound
<1>2. /\ pools' \in [PoolName -> Pool \cup {NoPool}]
      /\ \A m \in PoolName : pools'[m] # NoPool => Sound(pools'[m])
      /\ \A m \in PoolName : pools[m] # NoPool => pools'[m] # NoPool
      /\ pools'[n] # NoPool
  BY <1>1, InvByPool, ZenonT(40)
<1>3. \A d \in DiskID : allocations'[d] # NoDisk => allocations'[d].pool \in PoolName
  BY ZenonT(40) DEF DiskAllocation
<1>4. DiskHasPool'
  BY <1>2, <1>3, SMTT(30) DEF PoolsInv, DiskHasPool
<1> QED BY <1>2, <1>4, ZenonT(40) DEF PoolsInv, PoolsTypeOK, NotOversold, Sound

\* CreatePool keeps the invariant, given no more available than the pool holds.
LEMMA CreatePoolInv ==
  ASSUME PoolsInv, NEW n \in PoolName, NEW config, NEW total \in Int, NEW available \in Int,
         NEW quota \in Int, NEW t \in Int,
         Sensible(total, available, quota), CreatePool(n, config, total, available, quota, t)
  PROVE  PoolsInv'
<1> DEFINE p == [total |-> total, available |-> IF available = 0 THEN total ELSE available,
                 allocated |-> 0, quota |-> quota, threshold |-> defaultThreshold(t),
                 status |-> "healthy"]
<1>1. defaultThreshold(t) \in 1..100
  BY SMTT(30), Z3T(30) DEF defaultThreshold
<1>2. Sound(p)
  BY <1>1, SMTT(30), Z3T(30) DEF Sensible, CreatePool, Sound, Pool
<1>3. pools' = [pools EXCEPT ![n] = p] /\ allocations' = allocations
  BY ZenonT(40) DEF CreatePool
<1> HIDE DEF p
<1> QED BY <1>2, <1>3, PoolWritten, ZenonT(40) DEF PoolsInv, PoolsTypeOK

\* DeletePool keeps it: no disk names the pool that goes.
LEMMA DeletePoolInv ==
  ASSUME PoolsInv, NEW n \in PoolName, DeletePool(n)
  PROVE  PoolsInv'
<1>1. pools' = [pools EXCEPT ![n] = NoPool] /\ allocations' = allocations
  BY DEF DeletePool
<1>2. \A d \in DiskID : allocations[d] # NoDisk =>
        allocations[d].pool \in PoolName /\ allocations[d].pool # n
  BY DEF PoolsInv, PoolsTypeOK, DiskAllocation, DeletePool
<1>3. DiskHasPool'
  BY <1>1, <1>2, SMTT(30) DEF PoolsInv, PoolsTypeOK, DiskHasPool
<1> QED BY <1>1, <1>3, SMTT(30), Z3T(30) DEF PoolsInv, PoolsTypeOK, NotOversold

\* ResizePool keeps it: the new size exceeds what is allocated.
LEMMA ResizePoolInv ==
  ASSUME PoolsInv, NEW n \in PoolName, NEW size \in Int, ResizePool(n, size)
  PROVE  PoolsInv'
<1> DEFINE p == [pools[n] EXCEPT !.total = size, !.available = size - pools[n].allocated]
<1>1. Sound(pools[n]) /\ size > pools[n].allocated
  BY InvByPool, ZenonT(40) DEF ResizePool
<1>2. size - pools[n].allocated \in Int
  BY <1>1 DEF Sound, Pool
<1>3. p \in Pool
  BY <1>1, <1>2, ZenonT(40) DEF Sound, Pool
<1>4. /\ p.total = size /\ p.available = size - pools[n].allocated
      /\ p.allocated = pools[n].allocated /\ p.quota = pools[n].quota
  BY <1>1, ZenonT(40) DEF Sound, Pool
<1>5. Sound(p)
  <2> HIDE DEF p
  <2> QED BY <1>1, <1>3, <1>4, SMTT(30), Z3T(30) DEF Sound, Pool
<1>6. pools' = [pools EXCEPT ![n] = p] /\ allocations' = allocations
  BY Zenon DEF ResizePool, PoolsInv, PoolsTypeOK
<1> HIDE DEF p
<1> QED BY <1>5, <1>6, PoolWritten, ZenonT(40) DEF PoolsInv, PoolsTypeOK

\* AllocateDisk keeps it.
LEMMA AllocateDiskInv ==
  ASSUME PoolsInv, NEW d \in DiskID, NEW n \in PoolName, NEW size \in Int, AllocateDisk(d, n, size)
  PROVE  PoolsInv'
<1> DEFINE entry == [pool |-> n, size |-> size, attachedTo |-> Detached]
<1>1. Sound(pools[n])
  BY InvByPool, ZenonT(40) DEF AllocateDisk
<1>2. Sound(Take(pools[n], size))
  BY <1>1, TakeSound, ZenonT(40) DEF AllocateDisk
<1>3. entry \in DiskAllocation
  BY SMTT(30), Z3T(30) DEF AllocateDisk, DiskAllocation
<1>4. /\ pools' = [pools EXCEPT ![n] = Take(pools[n], size)]
      /\ allocations' = [allocations EXCEPT ![d] = entry]
  BY DEF AllocateDisk
<1>5. entry.pool = n
  OBVIOUS
<1> HIDE DEF entry
<1>6. allocations' \in [DiskID -> DiskAllocation \cup {NoDisk}]
  BY <1>3, <1>4, SMTT(30), Z3T(30) DEF PoolsInv, PoolsTypeOK
<1>7. \A e \in DiskID : allocations'[e] # NoDisk =>
        allocations'[e].pool = n \/ (allocations[e] # NoDisk /\ allocations'[e].pool = allocations[e].pool)
  BY <1>4, <1>5, SMTT(30) DEF PoolsInv, PoolsTypeOK
<1> QED BY <1>1, <1>2, <1>4, <1>6, <1>7, PoolWritten, ZenonT(40) DEF AllocateDisk

\* FreeDisk keeps it.
LEMMA FreeDiskInv ==
  ASSUME PoolsInv, NEW d \in DiskID, FreeDisk(d)
  PROVE  PoolsInv'
<1> DEFINE n == allocations[d].pool
           size == allocations[d].size
<1>1. allocations[d] \in DiskAllocation
  BY DEF PoolsInv, PoolsTypeOK, FreeDisk
<1>2. n \in PoolName /\ size \in Nat \ {0}
  BY <1>1, SMTT(30), Z3T(30) DEF DiskAllocation
<1>3. /\ pools[n] # NoPool
      /\ pools' = [pools EXCEPT ![n] = Release(pools[n], size)]
      /\ allocations' = [allocations EXCEPT ![d] = NoDisk]
  BY DEF FreeDisk
<1> HIDE DEF n, size
<1>4. Sound(Release(pools[n], size))
  BY <1>2, <1>3, InvByPool, ReleaseSound, ZenonT(40)
<1>5. /\ allocations' \in [DiskID -> DiskAllocation \cup {NoDisk}]
      /\ \A e \in DiskID : allocations'[e] # NoDisk =>
           allocations[e] # NoDisk /\ allocations'[e].pool = allocations[e].pool
  BY <1>3 DEF PoolsInv, PoolsTypeOK
<1> QED BY <1>2, <1>3, <1>4, <1>5, PoolWritten, ZenonT(40)

\* Attaching and detaching change no pool, nor where a disk comes from.
LEMMA AttachInv ==
  ASSUME PoolsInv, NEW d \in DiskID, NEW w \in Workload \cup {Detached},
         allocations[d] # NoDisk, allocations' = [allocations EXCEPT ![d].attachedTo = w],
         UNCHANGED pools
  PROVE  PoolsInv'
<1> DEFINE entry == [allocations[d] EXCEPT !.attachedTo = w]
<1>1. allocations[d] \in DiskAllocation
  BY DEF PoolsInv, PoolsTypeOK
<1>2. entry \in DiskAllocation /\ entry.pool = allocations[d].pool
  BY <1>1 DEF DiskAllocation
<1>3. allocations' = [allocations EXCEPT ![d] = entry]
  BY DEF PoolsInv, PoolsTypeOK
<1> HIDE DEF entry
<1>4. DiskHasPool'
  BY <1>2, <1>3, ZenonT(40) DEF PoolsInv, PoolsTypeOK, DiskHasPool
<1> QED BY <1>2, <1>3, <1>4, SMTT(30), Z3T(30) DEF PoolsInv, PoolsTypeOK, NotOversold

\* Every operation keeps the invariant.
LEMMA PoolsStep == PoolsInv /\ [PoolsNext]_poolvars => PoolsInv'
<1> SUFFICES ASSUME PoolsInv, [PoolsNext]_poolvars PROVE PoolsInv'
  OBVIOUS
<1>1. ASSUME NEW n \in PoolName, DeletePool(n) PROVE PoolsInv'
  BY <1>1, DeletePoolInv, SMTT(30), Z3T(30)
<1>2. ASSUME NEW n \in PoolName, NEW config \in Config, NEW total \in SizeGB, NEW available \in SizeGB,
             NEW quota \in SizeGB, NEW t \in Threshold,
             Sensible(total, available, quota), CreatePool(n, config, total, available, quota, t)
      PROVE  PoolsInv'
  BY <1>2, CreatePoolInv, PoolAssumption, SMTT(30), Z3T(30)
<1>3. ASSUME NEW n \in PoolName, NEW size \in SizeGB, ResizePool(n, size) PROVE PoolsInv'
  BY <1>3, ResizePoolInv, PoolAssumption, ZenonT(40)
<1>4. ASSUME NEW d \in DiskID, NEW n \in PoolName, NEW size \in SizeGB, AllocateDisk(d, n, size)
      PROVE  PoolsInv'
  BY <1>4, AllocateDiskInv, PoolAssumption, ZenonT(40)
<1>5. ASSUME NEW d \in DiskID, FreeDisk(d) PROVE PoolsInv'
  BY <1>5, FreeDiskInv, SMTT(30)
<1>6. ASSUME NEW d \in DiskID, DetachDisk(d) PROVE PoolsInv'
  BY <1>6, AttachInv, Zenon DEF DetachDisk
<1>7. ASSUME NEW d \in DiskID, NEW w \in Workload, AttachDisk(d, w) PROVE PoolsInv'
  BY <1>7, AttachInv, ZenonT(40) DEF AttachDisk
<1>8. CASE UNCHANGED poolvars
  BY <1>8, ZenonT(40) DEF poolvars, PoolsInv, PoolsTypeOK, NotOversold, DiskHasPool
<1> QED BY <1>1, <1>2, <1>3, <1>4, <1>5, <1>6, <1>7, <1>8, ZenonT(40) DEF PoolsNext

\* At start there is neither pool nor disk.
LEMMA PoolsStart == PoolsInit => PoolsInv
BY DEF PoolsInit, PoolsInv, PoolsTypeOK, NotOversold, DiskHasPool

\* No sequence of creations, resizes, allocations and releases makes a pool
\* promise more than its size or its quota, for any sizes.
THEOREM PoolsNotOversold == PoolsSpec => []NotOversold
<1>1. PoolsInv => NotOversold
  BY DEF PoolsInv
<1> QED BY PoolsStart, PoolsStep, <1>1, PTL DEF PoolsSpec

\* Every disk that FreeDisk may be asked to release has its pool.
THEOREM DisksHavePools == PoolsSpec => []DiskHasPool
<1>1. PoolsInv => DiskHasPool
  BY DEF PoolsInv
<1> QED BY PoolsStart, PoolsStep, <1>1, PTL DEF PoolsSpec

\* The types of the variables.
THEOREM PoolsTyped == PoolsSpec => []PoolsTypeOK
<1>1. PoolsInv => PoolsTypeOK
  BY ZenonT(40) DEF PoolsInv
<1> QED BY PoolsStart, PoolsStep, <1>1, PTL DEF PoolsSpec

-----------------------------------------------------------------------------
(* The accounts of the pools.                                              *)

\* A pool's disks take up finitely many GB, as many as the pool says are allocated.
\* Finiteness is part of it because nothing bounds the IDs that the clock gives.
Balanced(n) ==
  /\ IsFiniteSet(ListAllocations(n)) /\ IsFiniteSet(AllocatedSpace(n))
  /\ pools[n] # NoPool => pools[n].allocated = Cardinality(AllocatedSpace(n))

AccountInv == \A n \in PoolName : Balanced(n)

\* The space of a disk is as many GB as its size.
LEMMA SpaceOfDisk ==
  ASSUME NEW d, NEW size \in Nat
  PROVE  IsFiniteSet({d} \X (1 .. size)) /\ Cardinality({d} \X (1 .. size)) = size
<1>1. IsFiniteSet({d}) /\ Cardinality({d}) = 1
  BY FS_Singleton
<1>2. IsFiniteSet(1 .. size) /\ Cardinality(1 .. size) = size
  BY FS_Interval, SMTT(30)
<1>3. /\ IsFiniteSet({d} \X (1 .. size))
      /\ Cardinality({d} \X (1 .. size)) = Cardinality({d}) * Cardinality(1 .. size)
  BY <1>1, <1>2, FS_Product, ZenonT(40)
<1> QED BY <1>1, <1>2, <1>3, SMTT(30), Z3T(30)

\* One disk more, of which no part was there before, adds its size.
LEMMA SpaceAdded ==
  ASSUME NEW S, NEW d, NEW size \in Nat, IsFiniteSet(S), \A g : <<d, g>> \notin S
  PROVE  /\ IsFiniteSet(S \cup ({d} \X (1 .. size)))
         /\ Cardinality(S \cup ({d} \X (1 .. size))) = Cardinality(S) + size
<1> DEFINE T == {d} \X (1 .. size)
<1>1. IsFiniteSet(T) /\ Cardinality(T) = size
  BY SpaceOfDisk, ZenonT(40)
<1>2. S \cap T = {}
  BY SMTT(30)
<1> HIDE DEF T
<1>3. /\ IsFiniteSet(S \cup T)
      /\ Cardinality(S \cup T) = Cardinality(S) + Cardinality(T) - Cardinality(S \cap T)
  BY <1>1, FS_Union, ZenonT(40)
<1>4. Cardinality(S) \in Nat /\ Cardinality(S \cap T) = 0
  BY <1>2, FS_CardinalityType, FS_EmptySet, ZenonT(40)
<1>5. Cardinality(S \cup T) = Cardinality(S) + size
  <2> DEFINE all == Cardinality(S \cup T)
             common == Cardinality(S \cap T)
             before == Cardinality(S)
             new == Cardinality(T)
  <2>1. all = before + new - common /\ new = size /\ common = 0 /\ before \in Nat
    BY <1>1, <1>3, <1>4, Zenon
  <2> HIDE DEF all, common, before, new
  <2>2. all = before + size
    BY <2>1, SMTT(30)
  <2> QED BY <2>2, Zenon DEF all, before
<1> QED BY <1>3, <1>5, Zenon DEF T

\* What is in the space of a pool.
LEMMA SpaceMembers ==
  ASSUME NEW n, NEW x
  PROVE  x \in AllocatedSpace(n) <=>
           \E d \in ListAllocations(n) : x \in {d} \X (1 .. allocations[d].size)
BY ZenonT(40) DEF AllocatedSpace

\* A pool whose disks keep their sizes keeps its account.
LEMMA SpaceKept ==
  ASSUME NEW n \in PoolName, Balanced(n), ListAllocations(n)' = ListAllocations(n),
         \A d \in ListAllocations(n) : allocations'[d].size = allocations[d].size,
         pools'[n] # NoPool => pools[n] # NoPool /\ pools'[n].allocated = pools[n].allocated
  PROVE  Balanced(n)'
<1>1. AllocatedSpace(n)' = AllocatedSpace(n)
  BY ZenonT(40) DEF AllocatedSpace
<1> QED BY <1>1, ZenonT(40) DEF Balanced

\* Creating, deleting and resizing a pool touch no disk: a pool that is created has
\* none, since every disk has its pool, and a resize leaves what is allocated.
LEMMA PoolAccounts ==
  ASSUME PoolsInv, AccountInv, NEW n \in PoolName, UNCHANGED allocations,
         NEW p, pools' = [pools EXCEPT ![n] = p],
         \/ p = NoPool
         \/ pools[n] = NoPool /\ p.allocated = 0
         \/ pools[n] # NoPool /\ p.allocated = pools[n].allocated
  PROVE  AccountInv'
<1> SUFFICES ASSUME NEW m \in PoolName PROVE Balanced(m)'
  BY DEF AccountInv
<1>1. ListAllocations(m)' = ListAllocations(m) /\ AllocatedSpace(m)' = AllocatedSpace(m)
  BY ZenonT(40) DEF ListAllocations, AllocatedSpace
<1>2. Balanced(m)
  BY DEF AccountInv
<1>3. pools'[m] = IF m = n THEN p ELSE pools[m]
  BY DEF PoolsInv, PoolsTypeOK
<1>4. CASE m = n /\ pools[n] = NoPool /\ p.allocated = 0
  <2>1. ListAllocations(n) = {}
    BY <1>4, SMTT(30) DEF PoolsInv, DiskHasPool, ListAllocations
  <2>2. AllocatedSpace(n) = {}
    BY <2>1, SpaceMembers, ZenonT(40)
  <2>3. Cardinality(AllocatedSpace(n)) = 0
    BY <2>2, FS_EmptySet, ZenonT(40)
  <2> QED BY <1>1, <1>2, <1>3, <1>4, <2>3, ZenonT(40) DEF Balanced
<1>5. CASE m # n \/ p = NoPool \/ (pools[n] # NoPool /\ p.allocated = pools[n].allocated)
  BY <1>1, <1>2, <1>3, <1>5, ZenonT(40) DEF Balanced
<1> QED BY <1>4, <1>5, ZenonT(40)

\* The space of the disks L when A gives their sizes.
Space(A, L) == UNION {{e} \X (1 .. A[e].size) : e \in L}

\* With one disk more, the others being as large as before, it grows by the size of
\* that disk.
LEMMA OneDiskMore ==
  ASSUME NEW A, NEW C, NEW L, NEW d, d \notin L, NEW size \in Nat, C[d].size = size,
         \A e \in L : C[e].size = A[e].size
  PROVE  /\ IsFiniteSet(Space(C, L \cup {d})) <=> IsFiniteSet(Space(A, L))
         /\ IsFiniteSet(Space(A, L)) =>
              Cardinality(Space(C, L \cup {d})) = Cardinality(Space(A, L)) + size
<1> DEFINE S == Space(A, L)
           T == Space(C, L \cup {d})
<1>1. \A g : <<d, g>> \notin S
  <2> SUFFICES ASSUME NEW g, NEW e \in L, <<d, g>> \in {e} \X (1 .. A[e].size) PROVE FALSE
    BY ZenonT(40) DEF Space
  <2> QED BY SMTT(30)
<1>2. T = S \cup ({d} \X (1 .. size))
  <2>1. ASSUME NEW x \in T PROVE x \in S \cup ({d} \X (1 .. size))
    <3>1. PICK e \in L \cup {d} : x \in {e} \X (1 .. C[e].size)
      BY <2>1, ZenonT(40) DEF Space
    <3> QED BY <3>1, ZenonT(40) DEF Space
  <2>2. ASSUME NEW x \in S PROVE x \in T
    <3>1. PICK e \in L : x \in {e} \X (1 .. A[e].size)
      BY <2>2, ZenonT(40) DEF Space
    <3> QED BY <3>1, ZenonT(40) DEF Space
  <2>3. ASSUME NEW x \in {d} \X (1 .. size) PROVE x \in T
    BY <2>3, ZenonT(40) DEF Space
  <2> HIDE DEF S, T
  <2> QED BY <2>1, <2>2, <2>3, ZenonT(40)
<1> HIDE DEF S, T
<1>3. IsFiniteSet(S) => IsFiniteSet(T) /\ Cardinality(T) = Cardinality(S) + size
  BY <1>1, <1>2, SpaceAdded, ZenonT(40)
<1>4. IsFiniteSet(T) => IsFiniteSet(S)
  <2>1. S \in SUBSET T
    BY <1>2, ZenonT(40)
  <2> QED BY <2>1, FS_Subset, ZenonT(40)
<1> QED BY <1>3, <1>4, Zenon DEF S, T

\* A step that writes one entry leaves the account of every pool that has the disk
\* neither before nor after.
LEMMA OtherAccounts ==
  ASSUME PoolsInv, AccountInv, NEW d \in DiskID, NEW n \in PoolName, NEW m \in PoolName, m # n,
         \A e \in DiskID : e # d => allocations'[e] = allocations[e],
         allocations[d] # NoDisk => allocations[d].pool = n,
         allocations'[d] # NoDisk => allocations'[d].pool = n,
         pools'[m] = pools[m]
  PROVE  Balanced(m)'
<1>1. ListAllocations(m)' = ListAllocations(m)
  BY ZenonT(40) DEF ListAllocations
<1>2. \A e \in ListAllocations(m) : allocations'[e].size = allocations[e].size
  BY SMTT(30) DEF ListAllocations
<1> QED BY <1>1, <1>2, SpaceKept, ZenonT(40) DEF AccountInv

\* AllocateDisk adds the size of the disk on both sides.
LEMMA AllocateAccounts ==
  ASSUME PoolsInv, AccountInv, NEW d \in DiskID, NEW n \in PoolName, NEW size \in Int,
         AllocateDisk(d, n, size)
  PROVE  AccountInv'
<1> DEFINE entry == [pool |-> n, size |-> size, attachedTo |-> Detached]
<1>1. /\ pools' = [pools EXCEPT ![n] = Take(pools[n], size)]
      /\ allocations' = [allocations EXCEPT ![d] = entry]
      /\ pools[n] # NoPool /\ allocations[d] = NoDisk /\ size > 0
  BY ZenonT(40) DEF AllocateDisk
<1>2. entry.pool = n /\ entry.size = size /\ entry \in DiskAllocation
  BY <1>1, SMTT(30), Z3T(30) DEF DiskAllocation
<1>3. size \in Nat /\ entry # NoDisk
  BY <1>1, <1>2, PoolAssumption, SMTT(30), Z3T(30)
<1> HIDE DEF entry
<1>4. allocations'[d] = entry /\ \A e \in DiskID : e # d => allocations'[e] = allocations[e]
  BY <1>1, ZenonT(40) DEF PoolsInv, PoolsTypeOK
<1>5. pools'[n] = Take(pools[n], size) /\ \A m \in PoolName : m # n => pools'[m] = pools[m]
  BY <1>1, SMTT(30), Z3T(30) DEF PoolsInv, PoolsTypeOK
<1>6. Balanced(n)
  BY DEF AccountInv
<1>7. Balanced(n)'
  <2> DEFINE L == ListAllocations(n)
  <2>1. d \notin L /\ ListAllocations(n)' = L \cup {d}
    BY <1>1, <1>2, <1>3, <1>4, ZenonT(40) DEF ListAllocations
  <2>2. \A e \in L : allocations'[e].size = allocations[e].size
    BY <1>1, <1>4, SMTT(30), Z3T(30) DEF ListAllocations
  <2>3. AllocatedSpace(n) = Space(allocations, L)
    BY Zenon DEF AllocatedSpace, Space
  <2> HIDE DEF L
  <2>4. AllocatedSpace(n)' = Space(allocations', L \cup {d})
    BY <2>1, Zenon DEF AllocatedSpace, Space
  <2>5. IsFiniteSet(L) /\ IsFiniteSet(Space(allocations, L))
        /\ pools[n].allocated = Cardinality(Space(allocations, L))
    BY <1>1, <1>6, <2>3, Zenon DEF Balanced, L
  <2>6. allocations'[d].size = size
    BY <1>2, <1>4, ZenonT(40)
  <2>7. /\ IsFiniteSet(Space(allocations', L \cup {d}))
        /\ Cardinality(Space(allocations', L \cup {d})) = Cardinality(Space(allocations, L)) + size
    BY ONLY <1>3, <2>1, <2>2, <2>5, <2>6, OneDiskMore, SMTT(30), Z3T(30)
  <2>8. IsFiniteSet(L \cup {d})
    BY <2>5, FS_AddElement, ZenonT(40)
  <2>9. pools'[n].allocated = pools[n].allocated + size
    BY <1>1, <1>5, SMTT(30), Z3T(30) DEF Take, PoolsInv, PoolsTypeOK, Pool
  <2> QED BY <2>1, <2>4, <2>5, <2>7, <2>8, <2>9, ZenonT(40) DEF Balanced
<1>8. ASSUME NEW m \in PoolName, m # n PROVE Balanced(m)'
  BY <1>1, <1>2, <1>4, <1>5, <1>8, OtherAccounts, ZenonT(40)
<1> QED BY <1>7, <1>8, ZenonT(40) DEF AccountInv

\* FreeDisk takes it away on both sides.
LEMMA FreeAccounts ==
  ASSUME PoolsInv, AccountInv, NEW d \in DiskID, FreeDisk(d)
  PROVE  AccountInv'
<1>1. PICK n \in PoolName, size \in Nat : allocations[d].pool = n /\ allocations[d].size = size
  BY SMTT(30) DEF FreeDisk, PoolsInv, PoolsTypeOK, DiskAllocation
<1>2. /\ allocations[d] # NoDisk /\ pools[n] # NoPool
      /\ pools' = [pools EXCEPT ![n] = Release(pools[n], size)]
      /\ allocations' = [allocations EXCEPT ![d] = NoDisk]
  BY <1>1, Zenon DEF FreeDisk
<1>3. allocations'[d] = NoDisk /\ \A e \in DiskID : e # d => allocations'[e] = allocations[e]
  BY <1>2, ZenonT(40) DEF PoolsInv, PoolsTypeOK
<1>4. pools'[n] = Release(pools[n], size) /\ \A m \in PoolName : m # n => pools'[m] = pools[m]
  BY <1>2, SMTT(30), Z3T(30) DEF PoolsInv, PoolsTypeOK
<1>5. Balanced(n)
  BY DEF AccountInv
<1>6. Balanced(n)'
  <2> DEFINE L == ListAllocations(n)'
  <2>1. d \notin L /\ ListAllocations(n) = L \cup {d}
    BY <1>1, <1>2, <1>3, ZenonT(40) DEF ListAllocations
  <2>2. \A e \in L : allocations[e].size = allocations'[e].size
    BY <1>3, SMTT(30), Z3T(30) DEF ListAllocations
  <2>3. AllocatedSpace(n)' = Space(allocations', L)
    BY Zenon DEF AllocatedSpace, Space
  <2>4. ListAllocations(n)' = L
    OBVIOUS
  <2> HIDE DEF L
  <2>5. AllocatedSpace(n) = Space(allocations, L \cup {d})
    BY <2>1, Zenon DEF AllocatedSpace, Space
  <2>6. /\ IsFiniteSet(L \cup {d}) /\ IsFiniteSet(Space(allocations, L \cup {d}))
        /\ pools[n].allocated = Cardinality(Space(allocations, L \cup {d}))
    BY <1>2, <1>5, <2>1, <2>5, ZenonT(40) DEF Balanced
  <2>7. /\ IsFiniteSet(Space(allocations', L))
        /\ Cardinality(Space(allocations, L \cup {d})) = Cardinality(Space(allocations', L)) + size
    BY ONLY <1>1, <2>1, <2>2, <2>6, OneDiskMore, SMTT(30), Z3T(30)
  <2>8. IsFiniteSet(L) /\ Cardinality(Space(allocations', L)) \in Nat
    <3>1. L \in SUBSET (L \cup {d})
      OBVIOUS
    <3> QED BY <2>6, <2>7, <3>1, FS_Subset, FS_CardinalityType, ZenonT(40)
  <2>9. pools'[n].allocated = pools[n].allocated - size
    BY <1>1, <1>2, <1>4, SMTT(30), Z3T(30) DEF Release, PoolsInv, PoolsTypeOK, Pool
  <2>10. pools'[n].allocated = Cardinality(Space(allocations', L))
    BY ONLY <1>1, <2>6, <2>7, <2>8, <2>9, SMTT(30), Z3T(30)
  <2> QED BY <2>3, <2>4, <2>7, <2>8, <2>10, ZenonT(40) DEF Balanced
<1>7. ASSUME NEW m \in PoolName, m # n PROVE Balanced(m)'
  BY <1>1, <1>3, <1>4, <1>7, OtherAccounts, ZenonT(40)
<1> QED BY <1>6, <1>7, ZenonT(40) DEF AccountInv

\* Attaching and detaching leave every disk in its pool and at its size.
LEMMA AttachAccounts ==
  ASSUME PoolsInv, AccountInv, NEW d \in DiskID, NEW w \in Workload \cup {Detached},
         allocations[d] # NoDisk, allocations' = [allocations EXCEPT ![d].attachedTo = w], UNCHANGED pools
  PROVE  AccountInv'
<1>1. \A e \in DiskID : /\ allocations'[e] # NoDisk <=> allocations[e] # NoDisk
                        /\ allocations[e] # NoDisk =>
                             /\ allocations'[e].pool = allocations[e].pool
                             /\ allocations'[e].size = allocations[e].size
  <2> DEFINE entry == [allocations[d] EXCEPT !.attachedTo = w]
  <2>1. allocations[d] \in DiskAllocation
    BY DEF PoolsInv, PoolsTypeOK
  <2>2. entry.pool = allocations[d].pool /\ entry.size = allocations[d].size
    BY <2>1 DEF DiskAllocation
  <2>3. allocations' = [allocations EXCEPT ![d] = entry]
    BY DEF PoolsInv, PoolsTypeOK
  <2>4. entry # NoDisk
    BY <2>1, PoolAssumption DEF DiskAllocation
  <2> HIDE DEF entry
  <2> QED BY <2>2, <2>3, <2>4, SMTT(30), Z3T(30) DEF PoolsInv, PoolsTypeOK
<1> SUFFICES ASSUME NEW m \in PoolName PROVE Balanced(m)'
  BY DEF AccountInv
<1>2. ListAllocations(m)' = ListAllocations(m)
  BY <1>1, SMTT(30), Z3T(30) DEF ListAllocations
<1>3. \A e \in ListAllocations(m) : allocations'[e].size = allocations[e].size
  BY <1>1, ZenonT(40) DEF ListAllocations
<1> QED BY <1>2, <1>3, SpaceKept, ZenonT(40) DEF AccountInv

\* Every operation keeps the accounts.
LEMMA AccountStep == PoolsInv /\ AccountInv /\ [PoolsNext]_poolvars => AccountInv'
<1> SUFFICES ASSUME PoolsInv, AccountInv, [PoolsNext]_poolvars PROVE AccountInv'
  OBVIOUS
<1>1. ASSUME NEW n \in PoolName, DeletePool(n) PROVE AccountInv'
  BY <1>1, PoolAccounts, ZenonT(40) DEF DeletePool
<1>2. ASSUME NEW n \in PoolName, NEW config \in Config, NEW total \in SizeGB, NEW available \in SizeGB,
             NEW quota \in SizeGB, NEW t \in Threshold, CreatePool(n, config, total, available, quota, t)
      PROVE  AccountInv'
  <2> DEFINE p == [total |-> total, available |-> IF available = 0 THEN total ELSE available,
                   allocated |-> 0, quota |-> quota, threshold |-> defaultThreshold(t),
                   status |-> "healthy"]
  <2>1. pools[n] = NoPool /\ pools' = [pools EXCEPT ![n] = p] /\ UNCHANGED allocations
    BY <1>2, ZenonT(40) DEF CreatePool
  <2>2. p.allocated = 0
    OBVIOUS
  <2> HIDE DEF p
  <2> QED BY <2>1, <2>2, PoolAccounts, ZenonT(40)
<1>3. ASSUME NEW n \in PoolName, NEW size \in SizeGB, ResizePool(n, size) PROVE AccountInv'
  <2> DEFINE p == [pools[n] EXCEPT !.total = size, !.available = size - pools[n].allocated]
  <2>1. pools[n] # NoPool /\ pools' = [pools EXCEPT ![n] = p] /\ UNCHANGED allocations
    BY <1>3, ZenonT(40) DEF ResizePool, PoolsInv, PoolsTypeOK
  <2>2. p.allocated = pools[n].allocated
    BY <2>1, ZenonT(40) DEF PoolsInv, PoolsTypeOK, Pool
  <2> HIDE DEF p
  <2> QED BY <2>1, <2>2, PoolAccounts, ZenonT(40)
<1>4. ASSUME NEW d \in DiskID, NEW n \in PoolName, NEW size \in SizeGB, AllocateDisk(d, n, size)
      PROVE  AccountInv'
  BY <1>4, AllocateAccounts, PoolAssumption, ZenonT(40)
<1>5. ASSUME NEW d \in DiskID, FreeDisk(d) PROVE AccountInv'
  BY <1>5, FreeAccounts, SMTT(30), Z3T(30)
<1>6. ASSUME NEW d \in DiskID, DetachDisk(d) PROVE AccountInv'
  BY <1>6, AttachAccounts, ZenonT(40) DEF DetachDisk
<1>7. ASSUME NEW d \in DiskID, NEW w \in Workload, AttachDisk(d, w) PROVE AccountInv'
  BY <1>7, AttachAccounts, ZenonT(40) DEF AttachDisk
<1>8. CASE UNCHANGED poolvars
  BY <1>8, ZenonT(40) DEF poolvars, AccountInv, Balanced, AllocatedSpace, ListAllocations
<1> QED BY <1>1, <1>2, <1>3, <1>4, <1>5, <1>6, <1>7, <1>8, ZenonT(40) DEF PoolsNext

\* At start there is nothing to account for.
LEMMA AccountStart == PoolsInit => AccountInv
<1> SUFFICES ASSUME PoolsInit, NEW n \in PoolName PROVE Balanced(n)
  BY DEF AccountInv
<1>1. ListAllocations(n) = {} /\ pools[n] = NoPool
  BY SMTT(30) DEF PoolsInit, ListAllocations
<1>2. AllocatedSpace(n) = {}
  BY <1>1, SpaceMembers, ZenonT(40)
<1> QED BY <1>1, <1>2, FS_EmptySet, ZenonT(40) DEF Balanced

\* A pool without disks has no space allocated, and one with disks has: no size is zero.
LEMMA CountsAgree ==
  ASSUME PoolsInv, AccountInv
  PROVE  Accounted
<1> SUFFICES ASSUME NEW n \in PoolName, pools[n] # NoPool
             PROVE  /\ pools[n].allocated = Cardinality(AllocatedSpace(n))
                    /\ Cardinality(ListAllocations(n)) = 0 <=> pools[n].allocated = 0
  BY ZenonT(40) DEF Accounted, GetPoolStats
<1>1. /\ IsFiniteSet(ListAllocations(n)) /\ IsFiniteSet(AllocatedSpace(n))
      /\ pools[n].allocated = Cardinality(AllocatedSpace(n))
  BY DEF AccountInv, Balanced
<1>2. /\ Cardinality(ListAllocations(n)) = 0 <=> ListAllocations(n) = {}
      /\ Cardinality(AllocatedSpace(n)) = 0 <=> AllocatedSpace(n) = {}
  BY <1>1, FS_EmptySet, ZenonT(40)
<1>3. ListAllocations(n) = {} => AllocatedSpace(n) = {}
  BY SpaceMembers, ZenonT(40)
<1>4. ASSUME NEW d \in ListAllocations(n) PROVE AllocatedSpace(n) # {}
  <2>1. 1 \in 1 .. allocations[d].size
    BY SMTT(30) DEF ListAllocations, PoolsInv, PoolsTypeOK, DiskAllocation
  <2>2. <<d, 1>> \in {d} \X (1 .. allocations[d].size)
    BY <2>1, ZenonT(40)
  <2> QED BY <2>2, SpaceMembers, ZenonT(40)
<1> QED BY <1>1, <1>2, <1>3, <1>4, ZenonT(40)

\* What a pool says is allocated is always the sum of the sizes of its disks, for any
\* pools, disks and sizes, and it is zero only of a pool without disks.
THEOREM PoolsAccounted == PoolsSpec => []Accounted
<1>1. PoolsInit => PoolsInv /\ AccountInv
  BY PoolsStart, AccountStart
<1>2. PoolsInv /\ AccountInv /\ [PoolsNext]_poolvars => PoolsInv' /\ AccountInv'
  BY PoolsStep, AccountStep
<1>3. PoolsInv /\ AccountInv => Accounted
  BY CountsAgree
<1> QED BY <1>1, <1>2, <1>3, PTL DEF PoolsSpec
===============================================================================
