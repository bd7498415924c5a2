------------------------------ MODULE HostProofs ------------------------------
(*****************************************************************************)
(* What the agent keeps on its host.                                         *)
(*                                                                           *)
(* The certificates: the bundle being written is newer than every file it    *)
(* has yet to replace, and whoever reads the files gets for each one         *)
(* something between its modification time and what is on disk.              *)
(*                                                                           *)
(* The VM runtime, for any disks and failures: a user's image survives, a VM *)
(* that Stop has stopped stays down, a delete that succeeds leaves nothing,  *)
(* and the images outlive the guest that uses them.                          *)
(*****************************************************************************)
EXTENDS Certificates, VMRuntime, TLAPS

-----------------------------------------------------------------------------
(* The certificates.                                                       *)

\* Where a call of getConfig may stand.
CallPC == {"idle", "stat_key", "stat_ca", "check", "load_cert", "load_key", "load_ca",
           "publish", "done"}

\* The bundle being written is newer than every file it has yet to replace.
WriterInv ==
  /\ \A f \in File : disk[f] <= issued
  /\ mgr.pc \in {"key", "cert", "ca"} => mgr.gen = issued
  /\ mgr.pc = "key" => disk["key"] < issued
  /\ mgr.pc \in {"key", "cert"} => disk["cert"] < issued
  /\ mgr.pc \in {"key", "cert", "ca"} => disk["ca"] < issued

\* Between the modification time and the file on disk.
Between(mod, got, f) == mod[f] <= got[f] /\ got[f] <= disk[f]

CacheInv == \A f \in File : Between(cache.mod, cache.got, f)

ReaderInv(r) ==
  /\ \A f \in File : rd[r].mod[f] <= disk[f]
  /\ rd[r].pc \in {"load_key", "load_ca", "publish"} => Between(rd[r].mod, rd[r].got, "cert")
  /\ rd[r].pc \in {"load_ca", "publish"} => Between(rd[r].mod, rd[r].got, "key")
  /\ rd[r].pc = "publish" => Between(rd[r].mod, rd[r].got, "ca")
  /\ rd[r].pc = "done" /\ rd[r].mod = disk => rd[r].got = disk \/ disk["key"] # disk["cert"]

Inv == TypeOK /\ WriterInv /\ CacheInv /\ \A r \in Reader : ReaderInv(r)

\* Every generation is an integer.
LEMMA Generations ==
  /\ Missing \in Int /\ Missing < 0
  /\ \A b \in Bundle, f \in File : b[f] \in Int /\ Missing <= b[f] /\ b[f] <= MaxGen
  /\ NoBundle \in Bundle
  /\ \A b \in Bundle, c \in Bundle : (\A f \in File : b[f] = c[f]) => b = c
BY CertificatesAssumption DEF Missing, Bundle, File, NoBundle

\* The initial state satisfies the invariant.
LEMMA InitInv == Init => Inv
<1> SUFFICES ASSUME Init PROVE Inv
  OBVIOUS
<1> USE CertificatesAssumption
<1>1. disk \in Bundle /\ \A f \in File : disk[f] <= 0 /\ Missing <= disk[f]
  BY DEF Init, Bundle, NoBundle, File, Missing
<1>2. TypeOK
  <2>1. IdleCall \in Call /\ NoCache \in [mod : Bundle, got : Bundle]
    BY Generations DEF IdleCall, Call, NoCache
  <2>2. Starting \in Mgr
    BY DEF Starting, Mgr, Missing
  <2>3. age \in [0 .. MaxGen -> {"fresh", "due", "expired", "foreign"}]
    BY DEF Init
  <2> QED
    BY <1>1, <2>1, <2>2, <2>3 DEF Init, TypeOK
<1>3. WriterInv
  BY <1>1 DEF Init, WriterInv, Starting
<1>4. CacheInv
  BY <1>1 DEF Init, CacheInv, Between, NoCache, NoBundle, File, Missing
<1>5. ASSUME NEW r \in Reader PROVE ReaderInv(r)
  BY <1>1 DEF Init, ReaderInv, IdleCall, NoBundle, File, Missing
<1> QED
  BY <1>2, <1>3, <1>4, <1>5 DEF Inv
-----------------------------------------------------------------------------
(* Type correctness of a step.                                             *)

\* A failed issue only moves the manager and, at the start, the server.
LEMMA IssueFailedType ==
  ASSUME TypeOK, NEW from \in {"start", "rotation", "recovery"}, IssueFailed(from)
  PROVE  mgr' \in Mgr /\ server' \in {"off", "priming", "serving"}
         /\ mgr'.pc \notin {"key", "cert", "ca"}
BY DEF TypeOK, IssueFailed, Resume, Mgr

\* An issue keeps the types.
LEMMA IssueType ==
  ASSUME TypeOK, NEW from \in {"start", "rotation", "recovery"}, Issue(from)
  PROVE  TypeOK'
<1> USE CertificatesAssumption
<1>1. CASE "vault" \in down
  BY <1>1, IssueFailedType DEF Issue, TypeOK
<1>2. CASE "vault" \notin down
  <2>1. issued + 1 \in 0 .. MaxGen /\ issued' = issued + 1
    BY <1>2 DEF Issue, TypeOK
  <2>2. mgr' \in Mgr
    BY <1>2, <2>1, ZenonT(40) DEF Issue, TypeOK, Mgr
  <2> QED
    BY <1>2, <2>1, <2>2 DEF Issue, TypeOK
<1> QED
  BY <1>1, <1>2

\* A write of a file keeps the types.
LEMMA WriteType ==
  ASSUME TypeOK, WriteKey \/ WriteCert \/ WriteCA
  PROVE  TypeOK'
<1> USE CertificatesAssumption
<1>0. mgr.from \in {"start", "rotation", "recovery"} /\ mgr.gen \in 0 .. MaxGen
  BY DEF TypeOK, Mgr
<1>1. CASE "disk" \in down
  BY <1>0, <1>1, IssueFailedType DEF WriteKey, WriteCert, WriteCA, WriteFile, TypeOK
<1>2. CASE "disk" \notin down
  <2>1. PICK f \in File : disk' = [disk EXCEPT ![f] = mgr.gen]
    BY <1>2 DEF WriteKey, WriteCert, WriteCA, WriteFile, File
  <2>2. disk' \in Bundle
    BY <1>0, <2>1 DEF TypeOK, Bundle, Missing
  <2>3. \/ mgr' = [mgr EXCEPT !.pc = "cert"]
        \/ mgr' = [mgr EXCEPT !.pc = "ca"]
        \/ mgr' = [mgr EXCEPT !.pc = "rotation", !.current = mgr.gen]
    BY <1>2 DEF WriteKey, WriteCert, WriteCA, WriteFile
  <2>4. mgr.gen \in Missing .. MaxGen
    BY <1>0 DEF Missing
  <2>5. mgr' \in Mgr
    BY <2>3, <2>4, ZenonT(40) DEF TypeOK, Mgr
  <2>6. UNCHANGED <<issued, age, down, cache, rd, crashes>>
        /\ server' \in {"off", "priming", "serving"}
    BY <1>2 DEF WriteKey, WriteCert, WriteCA, WriteFile, Resume, TypeOK
  <2> QED
    BY <2>2, <2>5, <2>6 DEF TypeOK
<1> QED
  BY <1>1, <1>2

\* What the steps of a call of getConfig make of its local variables.  The other
\* calls keep theirs.
Stays(r) == \A q \in Reader : q # r => rd'[q] = rd[q]

\* A step of a reader moves that reader alone.
LEMMA OneCall ==
  ASSUME TypeOK, NEW r \in Reader, NEW from, NEW next, ReaderStep(r, from, next), next \in Call
  PROVE  rd' \in [Reader -> Call] /\ rd[r].pc = from /\ rd'[r] = next /\ Stays(r)
BY DEF ReaderStep, TypeOK, Stays

\* What a look at the modification time of a file does.
LEMMA StatEffect ==
  ASSUME TypeOK, NEW r \in Reader, NEW from, NEW p \in CallPC, NEW f \in File,
         Stat(r, f, from, p)
  PROVE  /\ rd' \in [Reader -> Call] /\ rd[r].pc = from /\ Stays(r) /\ KeepAllButReader
         /\ rd'[r].pc = p /\ rd'[r].mod = [rd[r].mod EXCEPT ![f] = disk[f]]
         /\ rd'[r].got = rd[r].got
<1> DEFINE next == [rd[r] EXCEPT !.pc = p, !.mod[f] = disk[f]]
<1>1. rd[r] \in Call /\ disk[f] \in Missing .. MaxGen
  BY DEF TypeOK, Bundle
<1>2. next \in Call
  BY <1>1, Zenon DEF Call, CallPC, Bundle
<1>3. next.pc = p /\ next.mod = [rd[r].mod EXCEPT ![f] = disk[f]] /\ next.got = rd[r].got
  BY <1>1 DEF Call
<1> HIDE DEF next
<1>4. ReaderStep(r, from, next)
  BY DEF next, Stat
<1> QED
  BY <1>2, <1>3, <1>4, OneCall DEF Stat

\* What reading a file does.
LEMMA LoadEffect ==
  ASSUME TypeOK, NEW r \in Reader, NEW from, NEW p \in CallPC, NEW f \in File,
         Load(r, f, from, p)
  PROVE  /\ rd' \in [Reader -> Call] /\ rd[r].pc = from /\ Stays(r) /\ KeepAllButReader
         /\ rd'[r].pc = p /\ rd'[r].got = [rd[r].got EXCEPT ![f] = disk[f]]
         /\ rd'[r].mod = rd[r].mod
<1> DEFINE next == [rd[r] EXCEPT !.pc = p, !.got[f] = disk[f]]
<1>1. rd[r] \in Call /\ disk[f] \in Missing .. MaxGen
  BY DEF TypeOK, Bundle
<1>2. next \in Call
  BY <1>1, Zenon DEF Call, CallPC, Bundle
<1>3. next.pc = p /\ next.got = [rd[r].got EXCEPT ![f] = disk[f]] /\ next.mod = rd[r].mod
  BY <1>1 DEF Call
<1> HIDE DEF next
<1>4. ReaderStep(r, from, next)
  BY DEF next, Load
<1> QED
  BY <1>2, <1>3, <1>4, OneCall DEF Load

\* What returning a bundle does.
LEMMA ReturnEffect ==
  ASSUME TypeOK, NEW r \in Reader, NEW from, NEW b \in Bundle, Return(r, from, b)
  PROVE  /\ rd' \in [Reader -> Call] /\ rd[r].pc = from /\ Stays(r)
         /\ rd'[r].pc = "done" /\ rd'[r].got = b /\ rd'[r].mod = rd[r].mod
<1> DEFINE next == [rd[r] EXCEPT !.pc = "done", !.got = b, !.old = NoBundle]
<1>1. rd[r] \in Call /\ NoBundle \in Bundle
  BY Generations DEF TypeOK
<1>2. next \in Call /\ next.pc = "done" /\ next.got = b /\ next.mod = rd[r].mod
  BY <1>1, Zenon DEF Call
<1> HIDE DEF next
<1>3. ReaderStep(r, from, next)
  BY DEF next, Return
<1> QED
  BY <1>2, <1>3, OneCall

\* What going on with a bundle at hand does.
LEMMA ProceedEffect ==
  ASSUME TypeOK, NEW r \in Reader, NEW from, NEW p \in CallPC, NEW b \in Bundle,
         Proceed(r, from, p, b)
  PROVE  /\ rd' \in [Reader -> Call] /\ rd[r].pc = from /\ Stays(r)
         /\ rd'[r].pc = p /\ rd'[r].got = rd[r].got /\ rd'[r].mod = rd[r].mod
<1> DEFINE next == [rd[r] EXCEPT !.pc = p, !.old = b]
<1>1. rd[r] \in Call
  BY DEF TypeOK
<1>2. next \in Call /\ next.pc = p /\ next.got = rd[r].got /\ next.mod = rd[r].mod
  BY <1>1, Zenon DEF Call, CallPC
<1> HIDE DEF next
<1>3. ReaderStep(r, from, next)
  BY DEF next, Proceed
<1> QED
  BY <1>2, <1>3, OneCall

\* A call of getConfig keeps its local variables and the cache in their types.
LEMMA ReaderType ==
  ASSUME TypeOK, NEW r \in Reader, getConfig(r)
  PROVE  TypeOK'
<1>1. /\ rd[r] \in Call /\ rd[r].mod \in Bundle /\ rd[r].got \in Bundle /\ rd[r].old \in Bundle
      /\ cache.got \in Bundle /\ NoBundle \in Bundle /\ IdleCall \in Call
  BY Generations DEF TypeOK, Call, IdleCall
<1>2. rd' \in [Reader -> Call]
  <2> USE DEF CallPC, File
  <2>1. CASE StatCert(r) \/ StatKey(r) \/ StatCA(r)
    BY <2>1, StatEffect, Zenon DEF StatCert, StatKey, StatCA
  <2>2. CASE Check(r)
    BY <1>1, <2>2, ReturnEffect, ProceedEffect, Zenon DEF Check
  <2>3. CASE LoadCert(r) \/ LoadCA(r)
    BY <2>3, LoadEffect, Zenon DEF LoadCert, LoadCA
  <2>4. CASE LoadKey(r)
    BY <1>1, <2>4, LoadEffect, ReturnEffect, Zenon DEF LoadKey
  <2>5. CASE Publish(r)
    BY <1>1, <2>5, ProceedEffect, Zenon DEF Publish
  <2>6. CASE GetConfigReturns(r)
    BY <1>1, <2>6, OneCall, SMTT(30), Z3T(30) DEF GetConfigReturns
  <2> QED
    BY <2>1, <2>2, <2>3, <2>4, <2>5, <2>6 DEF getConfig
<1>3. CASE Publish(r)
  BY <1>1, <1>2, <1>3, SMTT(30), Z3T(30) DEF Publish, TypeOK
<1>4. CASE GetConfigReturns(r)
  <2>1. mgr' \in Mgr
    BY <1>4 DEF GetConfigReturns, TypeOK, Mgr
  <2> QED
    BY <1>2, <1>4, <2>1, SMTT(30), Z3T(30) DEF GetConfigReturns, TypeOK
<1>5. CASE ~Publish(r) /\ ~GetConfigReturns(r)
  <2>1. KeepAllButReader
    BY <1>5 DEF getConfig, StatCert, StatKey, StatCA, Stat, Check, LoadCert, LoadKey, LoadCA, Load
  <2> QED
    BY <1>2, <2>1, SMTT(30), Z3T(30) DEF KeepAllButReader, TypeOK
<1> QED
  BY <1>3, <1>4, <1>5

\* A crash and a restart keep the types.
LEMMA ExitType ==
  ASSUME TypeOK, Crash \/ Restart
  PROVE  TypeOK'
<1> USE CertificatesAssumption
<1>1. IdleCall \in Call /\ NoCache \in [mod : Bundle, got : Bundle] /\ Starting \in Mgr
  BY Generations DEF IdleCall, Call, NoCache, Starting, Mgr, Missing
<1>2. crashes' \in 0 .. MaxCrashes
  BY DEF Crash, Restart, TypeOK
<1> QED
  BY <1>1, <1>2, ZenonT(40) DEF Crash, Restart, Exit, TypeOK

\* Every step keeps the types.
LEMMA StepType == TypeOK /\ [Next]_vars => TypeOK'
<1> SUFFICES ASSUME TypeOK, [Next]_vars PROVE TypeOK'
  OBVIOUS
<1>1. CASE Start
  <2>1. CASE loadExistingCertMeta
    <3>1. mgr' \in Mgr
      BY <1>1, <2>1, Zenon DEF Start, TypeOK, Mgr, Bundle, File
    <3> QED
      BY <1>1, <2>1, <3>1, SMTT(30), Z3T(30) DEF Start, Resume, TypeOK
  <2>2. CASE ~loadExistingCertMeta
    BY <1>1, <2>2, IssueType DEF Start
  <2> QED
    BY <2>1, <2>2
<1>2. CASE rotationLoop \/ recoveryLoop
  BY <1>2, IssueType DEF rotationLoop, recoveryLoop
<1>3. CASE WriteKey \/ WriteCert \/ WriteCA
  BY <1>3, WriteType
<1>4. CASE \E r \in Reader : getConfig(r)
  BY <1>4, ReaderType
<1>5. CASE Crash \/ Restart
  BY <1>5, ExitType
<1>6. ASSUME NEW g \in 0 .. MaxGen, GrowsOld(g) PROVE TypeOK'
  BY <1>6 DEF GrowsOld, TypeOK
<1>7. ASSUME NEW x \in Outages, Toggle(x) PROVE TypeOK'
  BY <1>7 DEF Toggle, TypeOK
<1>8. CASE UNCHANGED vars
  BY <1>8 DEF vars, TypeOK
<1> QED
  BY <1>1, <1>2, <1>3, <1>4, <1>5, <1>6, <1>7, <1>8, SMTT(30), Z3T(30) DEF Next, ManagerStep

-----------------------------------------------------------------------------
(* The invariant is inductive.                                             *)

\* Replacing a file by a newer one leaves the cache and the calls in order: what
\* they loaded is no newer, and what they saw of that file is out of date.
LEMMA FileReplaced ==
  ASSUME Inv, TypeOK', NEW f \in File, disk' = [disk EXCEPT ![f] = issued], disk[f] < issued,
         UNCHANGED <<cache, rd>>
  PROVE  CacheInv' /\ \A r \in Reader : ReaderInv(r)'
<1>1. \A g \in File : disk[g] \in Int /\ disk[g] <= disk'[g] /\ disk'[g] \in Int
  BY Generations, SMTT(30), Z3T(30) DEF Inv, TypeOK, Bundle
<1>2. disk[f] < disk'[f]
  BY DEF Inv, TypeOK, Bundle
<1>3. \A b \in Bundle, c \in Bundle, g \in File : Between(b, c, g) => Between(b, c, g)'
  BY <1>1, Generations DEF Between
<1>4. CacheInv'
  BY <1>3, SMTT(30), Z3T(30) DEF Inv, CacheInv, TypeOK
<1>5. ASSUME NEW r \in Reader PROVE ReaderInv(r)'
  <2>1. rd[r].mod \in Bundle /\ rd[r].got \in Bundle /\ ReaderInv(r)
    BY DEF Inv, TypeOK, Call
  <2>2. rd[r].mod # disk'
    <3>1. rd[r].mod[f] \in Int /\ rd[r].mod[f] <= disk[f]
      BY <2>1, Generations DEF ReaderInv
    <3>2. rd[r].mod[f] # disk'[f]
      BY <1>1, <1>2, <3>1, SMTT(30), Z3T(30)
    <3> QED
      BY <3>2, Zenon
  <2>3. \A g \in File : rd[r].mod[g] <= disk'[g]
    BY <1>1, <2>1, Generations, SMTT(30), Z3T(30) DEF ReaderInv
  <2>4. \A g \in File : rd[r].got[g] <= disk[g] => rd[r].got[g] <= disk'[g]
    BY <1>1, <2>1, Generations
  <2>5. "cert" \in File /\ "key" \in File /\ "ca" \in File /\ rd'[r] = rd[r]
    BY DEF File
  <2> QED
    BY <2>1, <2>2, <2>3, <2>4, <2>5, SMTT(30), Z3T(30) DEF ReaderInv, Between
<1> QED
  BY <1>4, <1>5

\* An issue keeps the invariant.
LEMMA IssueInv ==
  ASSUME Inv, TypeOK', NEW from \in {"start", "rotation", "recovery"}, Issue(from)
  PROVE  Inv'
<1>1. UNCHANGED <<disk, cache, rd>>
  BY SMTT(30), Z3T(30) DEF Issue
<1>2. CacheInv' /\ \A r \in Reader : ReaderInv(r)'
  BY <1>1 DEF Inv, CacheInv, ReaderInv, Between
<1>3. WriterInv'
  <2>1. CASE "vault" \in down
    BY <1>1, <2>1, IssueFailedType DEF Issue, Inv, WriterInv
  <2>2. CASE "vault" \notin down
    <3>1. issued \in Int /\ issued' = issued + 1 /\ \A f \in File : disk[f] \in Int
      BY <2>2, Generations DEF Issue, Inv, TypeOK
    <3>2. \A f \in File : disk[f] < issued'
      BY <3>1 DEF Inv, WriterInv
    <3>3. mgr'.gen = issued'
      BY <2>2, Zenon DEF Issue, Inv, TypeOK, Mgr
    <3> QED
      BY <1>1, <3>1, <3>2, <3>3 DEF WriterInv, File
  <2> QED
    BY <2>1, <2>2
<1> QED
  BY <1>2, <1>3 DEF Inv

\* A write of a file keeps the invariant.
LEMMA WriteInv ==
  ASSUME Inv, TypeOK', WriteKey \/ WriteCert \/ WriteCA
  PROVE  Inv'
<1> USE DEF WriteKey, WriteCert, WriteCA, WriteFile
<1>0. mgr.from \in {"start", "rotation", "recovery"} /\ mgr.gen = issued
  BY SMTT(30), Z3T(30) DEF Inv, TypeOK, Mgr, WriterInv
<1>1. CASE "disk" \in down
  <2>1. UNCHANGED <<disk, issued, cache, rd>> /\ IssueFailed(mgr.from)
    BY <1>1
  <2>2. mgr'.pc \notin {"key", "cert", "ca"}
    BY <1>0, <2>1, IssueFailedType DEF Inv
  <2> QED
    BY <2>1, <2>2 DEF Inv, WriterInv, CacheInv, ReaderInv, Between
<1>2. CASE "disk" \notin down
  <2>1. UNCHANGED <<issued, cache, rd>>
    BY <1>2
  <2>2. PICK f \in File : mgr.pc = f /\ disk' = [disk EXCEPT ![f] = issued]
    BY <1>0, <1>2 DEF File
  <2>3. disk[f] < issued
    BY <2>2 DEF Inv, WriterInv, File
  <2>4. CacheInv' /\ \A r \in Reader : ReaderInv(r)'
    BY <2>1, <2>2, <2>3, FileReplaced, Zenon
  <2>5. WriterInv'
    <3>1. issued \in Int /\ \A g \in File : disk'[g] = IF g = f THEN issued ELSE disk[g]
      BY <2>2 DEF Inv, TypeOK, Bundle
    <3>2. \A g \in File : disk'[g] <= issued
      BY <3>1 DEF Inv, WriterInv
    <3>3. CASE WriteKey
      <4>1. mgr'.pc = "cert" /\ mgr'.gen = mgr.gen /\ f = "key"
        BY <1>2, <2>2, <3>3 DEF Inv, TypeOK, Mgr
      <4> QED
        BY <1>0, <2>1, <2>2, <3>1, <3>2, <4>1, SMTT(30), Z3T(30) DEF Inv, WriterInv, File
    <3>4. CASE WriteCert
      <4>1. mgr'.pc = "ca" /\ mgr'.gen = mgr.gen /\ f = "cert"
        BY <1>2, <2>2, <3>4 DEF Inv, TypeOK, Mgr
      <4> QED
        BY <1>0, <2>1, <2>2, <3>1, <3>2, <4>1, SMTT(30), Z3T(30) DEF Inv, WriterInv, File
    <3>5. CASE WriteCA
      <4>1. mgr'.pc = "rotation"
        BY <1>2, <3>5, ZenonT(40) DEF Inv, TypeOK, Mgr
      <4> QED
        BY <2>1, <3>2, <4>1 DEF WriterInv
    <3> QED
      BY <3>3, <3>4, <3>5
  <2> QED
    BY <2>4, <2>5 DEF Inv
<1> QED
  BY <1>1, <1>2

\* A step of one call of getConfig preserves the invariant of the others.
LEMMA OtherCalls ==
  ASSUME Inv, NEW r \in Reader, Stays(r), disk' = disk
  PROVE  \A q \in Reader : q # r => ReaderInv(q)'
BY DEF Inv, ReaderInv, Between, Stays

\* A step of a reader keeps the invariant.
LEMMA ReaderStepInv ==
  ASSUME Inv, TypeOK', NEW r \in Reader, getConfig(r)
  PROVE  Inv'
<1> USE DEF CallPC, File
<1>1. TypeOK /\ ReaderInv(r) /\ CacheInv
  BY DEF Inv
<1>2. /\ rd[r].mod \in Bundle /\ rd[r].got \in Bundle /\ rd[r].old \in Bundle
      /\ cache.mod \in Bundle /\ cache.got \in Bundle /\ disk \in Bundle /\ NoBundle \in Bundle
  BY <1>1, Generations DEF TypeOK, Call
<1>3. \A b \in Bundle, f \in File : b[f] \in Int
  BY Generations
<1>5. \A b \in Bundle : (\A f \in File : Between(disk, b, f)) => b = disk
  BY <1>2, <1>3, Generations DEF Between
<1>6. disk' = disk /\ issued' = issued
  BY DEF getConfig, StatCert, StatKey, StatCA, Stat, Check, LoadCert, LoadKey, LoadCA, Load,
         Publish, GetConfigReturns, KeepAllButReader
<1>7. Stays(r) /\ ReaderInv(r)'
  <2>1. CASE StatCert(r)
    <3>1. Stays(r) /\ rd'[r].pc = "stat_key" /\ rd'[r].mod = [rd[r].mod EXCEPT !["cert"] = disk["cert"]]
      BY <1>1, <2>1, StatEffect, Zenon DEF StatCert
    <3> QED
      BY <1>1, <1>2, <1>3, <1>6, <3>1 DEF ReaderInv, Bundle
  <2>2. CASE StatKey(r)
    <3>1. Stays(r) /\ rd'[r].pc = "stat_ca" /\ rd'[r].mod = [rd[r].mod EXCEPT !["key"] = disk["key"]]
      BY <1>1, <2>2, StatEffect, Zenon DEF StatKey
    <3> QED
      BY <1>1, <1>2, <1>3, <1>6, <3>1 DEF ReaderInv, Bundle
  <2>3. CASE StatCA(r)
    <3>1. Stays(r) /\ rd'[r].pc = "check" /\ rd'[r].mod = [rd[r].mod EXCEPT !["ca"] = disk["ca"]]
      BY <1>1, <2>3, StatEffect, ZenonT(40) DEF StatCA
    <3> QED
      BY <1>1, <1>2, <1>3, <1>6, <3>1 DEF ReaderInv, Bundle
  <2>4. CASE Check(r)
    <3>1. CASE cache.mod = rd[r].mod /\ Return(r, "check", cache.got)
      <4>1. Stays(r) /\ rd'[r].pc = "done" /\ rd'[r].got = cache.got /\ rd'[r].mod = rd[r].mod
        BY <1>1, <1>2, <3>1, ReturnEffect, SMTT(30), Z3T(30)
      <4> QED
        BY <1>1, <1>2, <1>5, <1>6, <3>1, <4>1, SMTT(30), Z3T(30) DEF ReaderInv, CacheInv
    <3>2. CASE Proceed(r, "check", "load_cert", cache.got)
      <4>1. Stays(r) /\ rd'[r].pc = "load_cert" /\ rd'[r].mod = rd[r].mod
        BY <1>1, <1>2, <3>2, ProceedEffect, SMTT(30), Z3T(30)
      <4> QED
        BY <1>1, <1>6, <4>1, SMTT(30), Z3T(30) DEF ReaderInv
    <3> QED
      BY <2>4, <3>1, <3>2, SMTT(30), Z3T(30) DEF Check
  <2>5. CASE LoadCert(r)
    <3>1. /\ Stays(r) /\ rd'[r].pc = "load_key" /\ rd'[r].mod = rd[r].mod
          /\ rd'[r].got = [rd[r].got EXCEPT !["cert"] = disk["cert"]]
      BY <1>1, <2>5, LoadEffect, Zenon DEF LoadCert
    <3> QED
      BY <1>1, <1>2, <1>3, <1>6, <3>1 DEF ReaderInv, Bundle, Between
  <2>6. CASE LoadKey(r)
    <3>1. CASE disk["key"] = rd[r].got["cert"]
      <4>1. /\ Stays(r) /\ rd'[r].pc = "load_ca" /\ rd'[r].mod = rd[r].mod /\ rd[r].pc = "load_key"
            /\ rd'[r].got = [rd[r].got EXCEPT !["key"] = disk["key"]]
        BY <1>1, <2>6, <3>1, LoadEffect, ZenonT(40) DEF LoadKey
      <4> QED
        BY <1>1, <1>2, <1>3, <1>6, <4>1, SMTT(30), Z3T(30) DEF ReaderInv, Bundle, Between
    <3>2. CASE disk["key"] # rd[r].got["cert"]
      <4>1. /\ Stays(r) /\ rd'[r].pc = "done" /\ rd'[r].mod = rd[r].mod /\ rd[r].pc = "load_key"
        BY <1>1, <1>2, <2>6, <3>2, ReturnEffect, SMTT(30), Z3T(30) DEF LoadKey
      <4>2. rd[r].mod = disk => rd[r].got["cert"] = disk["cert"]
        BY <1>1, <1>2, <1>3, <4>1, SMTT(30), Z3T(30) DEF ReaderInv, Between
      <4> QED
        BY <1>1, <1>6, <3>2, <4>1, <4>2, SMTT(30), Z3T(30) DEF ReaderInv
    <3> QED
      BY <3>1, <3>2, SMTT(30), Z3T(30)
  <2>7. CASE LoadCA(r)
    <3>1. /\ Stays(r) /\ rd'[r].pc = "publish" /\ rd'[r].mod = rd[r].mod /\ rd[r].pc = "load_ca"
          /\ rd'[r].got = [rd[r].got EXCEPT !["ca"] = disk["ca"]]
      BY <1>1, <2>7, LoadEffect, Zenon DEF LoadCA
    <3> QED
      BY <1>1, <1>2, <1>3, <1>6, <3>1 DEF ReaderInv, Bundle, Between
  <2>8. CASE Publish(r)
    <3>1. /\ Stays(r) /\ rd'[r].pc = "done" /\ rd[r].pc = "publish"
          /\ rd'[r].mod = rd[r].mod /\ rd'[r].got = rd[r].got
      BY <1>1, <1>2, <2>8, ProceedEffect, ZenonT(40) DEF Publish
    <3> QED
      BY <1>1, <1>2, <1>5, <1>6, <3>1 DEF ReaderInv
  <2>9. CASE GetConfigReturns(r)
    <3>1. Stays(r) /\ rd'[r].pc = "idle" /\ rd'[r].mod = NoBundle
      <4>1. IdleCall \in Call /\ IdleCall.pc = "idle" /\ IdleCall.mod = NoBundle
        BY <1>2 DEF IdleCall, Call
      <4> QED
        BY <1>1, <2>9, <4>1, OneCall, SMTT(30), Z3T(30) DEF GetConfigReturns
    <3>2. \A f \in File : NoBundle[f] <= disk[f]
      BY <1>2, Generations DEF NoBundle
    <3> QED
      BY <1>6, <3>1, <3>2 DEF ReaderInv
  <2> QED
    BY <2>1, <2>2, <2>3, <2>4, <2>5, <2>6, <2>7, <2>8, <2>9, SMTT(30), Z3T(30) DEF getConfig
<1>8. CacheInv'
  <2>1. CASE Publish(r)
    <3>1. rd[r].pc = "publish"
      BY <2>1 DEF Publish, Proceed, ReaderStep
    <3>2. cache' = [mod |-> rd[r].mod, got |-> rd[r].got]
      BY <2>1 DEF Publish
    <3> QED
      BY <1>1, <1>6, <3>1, <3>2 DEF ReaderInv, CacheInv, Between
  <2>2. CASE ~Publish(r)
    <3>1. cache' = cache
      BY <2>2 DEF getConfig, StatCert, StatKey, StatCA, Stat, Check, LoadCert, LoadKey, LoadCA, Load,
                  GetConfigReturns, KeepAllButReader
    <3> QED
      BY <1>1, <1>6, <3>1 DEF CacheInv, Between
  <2> QED
    BY <2>1, <2>2, SMTT(30), Z3T(30)
<1>9. WriterInv'
  <2>1. mgr' = mgr \/ mgr'.pc = "fatal"
    BY <1>1 DEF getConfig, StatCert, StatKey, StatCA, Stat, Check, LoadCert, LoadKey, LoadCA, Load,
                Publish, GetConfigReturns, KeepAllButReader, TypeOK, Mgr
  <2> QED
    BY <1>6, <2>1, SMTT(30), Z3T(30) DEF Inv, WriterInv
<1> QED
  BY <1>6, <1>7, <1>8, <1>9, OtherCalls DEF Inv

\* A crash and a restart keep the invariant.
LEMMA ExitInv ==
  ASSUME Inv, TypeOK', Crash \/ Restart
  PROVE  Inv'
<1>1. /\ UNCHANGED <<disk, issued>> /\ cache' = NoCache /\ mgr' = Starting
      /\ rd' = [r \in Reader |-> IdleCall]
  BY DEF Crash, Restart, Exit
<1>2. \A f \in File : NoBundle[f] <= NoBundle[f] /\ NoBundle[f] <= disk[f]
  BY Generations DEF Inv, TypeOK, NoBundle
<1>3. CacheInv'
  BY <1>1, <1>2 DEF CacheInv, Between, NoCache
<1>4. \A r \in Reader : ReaderInv(r)'
  BY <1>1, <1>2, SMTT(30), Z3T(30) DEF ReaderInv, IdleCall
<1>5. WriterInv'
  BY <1>1 DEF Inv, WriterInv, Starting
<1> QED
  BY <1>3, <1>4, <1>5 DEF Inv

\* Every step preserves the invariant.
LEMMA StepInv == Inv /\ [Next]_vars => Inv'
<1> SUFFICES ASSUME Inv, [Next]_vars PROVE Inv'
  OBVIOUS
<1>0. TypeOK'
  BY StepType DEF Inv
<1>1. CASE Start
  <2>1. CASE loadExistingCertMeta
    <3>1. UNCHANGED <<disk, issued, cache, rd>> /\ mgr'.pc = "rotation"
      BY <1>1, <2>1, Zenon DEF Start, Inv, TypeOK, Mgr
    <3> QED
      BY <1>0, <3>1 DEF Inv, WriterInv, CacheInv, ReaderInv, Between
  <2>2. CASE ~loadExistingCertMeta
    BY <1>0, <1>1, <2>2, IssueInv DEF Start
  <2> QED
    BY <2>1, <2>2, SMTT(30), Z3T(30)
<1>2. CASE rotationLoop \/ recoveryLoop
  BY <1>0, <1>2, IssueInv DEF rotationLoop, recoveryLoop
<1>3. CASE WriteKey \/ WriteCert \/ WriteCA
  BY <1>0, <1>3, WriteInv
<1>4. CASE \E r \in Reader : getConfig(r)
  BY <1>0, <1>4, ReaderStepInv
<1>5. CASE Crash \/ Restart
  BY <1>0, <1>5, ExitInv, SMTT(30), Z3T(30)
<1>6. CASE (\E g \in 0 .. MaxGen : GrowsOld(g)) \/ (\E x \in Outages : Toggle(x)) \/ UNCHANGED vars
  <2>1. UNCHANGED <<disk, issued, mgr, cache, rd>>
    BY <1>6 DEF GrowsOld, Toggle, vars
  <2> QED
    BY <1>0, <2>1, SMTT(30), Z3T(30) DEF Inv, WriterInv, CacheInv, ReaderInv, Between
<1> QED
  BY <1>1, <1>2, <1>3, <1>4, <1>5, <1>6 DEF Next, ManagerStep

-----------------------------------------------------------------------------
(* Theorems.                                                               *)

\* The invariant holds in every reachable state, whatever the number of
\* handshakes of the gRPC server, issued bundles and crashes.
THEOREM Invariance == Spec => []Inv
BY InitInv, StepInv, PTL DEF Spec

\* The files, the manager, the cache and the calls of getConfig always have
\* their types: in particular the manager counts only bundles that were issued.
THEOREM TypeCorrect == Spec => []TypeOK
<1>1. Inv => TypeOK
  BY DEF Inv
<1> QED
  BY <1>1, Invariance, PTL

\* dynamicTLSProvider never keeps an old configuration beside the modification
\* times of the current files, however its calls interleave with the renames of
\* writeCertBundleAtomic: a rotated certificate is always noticed.
THEOREM CacheAlwaysFresh == Spec => []CacheFresh
<1>1. Inv => CacheFresh
  <2> SUFFICES ASSUME Inv, cache.mod = disk PROVE cache.got = disk
    BY DEF CacheFresh
  <2>1. cache.got \in Bundle /\ disk \in Bundle
    BY SMTT(30), Z3T(30) DEF Inv, TypeOK
  <2>2. \A f \in File : cache.got[f] = disk[f]
    BY <2>1, Generations, SMTT(30), Z3T(30) DEF Inv, CacheInv, Between
  <2> QED
    BY <2>1, <2>2, Generations
<1> QED
  BY <1>1, Invariance, PTL

\* A handshake whose Stat calls saw the files as they still are is served from
\* these files, unless the key on disk is not the certificate's.
THEOREM AlwaysServesCurrent == Spec => []ServesCurrent
<1>1. Inv => ServesCurrent
  BY DEF Inv, ReaderInv, ServesCurrent
<1> QED
  BY <1>1, Invariance, PTL

-----------------------------------------------------------------------------
(* The VM runtime.                                                         *)

\* A marker never lies beside an image of the user.
MarkersOfAgent == \A d \in marker : file[d] # "user"

\* While a marker is being written its image is the agent's; a marker is removed
\* for the disk at hand.
AtHand ==
  /\ vmcall.pc = "mark" => vmcall.todo # <<>> /\ file[Head(vmcall.todo)] = "agent"
  /\ vmcall.pc = "unmark" => vmcall.todo # <<>>

\* After a Stop that succeeded the domain has no process, or one that ends.
Down == stopOk => dom.state \in Inactive

\* The inductive invariant.
VMInv == VMTypeOK /\ MarkersOfAgent /\ AtHand /\ Down

\* The values of a defined guest and of a call.
DomainType == [state : DomainState, rev : VMRev, defined : BOOLEAN]

CallType == [pc : VMPC, rev : VMRev, todo : Seq(Disk)]

\* The values that calls return to, and what a guest leaves, are well typed.
LEMMA VMConstants ==
  /\ NoDomain \in DomainType /\ NoDomain.state = "absent"
  /\ VMIdle \in CallType /\ VMIdle.pc = "idle"
<1>1. (CHOOSE r \in VMRev : TRUE) \in VMRev
  BY VMAssumption
<1> QED BY <1>1 DEF NoDomain, VMIdle, DomainState, Inactive, VMPC, DomainType, CallType

\* A domain whose process has ended is typed and has none.
LEMMA EndedType ==
  ASSUME VMTypeOK
  PROVE  Ended \in DomainType /\ Ended.state \in Inactive
BY VMConstants DEF VMTypeOK, Ended, DomainType, DomainState, Inactive

\* Goto changes where the call stands and nothing else of it.
LEMMA GotoType ==
  ASSUME VMTypeOK, NEW label \in VMPC, Goto(label)
  PROVE  /\ vmcall' \in CallType /\ vmcut' \in BOOLEAN
         /\ vmcall'.pc = label /\ vmcall'.todo = vmcall.todo /\ vmcall'.rev = vmcall.rev
BY SMTT(30), Z3T(30) DEF VMTypeOK, Goto, CallType

\* After Return no call is under way.
LEMMA ReturnType ==
  ASSUME VMTypeOK, NEW ended \in BOOLEAN, VMReturn(ended)
  PROVE  vmcall' \in CallType /\ vmcall'.pc = "idle" /\ vmcut' \in BOOLEAN
BY VMConstants DEF VMTypeOK, VMReturn

\* A walk that goes on with the next disk.
LEMMA WalkType ==
  ASSUME VMTypeOK, vmcall.todo # <<>>, NEW label \in VMPC,
         vmcall' = [vmcall EXCEPT !.pc = label, !.todo = Tail(vmcall.todo)]
  PROVE  /\ vmcall' \in CallType
         /\ vmcall'.pc = label /\ vmcall'.todo = Tail(vmcall.todo) /\ vmcall'.rev = vmcall.rev
<1>1. Tail(vmcall.todo) \in Seq(Disk)
  BY DEF VMTypeOK
<1> QED BY <1>1, Zenon DEF VMTypeOK, CallType

\* The first state satisfies the inductive invariant.
LEMMA VMStart0 == VMInit => VMInv
<1> SUFFICES ASSUME VMInit PROVE VMInv
  OBVIOUS
<1>1. VMTypeOK
  BY VMConstants, Zenon DEF VMInit, VMTypeOK, DomainType, CallType
<1> QED BY <1>1, VMConstants DEF VMInit, VMInv, MarkersOfAgent, AtHand, Down

\* A step of a call that touches no image and no marker keeps the invariant when
\* it keeps the types, starts no domain and has no disk at hand.
LEMMA QuietStep ==
  ASSUME VMInv, UNCHANGED <<file, marker>>, dom' \in DomainType, iso' \in SUBSET {"images", "tmp"},
         vmcall' \in CallType, vmcall'.pc \notin {"mark", "unmark"}, vmcut' \in BOOLEAN,
         stopOk' \in BOOLEAN, stopOk' => dom'.state \in Inactive
  PROVE  VMInv'
BY DEF VMInv, VMTypeOK, MarkersOfAgent, AtHand, Down, DomainType, CallType

\* Create.
LEMMA CreateSteps ==
  ASSUME VMInv, (\E r \in VMRev : VMCreate(r)) \/ CreateSeed \/ CreateMark \/ CreateDefine
  PROVE  VMInv'
<1> USE DEF VMPC
<1>1. ASSUME NEW r \in VMRev, VMCreate(r) PROVE VMInv'
  <2>1. vmcall' \in CallType /\ vmcall'.pc \notin {"mark", "unmark"}
    BY <1>1, VMAssumption, SMTT(30), Z3T(30) DEF VMCreate, VMInv, VMTypeOK, CallType, createCloudInitISO
  <2> QED BY <1>1, <2>1, QuietStep, Zenon DEF VMCreate, VMInv, VMTypeOK, DomainType
<1>2. CASE CreateSeed
  <2>1. vmcall' \in CallType /\ vmcall'.pc \notin {"mark", "unmark"} /\ vmcut' \in BOOLEAN
    BY <1>2, GotoType, ReturnType, Zenon DEF CreateSeed, VMInv
  <2>2. iso' \in SUBSET {"images", "tmp"}
    <3>1. iso \in SUBSET {"images", "tmp"}
      BY DEF VMInv, VMTypeOK
    <3>2. {"images"} \cup (IF VMFault("iso") THEN {"tmp"} ELSE {}) \subseteq {"images", "tmp"}
      OBVIOUS
    <3> QED BY <1>2, <3>1, <3>2, Zenon DEF CreateSeed
  <2> QED BY <1>2, <2>1, <2>2, QuietStep DEF CreateSeed, VMInv, VMTypeOK, DomainType, Down
<1>3. CASE CreateMark
  <2>1. vmcall.todo # <<>> /\ file[Head(vmcall.todo)] = "agent" /\ Head(vmcall.todo) \in Disk
    BY <1>3 DEF CreateMark, VMInv, AtHand, VMTypeOK
  <2>2. vmcall' \in CallType /\ vmcall'.pc = "disk"
    BY <1>3, <2>1, WalkType DEF CreateMark, NextDisk, VMInv
  <2>3. MarkersOfAgent'
    BY <1>3, <2>1, SMTT(30), Z3T(30) DEF CreateMark, VMInv, MarkersOfAgent
  <2> QED BY <1>3, <2>1, <2>2, <2>3, Zenon DEF CreateMark, VMInv, VMTypeOK, AtHand, Down, CallType
<1>4. CASE CreateDefine
  <2>1. vmcall' \in CallType /\ vmcall'.pc = "idle" /\ vmcut' \in BOOLEAN
    BY <1>4, ReturnType, Zenon DEF CreateDefine, VMInv
  <2>2. dom' \in DomainType /\ (dom.state \in Inactive => dom'.state \in Inactive)
    <3>1. CASE UNCHANGED dom
      BY <3>1 DEF VMInv, VMTypeOK, DomainType
    <3>2. CASE dom' = [state |-> IF dom.state = "absent" THEN "shutoff" ELSE dom.state,
                       rev |-> vmcall.rev, defined |-> TRUE]
      BY <3>2 DEF VMInv, VMTypeOK, DomainType, DomainState, Inactive
    <3> QED BY <1>4, <3>1, <3>2, Zenon DEF CreateDefine, generateDomainXML
  <2> QED BY <1>4, <2>1, <2>2, QuietStep DEF CreateDefine, VMInv, VMTypeOK, Down
<1> QED BY <1>1, <1>2, <1>3, <1>4

\* The disks: an image that exists is left alone, and only one with a marker goes.
LEMMA DiskSteps ==
  ASSUME VMInv, NEW d \in Disk, createDisk(d) \/ cleanupDiskArtifacts(d)
  PROVE  VMInv' /\ \A e \in Disk : file[e] = "user" => file'[e] = "user"
<1> USE DEF VMPC
<1>1. CASE createDisk(d)
  <2>1. vmcall.todo # <<>> /\ d = Head(vmcall.todo)
    BY <1>1 DEF createDisk
  <2>2. /\ vmcall' \in CallType /\ vmcut' \in BOOLEAN
        /\ vmcall'.pc = "mark" => vmcall'.todo = vmcall.todo /\ file'[d] = "agent"
        /\ vmcall'.pc # "unmark"
    BY <1>1, <2>1, WalkType, GotoType, ReturnType, Zenon
    DEF createDisk, NextDisk, VMInv, VMTypeOK
  <2>3. /\ file' \in [Disk -> {"agent", "user", "none"}]
        /\ \A e \in Disk : file'[e] = file[e] \/ (file[e] = "none" /\ file'[e] = "agent")
    <3>1. file[d] = "none" \/ file' = file
      BY <1>1, Zenon DEF createDisk
    <3>2. file' = file \/ \E left \in {"none", "agent"} : file' = [file EXCEPT ![d] = left]
      BY <1>1, Zenon DEF createDisk
    <3> QED BY <3>1, <3>2 DEF VMInv, VMTypeOK
  <2> QED BY <1>1, <2>1, <2>2, <2>3, SMTT(30), Z3T(30)
          DEF createDisk, VMInv, VMTypeOK, MarkersOfAgent, AtHand, Down, CallType
<1>2. CASE cleanupDiskArtifacts(d)
  <2>1. vmcall.todo # <<>>
    BY <1>2 DEF cleanupDiskArtifacts
  <2>2. /\ vmcall' \in CallType /\ vmcut' \in BOOLEAN
        /\ vmcall'.pc \in {"clean", "unmark"}
        /\ vmcall'.pc = "unmark" => vmcall'.todo = vmcall.todo
    BY <1>2, <2>1, WalkType, GotoType, Zenon DEF cleanupDiskArtifacts, SkipDisk, VMInv, VMTypeOK
  <2>3. /\ file' \in [Disk -> {"agent", "user", "none"}]
        /\ \A e \in Disk : file'[e] = file[e] \/ (file[e] # "user" /\ file'[e] = "none")
    BY <1>2 DEF cleanupDiskArtifacts, VMInv, VMTypeOK, MarkersOfAgent
  <2> QED BY <1>2, <2>1, <2>2, <2>3, SMTT(30), Z3T(30)
          DEF cleanupDiskArtifacts, VMInv, VMTypeOK, MarkersOfAgent, AtHand, Down, CallType
<1> QED BY <1>1, <1>2, SMTT(30), Z3T(30)

\* Start and Stop.  Stop reports success only on what it found or left down.
LEMMA StartStopSteps ==
  ASSUME VMInv,
         \/ VMStart \/ VMStop \/ StopShutdown \/ StopPoll \/ StopPollFails \/ StopExpires \/ StopForce
  PROVE  VMInv'
<1> USE DEF VMPC
<1>1. CASE VMStart
  <2>1. dom' \in DomainType
    BY <1>1 DEF VMStart, VMInv, VMTypeOK, DomainType, DomainState
  <2> QED BY <1>1, <2>1, QuietStep, Zenon DEF VMStart, VMInv, VMTypeOK, CallType, AtHand
<1>2. CASE VMStop
  <2>1. vmcall' \in CallType /\ vmcall'.pc \in {"idle", "shutdown"}
    BY <1>2, VMConstants, SMTT(30), Z3T(30) DEF VMStop, VMInv, VMTypeOK, CallType
  <2>2. stopOk' \in BOOLEAN /\ (stopOk' => dom.state \in Inactive)
    <3>1. CASE stopOk' = TRUE /\ dom.state \in Inactive
      BY <3>1
    <3>2. CASE stopOk' = stopOk
      BY <3>2, SMTT(30), Z3T(30) DEF VMInv, VMTypeOK, Down
    <3> QED BY <1>2, <3>1, <3>2, Zenon DEF VMStop
  <2> QED BY <1>2, <2>1, <2>2, QuietStep DEF VMStop, VMInv, VMTypeOK, DomainType
<1>3. CASE StopShutdown
  <2>1. vmcall' \in CallType /\ vmcall'.pc \in {"grace", "force"} /\ vmcut' \in BOOLEAN
    BY <1>3, GotoType DEF StopShutdown, VMInv
  <2> QED BY <1>3, <2>1, QuietStep, SMTT(30), Z3T(30) DEF StopShutdown, VMInv, VMTypeOK, DomainType, Down
<1>4. CASE StopPoll \/ StopPollFails
  <2>1. vmcall' \in CallType /\ vmcall'.pc = "idle" /\ vmcut' \in BOOLEAN
    BY <1>4, ReturnType, Zenon DEF StopPoll, StopPollFails, VMInv
  <2>2. stopOk' \in BOOLEAN /\ (stopOk' => dom.state \in Inactive)
    <3>1. CASE stopOk' = TRUE /\ dom.state \in Inactive
      BY <3>1
    <3>2. CASE stopOk' = stopOk
      BY <3>2, SMTT(30) DEF VMInv, VMTypeOK, Down
    <3> QED BY <1>4, <3>1, <3>2, Zenon DEF StopPoll, StopPollFails
  <2> QED BY <1>4, <2>1, <2>2, QuietStep, Zenon DEF StopPoll, StopPollFails, VMInv, VMTypeOK, DomainType
<1>5. CASE StopExpires
  <2>1. vmcall' \in CallType /\ vmcall'.pc = "force" /\ vmcut' \in BOOLEAN
    BY <1>5, GotoType, SMTT(30), Z3T(30) DEF StopExpires, VMInv
  <2> QED BY <1>5, <2>1, QuietStep, SMTT(30), Z3T(30) DEF StopExpires, VMInv, VMTypeOK, DomainType, Down
<1>6. CASE StopForce
  <2>1. vmcall' \in CallType /\ vmcall'.pc = "idle" /\ vmcut' \in BOOLEAN
    BY <1>6, ReturnType, Zenon DEF StopForce, VMInv
  <2>2. /\ dom' \in DomainType /\ stopOk' \in BOOLEAN
        /\ stopOk' => dom'.state \in Inactive
    <3>1. CASE dom' = Ended /\ stopOk' = TRUE
      BY <3>1, EndedType DEF VMInv
    <3>2. CASE UNCHANGED <<dom, stopOk>>
      BY <3>2 DEF VMInv, VMTypeOK, DomainType, Down
    <3> QED BY <1>6, <3>1, <3>2, Zenon DEF StopForce
  <2> QED BY <1>6, <2>1, <2>2, QuietStep DEF StopForce, VMInv, VMTypeOK
<1> QED BY <1>1, <1>2, <1>3, <1>4, <1>5, <1>6

\* Delete, up to the disks.
LEMMA DeleteSteps ==
  ASSUME VMInv, VMDelete \/ DeleteXML \/ DeleteState \/ DeleteDestroy \/ DeleteUndefine
  PROVE  VMInv'
<1> USE DEF VMPC
<1>1. CASE VMDelete
  <2>1. vmcall' \in CallType /\ vmcall'.pc \in {"idle", "clean", "xml"} /\ vmcut' \in BOOLEAN
    BY <1>1, VMConstants, ReturnType, ZenonT(40) DEF VMDelete, VMInv, VMTypeOK, CallType
  <2> QED BY <1>1, <2>1, QuietStep, Zenon DEF VMDelete, VMInv, VMTypeOK, DomainType
<1>2. CASE DeleteXML
  <2>1. DisksOf[dom.rev] \in Seq(Disk)
    BY VMAssumption DEF VMInv, VMTypeOK
  <2>2. vmcall' \in CallType /\ vmcall'.pc = "state" /\ vmcut' \in BOOLEAN
    BY <1>2, <2>1, Zenon DEF DeleteXML, VMInv, VMTypeOK, CallType
  <2> QED BY <1>2, <2>2, QuietStep DEF DeleteXML, VMInv, VMTypeOK, DomainType, Down
<1>3. CASE DeleteState
  <2>1. vmcall' \in CallType /\ vmcall'.pc \in {"undefine", "destroy"} /\ vmcut' \in BOOLEAN
    BY <1>3, GotoType, SMTT(30), Z3T(30) DEF DeleteState, VMInv
  <2> QED BY <1>3, <2>1, QuietStep, SMTT(30), Z3T(30) DEF DeleteState, VMInv, VMTypeOK, DomainType, Down
<1>4. CASE DeleteDestroy
  <2>1. vmcall' \in CallType /\ vmcall'.pc \in {"idle", "undefine"} /\ vmcut' \in BOOLEAN
    BY <1>4, GotoType, ReturnType, Zenon DEF DeleteDestroy, VMInv
  <2>2. dom' \in DomainType /\ (stopOk => dom'.state \in Inactive)
    BY <1>4, EndedType, Zenon DEF DeleteDestroy, VMInv, VMTypeOK, DomainType, Down
  <2> QED BY <1>4, <2>1, <2>2, QuietStep DEF DeleteDestroy, VMInv, VMTypeOK
<1>5. CASE DeleteUndefine
  <2>1. vmcall' \in CallType /\ vmcall'.pc \in {"idle", "clean"} /\ vmcut' \in BOOLEAN
    BY <1>5, GotoType, ReturnType, Zenon DEF DeleteUndefine, VMInv
  <2>2. [dom EXCEPT !.defined = FALSE] \in DomainType /\ [dom EXCEPT !.defined = FALSE].state = dom.state
    BY Zenon DEF VMInv, VMTypeOK, DomainType
  <2>3. dom' \in DomainType /\ (stopOk => dom'.state \in Inactive)
    <3>1. CASE dom' = NoDomain
      BY <3>1, VMConstants DEF Inactive
    <3>2. CASE dom' = [dom EXCEPT !.defined = FALSE] \/ UNCHANGED dom
      BY <3>2, <2>2, Zenon DEF VMInv, VMTypeOK, DomainType, Down
    <3> QED BY <1>5, <3>1, <3>2, Zenon DEF DeleteUndefine
  <2> QED BY <1>5, <2>1, <2>3, QuietStep DEF DeleteUndefine, VMInv, VMTypeOK
<1> QED BY <1>1, <1>2, <1>3, <1>4, <1>5

\* The last files, and the world outside the call.
LEMMA OtherSteps ==
  ASSUME VMInv,
         \/ CleanupMarker \/ cleanupDeterministicVMArtifacts \/ GuestMoves \/ VMCrash
         \/ \E d \in Disk : UserImage(d)
  PROVE  VMInv'
<1> USE DEF VMPC
<1>1. CASE CleanupMarker
  <2>1. vmcall.todo # <<>>
    BY <1>1 DEF CleanupMarker, VMInv, AtHand
  <2>2. vmcall' \in CallType /\ vmcall'.pc = "clean"
    BY <1>1, <2>1, WalkType DEF CleanupMarker, SkipDisk, VMInv
  <2> QED BY <1>1, <2>2, Zenon DEF CleanupMarker, VMInv, VMTypeOK, MarkersOfAgent, AtHand, Down, CallType
<1>2. CASE cleanupDeterministicVMArtifacts
  <2>1. vmcall' \in CallType /\ vmcall'.pc = "idle" /\ vmcut' \in BOOLEAN
    BY <1>2, ReturnType, Zenon DEF cleanupDeterministicVMArtifacts, VMInv
  <2> QED BY <1>2, <2>1, QuietStep, Zenon DEF cleanupDeterministicVMArtifacts, VMInv, VMTypeOK, DomainType, Down
<1>3. CASE GuestMoves
  <2>1. dom' \in DomainType /\ (dom.state \in Inactive => dom'.state \in Inactive)
    BY <1>3, EndedType DEF GuestMoves, Active, VMInv, VMTypeOK, DomainType
  <2>2. Down'
    BY <1>3, <2>1, Zenon DEF GuestMoves, VMInv, Down
  <2> QED BY <1>3, <2>1 DEF GuestMoves, VMInv, VMTypeOK, MarkersOfAgent, AtHand, Down, DomainType
<1>4. CASE VMCrash
  <2>1. vmcall' \in CallType /\ vmcall'.pc = "idle" /\ vmcut' \in BOOLEAN
    BY <1>4, VMConstants, SMTT(30), Z3T(30) DEF VMCrash, VMReturn, VMInv, VMTypeOK
  <2> QED BY <1>4, <2>1, QuietStep DEF VMCrash, VMInv, VMTypeOK, DomainType, Down
<1>5. ASSUME NEW d \in Disk, UserImage(d) PROVE VMInv'
  BY <1>5, SMTT(30), Z3T(30) DEF UserImage, VMInv, VMTypeOK, MarkersOfAgent, AtHand, Down
<1> QED BY <1>1, <1>2, <1>3, <1>4, <1>5

\* The invariant is kept by every step, and so are the user's images.
LEMMA VMInvStep ==
  ASSUME VMInv, [VMNext]_vmvars
  PROVE  VMInv' /\ \A e \in Disk : file[e] = "user" => file'[e] = "user"
<1> USE DEF VMNext, VMStep
<1>1. CASE \E d \in Disk : createDisk(d) \/ cleanupDiskArtifacts(d)
  BY <1>1, DiskSteps, SMTT(30), Z3T(30)
<1>2. CASE \E d \in Disk : UserImage(d)
  <2>1. \A e \in Disk : file[e] = "user" => file'[e] = "user"
    BY <1>2 DEF UserImage, VMInv, VMTypeOK
  <2> QED BY <1>2, <2>1, OtherSteps, SMTT(30), Z3T(30)
<1>3. CASE (\E r \in VMRev : VMCreate(r)) \/ CreateSeed \/ CreateMark \/ CreateDefine
  BY <1>3, CreateSteps, Zenon DEF VMCreate, CreateSeed, CreateMark, CreateDefine
<1>4. CASE \/ VMStart \/ VMStop \/ StopShutdown \/ StopPoll \/ StopPollFails \/ StopExpires
           \/ StopForce
  BY <1>4, StartStopSteps, Zenon
  DEF VMStart, VMStop, StopShutdown, StopPoll, StopPollFails, StopExpires, StopForce
<1>5. CASE VMDelete \/ DeleteXML \/ DeleteState \/ DeleteDestroy \/ DeleteUndefine
  BY <1>5, DeleteSteps, Zenon DEF VMDelete, DeleteXML, DeleteState, DeleteDestroy, DeleteUndefine
<1>6. CASE CleanupMarker \/ cleanupDeterministicVMArtifacts \/ GuestMoves \/ VMCrash
  BY <1>6, OtherSteps, Zenon DEF CleanupMarker, cleanupDeterministicVMArtifacts, GuestMoves, VMCrash
<1>7. CASE UNCHANGED vmvars
  BY <1>7 DEF vmvars, VMInv, VMTypeOK, MarkersOfAgent, AtHand, Down
<1> QED BY <1>1, <1>2, <1>3, <1>4, <1>5, <1>6, <1>7, SMTT(30), Z3T(30)

\* createDisk and cleanupDiskArtifacts spare the user's images, whatever fails and
\* wherever the agent crashes.
THEOREM UserDisksSafe == VMSpec => UserDisksKept
<1>1. VMInv /\ [VMNext]_vmvars => VMInv'
  BY VMInvStep
<1>2. VMInv /\ [VMNext]_vmvars => [\A d \in Disk : file[d] = "user" => file'[d] = "user"]_vmvars
  BY VMInvStep
<1> QED BY VMStart0, <1>1, <1>2, PTL DEF VMSpec, UserDisksKept

\* A VM whose Stop succeeded stays down until something else is asked for.
THEOREM StoppedStaysStopped == VMSpec => []StaysStopped
<1>1. VMInv /\ [VMNext]_vmvars => VMInv'
  BY VMInvStep
<1>2. VMInv => StaysStopped
  BY DEF VMInv, VMTypeOK, Down, StaysStopped, DomainStatus, Inactive, DomainState
<1> QED BY VMStart0, <1>1, <1>2, PTL DEF VMSpec
-----------------------------------------------------------------------------
(* Nothing is left behind.                                                 *)

\* The elements of a sequence.
Elements(s) == {s[i] : i \in DOMAIN s}

\* What the agent has at a path.
Kept(d) == file[d] = "agent" \/ d \in marker

\* Unless a call was cut short the marker tells the agent's images, but for the
\* one that is being marked and the one whose marker is being removed; a network
\* source has none.
Marked ==
  /\ \A d \in Disk : file[d] = "agent" =>
       d \in marker \/ (vmcall.pc = "mark" /\ d = Head(vmcall.todo))
  /\ \A d \in Disk : Kept(d) => d \notin Network
  /\ vmcall.pc = "unmark" => file[Head(vmcall.todo)] # "agent"

\* And all that the agent has made is named by the revision that is being created,
\* by the domain, or by what is left of the list that Delete has read from it.
Named ==
  /\ vmcall.pc \in {"seed", "disk", "mark"} =>
       /\ Elements(vmcall.todo) \subseteq Elements(DisksOf[vmcall.rev])
       /\ \A d \in Disk : Kept(d) => d \in Elements(DisksOf[vmcall.rev])
       /\ vmcall.pc = "seed" \/ iso # {} => SeedOf[vmcall.rev] = "valid"
  /\ vmcall.pc \in {"idle", "shutdown", "grace", "force", "xml"} =>
       /\ \A d \in Disk : Kept(d) => dom.defined /\ d \in Elements(DisksOf[dom.rev])
       /\ iso # {} => dom.defined /\ SeedOf[dom.rev] = "valid"
  /\ vmcall.pc \in {"state", "destroy", "undefine", "clean", "unmark"} =>
       \A d \in Disk : Kept(d) => d \in Elements(vmcall.todo)

\* The invariant: a domain that is defined is there, a domain that Delete has
\* stopped has no guest, and nothing is lost unless a call was cut short.
LeftInv ==
  /\ dom.defined => dom.state # "absent"
  /\ ~vmcut => Marked /\ Named

\* Delete removes images only once the guest has stopped.
GuestInv == vmcall.pc \in {"undefine", "clean", "unmark"} => ~Active

\* Where a call neither creates nor removes an image, and where a delete stands.
Rest == {"idle", "shutdown", "grace", "force", "xml"}

Removing == {"state", "destroy", "undefine", "clean", "unmark"}

\* The domain stays defined as it was, or undefined.
SameDomain ==
  /\ dom'.defined <=> dom.defined
  /\ dom.defined => dom'.rev = dom.rev /\ dom'.state # "absent"

\* A list is its head and the elements of its tail.
LEMMA TailElements ==
  ASSUME NEW S, NEW s \in Seq(S), s # <<>>
  PROVE  /\ Head(s) \in Elements(s) /\ Elements(Tail(s)) \subseteq Elements(s)
         /\ \A e \in Elements(s) : e = Head(s) \/ e \in Elements(Tail(s))
<1>1. Len(s) \in Nat /\ Len(s) > 0 /\ Head(s) = s[1] /\ DOMAIN s = 1 .. Len(s)
  OBVIOUS
<1>2. /\ DOMAIN Tail(s) = 1 .. Len(s) - 1
      /\ \A i \in 1 .. Len(s) - 1 : Tail(s)[i] = s[i + 1]
  BY <1>1
<1>3. Head(s) \in Elements(s)
  BY <1>1 DEF Elements
<1>4. ASSUME NEW e \in Elements(Tail(s)) PROVE e \in Elements(s)
  <2>1. PICK i \in 1 .. Len(s) - 1 : e = s[i + 1]
    BY <1>2 DEF Elements
  <2>2. i + 1 \in DOMAIN s
    BY <1>1
  <2> QED BY <2>1, <2>2 DEF Elements
<1>5. ASSUME NEW e \in Elements(s), e # Head(s) PROVE e \in Elements(Tail(s))
  <2>1. PICK i \in 1 .. Len(s) : e = s[i]
    BY <1>1 DEF Elements
  <2>2. i # 1 /\ i - 1 \in 1 .. Len(s) - 1 /\ (i - 1) + 1 = i
    BY <1>1, <1>5, <2>1
  <2>3. Tail(s)[i - 1] = e
    BY <1>2, <2>1, <2>2, SMTT(30), Z3T(30)
  <2> QED BY <1>2, <2>2, <2>3, ZenonT(40) DEF Elements
<1> QED BY <1>3, <1>4, <1>5

\* The first state has nothing that could be left.
LEMMA LeftInit == VMInit => LeftInv /\ GuestInv
BY DEF VMInit, LeftInv, GuestInv, Marked, Named, Kept, NoDomain, VMIdle, Active, Inactive

\* A domain whose process has ended is as defined as before.
LEMMA EndedSame ==
  ASSUME VMTypeOK, dom' = Ended
  PROVE  SameDomain
BY Zenon DEF VMTypeOK, Ended, SameDomain, NoDomain

\* After a call that was cut short there is nothing to show.
LEMMA CutStep ==
  ASSUME LeftInv, vmcut' = TRUE, SameDomain
  PROVE  LeftInv'
BY SMTT(30), Z3T(30) DEF LeftInv, SameDomain

\* A step that only moves the domain, or the call between two places where the
\* domain names all there is.
LEMMA RestStep ==
  ASSUME LeftInv, SameDomain, UNCHANGED <<file, marker, iso>>, vmcut' = vmcut,
         UNCHANGED vmcall \/ (vmcall.pc \in Rest /\ vmcall'.pc \in Rest)
  PROVE  LeftInv'
BY SMTT(30), Z3T(30) DEF LeftInv, SameDomain, Marked, Named, Kept, Rest

\* A step of Delete that touches no image.
LEMMA RemovingStep ==
  ASSUME LeftInv, dom'.defined => dom'.state # "absent", UNCHANGED <<file, marker, iso>>,
         vmcut' = vmcut, vmcall.pc \in Removing \ {"unmark"}, vmcall'.pc \in Removing \ {"unmark"},
         vmcall'.todo = vmcall.todo
  PROVE  LeftInv'
BY DEF LeftInv, Marked, Named, Kept, Removing

\* Create makes what its revision names.
LEMMA LeftCreate ==
  ASSUME VMInv, LeftInv, (\E r \in VMRev : VMCreate(r)) \/ CreateSeed \/ CreateMark \/ CreateDefine
  PROVE  LeftInv'
<1> USE DEF VMPC
<1>0. VMTypeOK
  BY DEF VMInv
<1>1. ASSUME NEW r \in VMRev, VMCreate(r) PROVE LeftInv'
  <2>1. CASE SeedOf[r] = "invalid"
    BY <1>1, <2>1, RestStep, ZenonT(40) DEF VMCreate, SameDomain, LeftInv
  <2>2. CASE SeedOf[r] # "invalid"
    <3>1. vmcall' = [pc |-> IF SeedOf[r] = "valid" THEN "seed" ELSE "disk", rev |-> r, todo |-> DisksOf[r]]
      BY <1>1, <2>2, Zenon DEF VMCreate, createCloudInitISO
    <3> QED BY <1>1, <3>1, ZenonT(60) DEF VMCreate, LeftInv, Marked, Named, Kept
  <2> QED BY <2>1, <2>2
<1>2. CASE CreateSeed
  <2>1. CASE Goto("disk")
    <3>1. vmcall'.pc = "disk" /\ vmcall'.todo = vmcall.todo /\ vmcall'.rev = vmcall.rev /\ vmcut' = vmcut
      BY <1>0, <2>1, GotoType DEF Goto
    <3> QED BY <1>2, <3>1, ZenonT(60) DEF CreateSeed, LeftInv, Marked, Named, Kept
  <2>2. CASE VMReturn(FALSE)
    BY <1>2, <2>2, CutStep, Zenon DEF CreateSeed, VMReturn, SameDomain, LeftInv
  <2> QED BY <1>2, <2>1, <2>2, ZenonT(40) DEF CreateSeed
<1>3. CASE CreateMark
  <2>1. vmcall.todo # <<>> /\ vmcall.todo \in Seq(Disk) /\ file[Head(vmcall.todo)] = "agent"
    BY <1>3 DEF CreateMark, VMInv, AtHand, VMTypeOK
  <2>2. vmcall'.pc = "disk" /\ vmcall'.todo = Tail(vmcall.todo) /\ vmcall'.rev = vmcall.rev
    BY <1>0, <1>3, <2>1, WalkType, SMTT(30), Z3T(30) DEF CreateMark, NextDisk
  <2>3. CASE vmcut' = TRUE
    BY <1>3, <2>3, CutStep, SMTT(30), Z3T(30) DEF CreateMark, SameDomain, LeftInv
  <2>4. CASE marker' = marker \cup {Head(vmcall.todo)} /\ UNCHANGED vmcut
    BY <1>3, <2>1, <2>2, <2>4, TailElements, ZenonT(60) DEF CreateMark, LeftInv, Marked, Named, Kept
  <2> QED BY <1>3, <2>3, <2>4, Zenon DEF CreateMark
<1>4. CASE CreateDefine
  <2>1. CASE dom' = generateDomainXML(vmcall.rev) /\ VMReturn(TRUE)
    <3>1. dom'.state # "absent" /\ dom'.rev = vmcall.rev /\ dom'.defined
      BY <2>1 DEF generateDomainXML
    <3>2. vmcall'.pc = "idle" /\ vmcut' = vmcut
      BY <1>0, <2>1, VMConstants DEF VMReturn, VMTypeOK
    <3> QED BY <1>4, <3>1, <3>2, ZenonT(60) DEF CreateDefine, LeftInv, Marked, Named, Kept
  <2>2. CASE VMReturn(FALSE) /\ UNCHANGED dom
    BY <2>2, CutStep, Zenon DEF VMReturn, SameDomain, LeftInv
  <2> QED BY <1>4, <2>1, <2>2, ZenonT(40) DEF CreateDefine
<1> QED BY <1>1, <1>2, <1>3, <1>4

\* Start and Stop leave all that there is to the domain.
LEMMA LeftStartStop ==
  ASSUME VMInv, LeftInv,
         \/ VMStart \/ VMStop \/ StopShutdown \/ StopPoll \/ StopPollFails \/ StopExpires \/ StopForce
  PROVE  LeftInv'
<1> USE DEF VMPC, Rest
<1>0. VMTypeOK
  BY DEF VMInv
<1>1. UNCHANGED <<file, marker, iso>> /\ vmcut' = vmcut
  BY <1>0, Zenon DEF VMStart, VMStop, StopShutdown, StopPoll, StopPollFails, StopExpires, StopForce,
    Goto, VMReturn, VMTypeOK
<1>2. vmcall.pc \in Rest /\ vmcall'.pc \in Rest
  <2>1. CASE VMStart \/ VMStop
    BY <2>1, VMConstants, SMTT(30), Z3T(30) DEF VMStart, VMStop, CallType
  <2>2. CASE StopShutdown \/ StopExpires
    BY <1>0, <2>2, GotoType, SMTT(30), Z3T(30) DEF StopShutdown, StopExpires
  <2>3. CASE StopPoll \/ StopPollFails \/ StopForce
    BY <2>3, VMConstants DEF StopPoll, StopPollFails, StopForce, VMReturn
  <2> QED BY <2>1, <2>2, <2>3
<1>3. SameDomain
  <2>1. CASE UNCHANGED dom
    BY <2>1 DEF SameDomain, LeftInv
  <2>2. CASE dom' = Ended
    BY <1>0, <2>2, EndedSame
  <2>3. CASE dom' = [dom EXCEPT !.state = "running"]
    BY <1>0, <2>3 DEF SameDomain, VMTypeOK
  <2> QED BY <2>1, <2>2, <2>3, Zenon
    DEF VMStart, VMStop, StopShutdown, StopPoll, StopPollFails, StopExpires, StopForce
<1> QED BY <1>1, <1>2, <1>3, RestStep

\* Delete, up to the disks: the list it goes by names all that the domain named.
LEMMA LeftDelete ==
  ASSUME VMInv, LeftInv, VMDelete \/ DeleteXML \/ DeleteState \/ DeleteDestroy \/ DeleteUndefine
  PROVE  LeftInv'
<1> USE DEF VMPC
<1>0. VMTypeOK
  BY SMTT(30), Z3T(30) DEF VMInv
<1>c. CASE vmcut' = TRUE /\ UNCHANGED dom
  BY <1>c, CutStep DEF SameDomain, LeftInv
<1>1. CASE VMDelete
  <2>1. CASE dom.state = "absent" /\ vmcall' = [VMIdle EXCEPT !.pc = "clean"] /\ UNCHANGED vmcut
    <3>1. ~dom.defined /\ vmcall'.pc = "clean"
      BY <2>1, VMConstants DEF LeftInv, CallType
    <3> QED BY <1>1, <2>1, <3>1 DEF VMDelete, LeftInv, Marked, Named, Kept
  <2>2. CASE vmcall' = [VMIdle EXCEPT !.pc = "xml"] /\ UNCHANGED vmcut
    <3>1. vmcall'.pc = "xml"
      BY <2>2, VMConstants DEF CallType
    <3> QED BY <1>1, <2>2, <3>1, RestStep DEF VMDelete, Rest, SameDomain, LeftInv
  <2> QED BY <1>1, <1>c, <2>1, <2>2, Zenon DEF VMDelete, VMReturn
<1>2. CASE DeleteXML
  <2>1. CASE vmcall' = [vmcall EXCEPT !.pc = "state", !.todo = DisksOf[dom.rev]] /\ UNCHANGED vmcut
    <3>1. vmcall'.pc = "state" /\ vmcall'.todo = DisksOf[dom.rev]
      BY <1>0, <2>1, Zenon DEF VMTypeOK
    <3> QED BY <1>2, <2>1, <3>1 DEF DeleteXML, LeftInv, Marked, Named, Kept
  <2> QED BY <1>2, <1>c, <2>1, Zenon DEF DeleteXML
<1>3. CASE DeleteState
  <2>1. /\ vmcall'.pc \in {"undefine", "destroy"} /\ vmcall'.todo = vmcall.todo /\ vmcut' = vmcut
    BY <1>0, <1>3, GotoType DEF DeleteState, Goto
  <2> QED BY <1>3, <2>1, RemovingStep, SMTT(30), Z3T(30) DEF DeleteState, Removing, LeftInv
<1>4. CASE DeleteDestroy
  <2>1. CASE dom' = Ended /\ Goto("undefine")
    <3>1. vmcall'.pc = "undefine" /\ vmcall'.todo = vmcall.todo /\ vmcut' = vmcut
      BY <1>0, <2>1, GotoType, SMTT(30), Z3T(30) DEF Goto
    <3>2. dom'.defined => dom'.state # "absent"
      BY <1>0, <2>1, EndedSame DEF SameDomain
    <3> QED BY <1>4, <3>1, <3>2, RemovingStep DEF DeleteDestroy, Removing
  <2> QED BY <1>4, <1>c, <2>1, Zenon DEF DeleteDestroy, VMReturn
<1>5. CASE DeleteUndefine
  <2>1. CASE /\ dom' = IF dom.state \in {"absent", "shutoff"} THEN NoDomain ELSE [dom EXCEPT !.defined = FALSE]
             /\ Goto("clean")
    <3>1. vmcall'.pc = "clean" /\ vmcall'.todo = vmcall.todo /\ vmcut' = vmcut
      BY <1>0, <2>1, GotoType DEF Goto
    <3>2. ~dom'.defined
      BY <1>0, <2>1, Zenon DEF VMTypeOK, NoDomain
    <3> QED BY <1>5, <3>1, <3>2, RemovingStep DEF DeleteUndefine, Removing
  <2> QED BY <1>5, <1>c, <2>1, Zenon DEF DeleteUndefine, VMReturn
<1> QED BY <1>1, <1>2, <1>3, <1>4, <1>5, SMTT(30), Z3T(30)

\* The disks: one that is made is one of the revision's, and one that is passed
\* over in a removal has neither image nor marker of the agent's.
LEMMA LeftDisks ==
  ASSUME VMInv, LeftInv, NEW d \in Disk, createDisk(d) \/ cleanupDiskArtifacts(d)
  PROVE  LeftInv'
<1> USE DEF VMPC
<1>0. VMTypeOK /\ vmcall.todo # <<>> /\ d = Head(vmcall.todo) /\ vmcall.todo \in Seq(Disk)
  BY ZenonT(40) DEF VMInv, VMTypeOK, createDisk, cleanupDiskArtifacts
<1>c. CASE vmcut' = TRUE
  BY <1>c, CutStep, Zenon DEF SameDomain, LeftInv, createDisk, cleanupDiskArtifacts
<1>1. CASE createDisk(d)
  <2>1. CASE NextDisk /\ UNCHANGED <<file, vmcut>>
    <3>1. vmcall'.pc = "disk" /\ vmcall'.todo = Tail(vmcall.todo) /\ vmcall'.rev = vmcall.rev
      BY <1>0, <2>1, WalkType, SMTT(30), Z3T(30) DEF NextDisk
    <3> QED BY <1>0, <1>1, <2>1, <3>1, TailElements, ZenonT(60) DEF createDisk, LeftInv, Marked, Named, Kept
  <2>2. CASE ~isNetworkDiskPath(d) /\ file' = [file EXCEPT ![d] = "agent"] /\ Goto("mark")
    <3>1. vmcall'.pc = "mark" /\ vmcall'.todo = vmcall.todo /\ vmcall'.rev = vmcall.rev /\ vmcut' = vmcut
      BY <1>0, <2>2, GotoType, SMTT(30), Z3T(30) DEF Goto
    <3>2. \A e \in Disk : e # d => file'[e] = file[e]
      BY <1>0, <2>2, SMTT(30), Z3T(30) DEF VMTypeOK
    <3>3. d \in Elements(vmcall.todo)
      BY <1>0, TailElements
    <3> QED BY <1>0, <1>1, <2>2, <3>1, <3>2, <3>3, ZenonT(60)
            DEF createDisk, LeftInv, Marked, Named, Kept, isNetworkDiskPath
  <2> QED BY <1>1, <1>c, <2>1, <2>2, ZenonT(40) DEF createDisk, VMReturn
<1>2. CASE cleanupDiskArtifacts(d)
  <2>1. CASE d \notin marker \ Network /\ SkipDisk /\ UNCHANGED <<file, vmcut>>
    <3>1. vmcall'.pc = "clean" /\ vmcall'.todo = Tail(vmcall.todo)
      BY <1>0, <2>1, WalkType, SMTT(30), Z3T(30) DEF SkipDisk
    <3>2. ~vmcut => ~Kept(d)
      BY <1>2, <2>1, SMTT(30) DEF cleanupDiskArtifacts, LeftInv, Marked, Kept
    <3>3. UNCHANGED <<dom, marker, iso, file, vmcut>> /\ vmcall.pc = "clean"
      BY <1>2, <2>1, Zenon DEF cleanupDiskArtifacts
    <3>4. ASSUME ~vmcut, NEW e \in Disk, Kept(e) PROVE e \in Elements(Tail(vmcall.todo))
      <4>1. e \in Elements(vmcall.todo) /\ e # Head(vmcall.todo)
        BY <1>0, <3>2, <3>3, <3>4, ZenonT(40) DEF LeftInv, Named
      <4> QED BY ONLY <1>0, <4>1, TailElements, ZenonT(40)
    <3>5. ~vmcut => Named'
      BY <3>1, <3>3, <3>4, ZenonT(40) DEF Named, Kept
    <3>6. ~vmcut => Marked'
      BY <3>1, <3>3, ZenonT(40) DEF LeftInv, Marked, Kept
    <3> QED BY <3>3, <3>5, <3>6, ZenonT(40) DEF LeftInv
  <2>2. CASE file' = [file EXCEPT ![d] = "none"] /\ Goto("unmark")
    <3>1. vmcall'.pc = "unmark" /\ vmcall'.todo = vmcall.todo /\ vmcut' = vmcut
      BY <1>0, <2>2, GotoType, SMTT(30), Z3T(30) DEF Goto
    <3>2. file'[d] = "none" /\ \A e \in Disk : e # d => file'[e] = file[e]
      BY <1>0, <2>2 DEF VMTypeOK
    <3> QED BY <1>0, <1>2, <3>1, <3>2, ZenonT(60) DEF cleanupDiskArtifacts, LeftInv, Marked, Named, Kept
  <2> QED BY <1>2, <1>c, <2>1, <2>2, Zenon DEF cleanupDiskArtifacts
<1> QED BY <1>1, <1>2

\* The last files, and the world outside the call.
LEMMA LeftOthers ==
  ASSUME VMInv, LeftInv,
         \/ CleanupMarker \/ cleanupDeterministicVMArtifacts \/ GuestMoves \/ VMCrash
         \/ \E d \in Disk : UserImage(d)
  PROVE  LeftInv'
<1> USE DEF VMPC
<1>0. VMTypeOK
  BY DEF VMInv
<1>c. CASE vmcut' = TRUE /\ UNCHANGED dom
  BY <1>c, CutStep DEF SameDomain, LeftInv
<1>1. CASE CleanupMarker
  <2>1. vmcall.todo # <<>> /\ vmcall.todo \in Seq(Disk)
    BY <1>1 DEF CleanupMarker, VMInv, AtHand, VMTypeOK
  <2>2. vmcall'.pc = "clean" /\ vmcall'.todo = Tail(vmcall.todo)
    BY <1>0, <1>1, <2>1, WalkType, SMTT(30), Z3T(30) DEF CleanupMarker, SkipDisk
  <2>3. CASE marker' = marker \ {Head(vmcall.todo)} /\ UNCHANGED vmcut
    BY <1>1, <2>1, <2>2, <2>3, TailElements, ZenonT(60) DEF CleanupMarker, LeftInv, Marked, Named, Kept
  <2> QED BY <1>1, <1>c, <2>3, Zenon DEF CleanupMarker
<1>2. CASE cleanupDeterministicVMArtifacts
  <2>1. CASE iso' = {} /\ VMReturn(TRUE)
    <3>1. vmcall'.pc = "idle" /\ vmcut' = vmcut
      BY <1>0, <2>1, VMConstants, SMTT(30), Z3T(30) DEF VMReturn, VMTypeOK
    <3>2. Elements(vmcall.todo) = {}
      BY <1>2 DEF cleanupDeterministicVMArtifacts, Elements
    <3> QED BY <1>2, <2>1, <3>1, <3>2, ZenonT(60)
            DEF cleanupDeterministicVMArtifacts, LeftInv, Marked, Named, Kept
  <2> QED BY <1>2, <1>c, <2>1, ZenonT(40) DEF cleanupDeterministicVMArtifacts, VMReturn
<1>3. CASE GuestMoves
  <2>1. SameDomain
    <3>1. CASE dom' = Ended
      BY <1>0, <3>1, EndedSame
    <3>2. CASE \E to \in DomainState \ {"absent", "shutoff"} : dom' = [dom EXCEPT !.state = to]
      BY <1>0, <3>2 DEF SameDomain, VMTypeOK
    <3> QED BY <1>3, <3>1, <3>2, Zenon DEF GuestMoves
  <2> QED BY <1>3, <2>1, RestStep, Zenon DEF GuestMoves
<1>4. CASE VMCrash
  <2>1. CASE vmcall.pc \in {"shutdown", "grace", "force"}
    <3>1. vmcall'.pc = "idle" /\ vmcut' = vmcut
      BY <1>0, <1>4, <2>1, VMConstants DEF VMCrash, VMReturn, VMTypeOK
    <3> QED BY <1>4, <2>1, <3>1, RestStep, SMTT(30), Z3T(30) DEF VMCrash, Rest, SameDomain, LeftInv
  <2>2. CASE vmcall.pc \notin {"shutdown", "grace", "force"}
    BY <1>4, <1>c, <2>2, ZenonT(40) DEF VMCrash, VMReturn
  <2> QED BY <2>1, <2>2, SMTT(30), Z3T(30)
<1>5. ASSUME NEW d \in Disk, UserImage(d) PROVE LeftInv'
  <2>1. \A e \in Disk : file'[e] = "agent" => file[e] = "agent"
    BY <1>0, <1>5 DEF UserImage, VMTypeOK
  <2>2. vmcall.pc = "unmark" => Head(vmcall.todo) \in Disk
    BY DEF VMInv, AtHand, VMTypeOK
  <2> QED BY <1>5, <2>1, <2>2, SMTT(30), Z3T(30) DEF UserImage, LeftInv, Marked, Named, Kept
<1> QED BY <1>1, <1>2, <1>3, <1>4, <1>5

\* Every step keeps all that the agent has made traceable.
LEMMA LeftStep ==
  ASSUME VMInv, LeftInv, [VMNext]_vmvars
  PROVE  LeftInv'
<1> USE DEF VMNext, VMStep
<1>1. CASE \E d \in Disk : createDisk(d) \/ cleanupDiskArtifacts(d)
  BY <1>1, LeftDisks
<1>2. CASE (\E r \in VMRev : VMCreate(r)) \/ CreateSeed \/ CreateMark \/ CreateDefine
  BY <1>2, LeftCreate, Zenon
<1>3. CASE \/ VMStart \/ VMStop \/ StopShutdown \/ StopPoll \/ StopPollFails \/ StopExpires
           \/ StopForce
  BY <1>3, LeftStartStop, Zenon
<1>4. CASE VMDelete \/ DeleteXML \/ DeleteState \/ DeleteDestroy \/ DeleteUndefine
  BY <1>4, LeftDelete, Zenon
<1>5. CASE \/ CleanupMarker \/ cleanupDeterministicVMArtifacts \/ GuestMoves \/ VMCrash
           \/ \E d \in Disk : UserImage(d)
  BY <1>5, LeftOthers, ZenonT(40)
<1>6. CASE UNCHANGED vmvars
  BY <1>6, ZenonT(60) DEF vmvars, LeftInv, Marked, Named, Kept
<1> QED BY <1>1, <1>2, <1>3, <1>4, <1>5, <1>6, Zenon

\* Between calls, unless one was cut short, every image, marker and ISO that Create
\* has made belongs to a domain that is there and names it.
THEOREM NothingLeftBehind == VMSpec => []NothingLeft
<1>1. VMInv /\ [VMNext]_vmvars => VMInv'
  BY VMInvStep
<1>2. VMInv /\ LeftInv /\ [VMNext]_vmvars => LeftInv'
  BY LeftStep, SMTT(30), Z3T(30)
<1>3. LeftInv => NothingLeft
  BY ZenonT(60) DEF LeftInv, Marked, Named, Kept, NothingLeft, SourceFiles, isNetworkDiskPath, Elements
<1> QED BY VMStart0, LeftInit, <1>1, <1>2, <1>3, PTL DEF VMSpec

-----------------------------------------------------------------------------
(* No image goes from under a guest.                                       *)

\* Delete gets to its removals with a guest that has stopped, provided that it can
\* read the domain's state; nothing but Start sets a stopped guest going.
LEMMA GuestStep ==
  ASSUME "deletestate" \notin VMFaults, VMInv, GuestInv, [VMNext]_vmvars
  PROVE  GuestInv'
<1> USE DEF VMPC
<1>0. VMTypeOK /\ VMInv'
  BY VMInvStep DEF VMInv
<1>1. CASE vmcall'.pc \notin {"undefine", "clean", "unmark"}
  BY <1>1 DEF GuestInv
<1>2. CASE vmcall'.pc \in {"undefine", "clean", "unmark"}
  <2>2. CASE UNCHANGED vmvars
    BY <2>2, <1>2 DEF GuestInv, vmvars, Active
  <2>3. CASE \E r \in VMRev : VMCreate(r)
    <3>1. vmcall'.pc \in {"idle", "seed", "disk"}
      BY <2>3, <1>0 DEF VMCreate, createCloudInitISO, VMTypeOK
    <3> QED BY <1>2, <3>1, SMTT(30), Z3T(30)
  <2>4. CASE \/ CreateSeed \/ CreateMark \/ StopShutdown \/ StopExpires
             \/ \E d \in Disk : createDisk(d)
    <3>1. vmcall'.pc \in {"disk", "mark", "idle", "grace", "force"}
      <4>1. CASE CreateMark \/ \E d \in Disk : createDisk(d)
        <5>1. vmcall.todo # <<>>
          BY <4>1, ZenonT(40) DEF CreateMark, createDisk, VMInv, AtHand
        <5> QED BY <4>1, <5>1, <1>0, WalkType, GotoType, ReturnType, ZenonT(40) DEF CreateMark, createDisk, NextDisk
      <4> QED BY <2>4, <4>1, <1>0, GotoType, ReturnType, Zenon DEF CreateSeed, StopShutdown, StopExpires
    <3> QED BY <1>2, <3>1
  <2>5. CASE CreateDefine \/ StopPoll \/ StopPollFails \/ StopForce \/ cleanupDeterministicVMArtifacts \/ VMCrash
    <3>1. vmcall'.pc = "idle"
      BY <2>5, VMConstants, Zenon
      DEF CreateDefine, StopPoll, StopPollFails, StopForce, cleanupDeterministicVMArtifacts, VMCrash, VMReturn
    <3> QED BY <1>2, <3>1
  <2>6. CASE VMStart \/ VMStop
    <3>1. vmcall'.pc \in {"idle", "shutdown"}
      BY <2>6, VMConstants DEF VMStart, VMStop, CallType
    <3> QED BY <1>2, <3>1
  <2>7. CASE VMDelete
    <3>1. dom.state = "absent"
      BY <2>7, <1>2, VMConstants DEF VMDelete, CallType, VMReturn
    <3> QED BY <2>7, <3>1 DEF VMDelete, GuestInv, Active, Inactive
  <2>8. CASE DeleteXML
    <3>1. vmcall'.pc = "state"
      BY <2>8, <1>0, Zenon DEF DeleteXML, VMTypeOK
    <3> QED BY <1>2, <3>1
  <2>9. CASE DeleteState
    <3>1. dom.state \in Inactive
      BY <2>9, <1>0, <1>2, GotoType, SMTT(30), Z3T(30) DEF DeleteState, VMFault
    <3> QED BY <2>9, <3>1, SMTT(30), Z3T(30) DEF DeleteState, GuestInv, Active
  <2>10. CASE DeleteDestroy
    <3>1. dom' = Ended
      BY <2>10, <1>2, VMConstants, Zenon DEF DeleteDestroy, VMReturn
    <3> QED BY <1>0, <3>1, EndedType DEF GuestInv, Active
  <2>11. CASE DeleteUndefine
    <3>1. dom'.state \in Inactive
      BY <2>11, <1>0, VMConstants, ZenonT(40) DEF DeleteUndefine, GuestInv, Active, VMTypeOK, Inactive
    <3> QED BY <3>1 DEF GuestInv, Active
  <2>12. CASE CleanupMarker \/ (\E d \in Disk : cleanupDiskArtifacts(d) \/ UserImage(d))
    <3>1. UNCHANGED dom /\ (vmcall.pc \in {"clean", "unmark"} \/ UNCHANGED vmcall)
      BY <2>12, Zenon DEF CleanupMarker, cleanupDiskArtifacts, UserImage
    <3> QED BY <1>2, <3>1 DEF GuestInv, Active
  <2>13. CASE GuestMoves
    <3>1. UNCHANGED vmcall /\ (Active \/ dom' = Ended)
      BY <2>13, Zenon DEF GuestMoves
    <3> QED BY <1>0, <1>2, <3>1, EndedType DEF GuestInv, Active
  <2> QED BY <2>2, <2>3, <2>4, <2>5, <2>6, <2>7, <2>8, <2>9, <2>10, <2>11, <2>12, <2>13, ZenonT(40)
          DEF VMNext, VMStep
<1> QED BY <1>1, <1>2, SMTT(30), Z3T(30)

\* Images go only from Delete's walk over the disks.
LEMMA RemovedByDelete ==
  ASSUME VMInv, [VMNext]_vmvars, NEW d \in Disk, file[d] = "agent", file'[d] = "none"
  PROVE  vmcall.pc = "clean"
<1>0. file \in [Disk -> {"agent", "user", "none"}]
  BY DEF VMInv, VMTypeOK
<1>1. CASE \E e \in Disk : createDisk(e)
  BY <1>0, <1>1, ZenonT(40) DEF createDisk
<1>2. CASE \E e \in Disk : UserImage(e)
  BY <1>0, <1>2, SMTT(30), Z3T(30) DEF UserImage
<1>3. CASE \E e \in Disk : cleanupDiskArtifacts(e)
  BY <1>3 DEF cleanupDiskArtifacts
<1>4. CASE UNCHANGED file
  BY <1>4
<1> QED BY <1>1, <1>2, <1>3, <1>4, ZenonT(40)
  DEF VMNext, VMStep, vmvars, VMCreate, CreateSeed, CreateMark, CreateDefine, VMStart, VMStop, StopShutdown,
      StopPoll, StopPollFails, StopExpires, StopForce, VMDelete, DeleteXML, DeleteState, DeleteDestroy,
      DeleteUndefine, CleanupMarker, cleanupDeterministicVMArtifacts, GuestMoves, VMCrash

\* When Delete can read the domain's state, it takes no image from under a guest
\* that runs, for any other failure and wherever the agent crashes.
THEOREM ImagesOutliveGuest ==
  ASSUME "deletestate" \notin VMFaults
  PROVE  VMSpec => DisksOutliveGuest
<1>1. VMInv /\ [VMNext]_vmvars => VMInv'
  BY VMInvStep
<1>2. VMInv /\ GuestInv /\ [VMNext]_vmvars => GuestInv'
  BY GuestStep
<1>3. VMInv /\ GuestInv /\ [VMNext]_vmvars =>
        [\A d \in Disk : file[d] = "agent" /\ file'[d] = "none" /\ d \in SourceFiles(dom.rev) => ~Active]_vmvars
  BY RemovedByDelete, SMTT(30), Z3T(30) DEF GuestInv
<1> QED BY VMStart0, LeftInit, <1>1, <1>2, <1>3, PTL DEF VMSpec, DisksOutliveGuest
===============================================================================
