---------------------------- MODULE Certificates ----------------------------
(***************************************************************************)
(* The certificate manager (internal/certmanager/vault.go), which replaces *)
(* the three TLS files on disk, and the gRPC server's dynamicTLSProvider   *)
(* (internal/grpc/server.go), which reads them again at every handshake.   *)
(*                                                                         *)
(* A bundle is known by its generation: 0 is the one an operator put on    *)
(* disk by hand, 1, 2, ... are issued by Vault.  A file is the generation  *)
(* it comes from, which is both its contents and its modification time;    *)
(* a certificate and a key form a pair when their generations are equal.   *)
(* Files are replaced and never removed.                                   *)
(***************************************************************************)
EXTENDS Integers

CONSTANTS
  Reader,       \* goroutines that handle handshakes
  Outages,      \* what may be out of order: a subset of {"vault", "disk"}
  MaxGen,       \* bound on the number of bundles issued
  MaxCrashes    \* bound on the number of crashes

ASSUME CertificatesAssumption ==
  Outages \subseteq {"vault", "disk"} /\ MaxGen \in Nat /\ MaxCrashes \in Nat

File == {"cert", "key", "ca"}

Missing == -1

Bundle == [File -> Missing .. MaxGen]

NoBundle == [f \in File |-> Missing]

VARIABLES
  disk,     \* the three files
  issued,   \* how many bundles Vault has issued
  age,      \* each bundle's certificate: "foreign" does not name this service
  down,     \* what is out of order: Vault, or writing to the disk
  mgr,      \* Manager: its goroutine and m.current
  server,   \* the gRPC server: "off", "priming" (NewServer), "serving"
  cache,    \* dynamicTLSProvider: cached, and the modification times beside it
  rd,       \* each getConfig call: where it stands and its local variables
  crashes   \* how often the agent has crashed

vars == <<disk, issued, age, down, mgr, server, cache, rd, crashes>>

\* gen: the bundle being written; from: who asked for it.
Mgr ==
  [pc : {"start", "fatal", "rotation", "recovery", "key", "cert", "ca"},
   from : {"start", "rotation", "recovery"}, gen : 0 .. MaxGen, current : Missing .. MaxGen]

\* mod: the times from Stat; got: what was loaded, or is returned; old: cached.
Call ==
  [pc : {"idle", "stat_key", "stat_ca", "check", "load_cert", "load_key", "load_ca", "publish", "done"},
   mod : Bundle, got : Bundle, old : Bundle]

IdleCall == [pc |-> "idle", mod |-> NoBundle, got |-> NoBundle, old |-> NoBundle]

NoCache == [mod |-> NoBundle, got |-> NoBundle]

TypeOK ==
  /\ disk \in Bundle
  /\ issued \in 0 .. MaxGen
  /\ age \in [0 .. MaxGen -> {"fresh", "due", "expired", "foreign"}]
  /\ down \in SUBSET Outages
  /\ mgr \in Mgr
  /\ server \in {"off", "priming", "serving"}
  /\ cache \in [mod : Bundle, got : Bundle]
  /\ rd \in [Reader -> Call]
  /\ crashes \in 0 .. MaxCrashes

Starting == [pc |-> "start", from |-> "start", gen |-> 0, current |-> Missing]

Init ==
  /\ disk \in {NoBundle, [f \in File |-> 0]}
  /\ issued = 0
  /\ \E a \in {"fresh", "expired", "foreign"} :
       age = [g \in 0 .. MaxGen |-> IF g = 0 THEN a ELSE "fresh"]
  /\ down \in SUBSET (Outages \cap {"vault"})
  /\ mgr = Starting
  /\ server = "off"
  /\ cache = NoCache
  /\ rd = [r \in Reader |-> IdleCall]
  /\ crashes = 0

-----------------------------------------------------------------------------
(* Manager.                                                                *)

manualCertAvailable == disk["cert"] = disk["key"] /\ \A f \in File : disk[f] # Missing

\* loadExistingCertMeta: besides, not expired and made out to this service.
loadExistingCertMeta == manualCertAvailable /\ age[disk["cert"]] \notin {"expired", "foreign"}

\* When Start returns, the agent goes on to NewServer.
Resume(from) == server' = IF from = "start" THEN "priming" ELSE server

\* Faulty variant of IssueFailed below, used only to see that a property notices:
\* a loop that ends at an error.
IssueFailedEnds(from) ==
  /\ mgr' = [mgr EXCEPT !.pc = IF from = "start" /\ ~manualCertAvailable THEN "fatal" ELSE "stopped"]
  /\ Resume(from)

\* What follows a failed issueAndPersist: a loop tries again later; Start falls
\* back on the files, with the recovery loop, or fails and the agent exits.
IssueFailed(from) ==
  \/ /\ from = "start" /\ ~manualCertAvailable
     /\ mgr' = [mgr EXCEPT !.pc = "fatal"]
     /\ UNCHANGED server
  \/ /\ from = "start" /\ manualCertAvailable
     /\ mgr' = [mgr EXCEPT !.pc = "recovery"]
     /\ Resume(from)
  \/ /\ from # "start"
     /\ mgr' = [mgr EXCEPT !.pc = from]
     /\ UNCHANGED server

\* newVaultClient and the request of issueAndPersist.
Issue(from) ==
  /\ \/ /\ "vault" \in down
        /\ IssueFailed(from)
        /\ UNCHANGED issued
     \/ /\ "vault" \notin down
        /\ issued < MaxGen
        /\ issued' = issued + 1
        /\ mgr' = [mgr EXCEPT !.pc = "key", !.from = from, !.gen = issued + 1]
        /\ UNCHANGED server
  /\ UNCHANGED <<disk, age, down, cache, rd, crashes>>

Start ==
  /\ mgr.pc = "start"
  /\ \/ /\ loadExistingCertMeta
        /\ mgr' = [mgr EXCEPT !.pc = "rotation", !.current = disk["cert"]]
        /\ Resume("start")
        /\ UNCHANGED <<disk, issued, age, down, cache, rd, crashes>>
     \/ /\ ~loadExistingCertMeta
        /\ Issue("start")

\* The rotation loop wakes up at 80% of the lifetime of the current certificate,
\* and from then on every 30 seconds.
rotationLoop ==
  /\ mgr.pc = "rotation"
  /\ age[mgr.current] # "fresh"
  /\ Issue("rotation")

recoveryLoop ==
  /\ mgr.pc = "recovery"
  /\ Issue("recovery")

\* writeCertBundleAtomic renames the key, then the certificate, then the CA into
\* place; an error leaves the files as far as they are.
WriteFile(f, next) ==
  /\ mgr.pc = f
  /\ \/ /\ "disk" \in down
        /\ IssueFailed(mgr.from)
        /\ UNCHANGED disk
     \/ /\ "disk" \notin down
        /\ disk' = [disk EXCEPT ![f] = mgr.gen]
        /\ mgr' = [mgr EXCEPT !.pc = next]
        /\ UNCHANGED server
  /\ UNCHANGED <<issued, age, down, cache, rd, crashes>>

WriteKey == WriteFile("key", "cert")

WriteCert == WriteFile("cert", "ca")

\* The last file; m.current is set, and whoever asked goes on in the rotation loop.
WriteCA ==
  /\ mgr.pc = "ca"
  /\ \/ /\ "disk" \in down
        /\ IssueFailed(mgr.from)
        /\ UNCHANGED disk
     \/ /\ "disk" \notin down
        /\ disk' = [disk EXCEPT !["ca"] = mgr.gen]
        /\ mgr' = [mgr EXCEPT !.pc = "rotation", !.current = mgr.gen]
        /\ Resume(mgr.from)
  /\ UNCHANGED <<issued, age, down, cache, rd, crashes>>

-----------------------------------------------------------------------------
(* dynamicTLSProvider.getConfig: first as a part of NewServer, then at every *)
(* handshake.  Calls run side by side; only the accesses to the cache are    *)
(* under the mutex.                                                          *)

ReaderStep(r, from, next) == rd[r].pc = from /\ rd' = [rd EXCEPT ![r] = next]

KeepAllButReader == UNCHANGED <<disk, issued, age, down, mgr, server, cache, crashes>>

\* Faulty variants of Check and Publish below: only one modification time is
\* compared, and the times are taken after the files were read.
CheckCertOnly(r) ==
  /\ ReaderStep(r, "check",
       IF cache.got # NoBundle /\ cache.mod["cert"] = rd[r].mod["cert"]
       THEN [rd[r] EXCEPT !.pc = "done", !.got = cache.got]
       ELSE [rd[r] EXCEPT !.pc = "load_cert", !.old = cache.got])
  /\ KeepAllButReader

PublishRestats(r) ==
  /\ ReaderStep(r, "publish", [rd[r] EXCEPT !.pc = "done"])
  /\ cache' = [mod |-> disk, got |-> rd[r].got]
  /\ UNCHANGED <<disk, issued, age, down, mgr, server, crashes>>

\* os.Stat, and reading a file.
Stat(r, f, from, next) ==
  /\ ReaderStep(r, from, [rd[r] EXCEPT !.pc = next, !.mod[f] = disk[f]])
  /\ KeepAllButReader

Load(r, f, from, next) ==
  /\ ReaderStep(r, from, [rd[r] EXCEPT !.pc = next, !.got[f] = disk[f]])
  /\ KeepAllButReader

\* The configuration b is returned; the call goes on, keeping b aside.
Return(r, from, b) == ReaderStep(r, from, [rd[r] EXCEPT !.pc = "done", !.got = b, !.old = NoBundle])

Proceed(r, from, next, b) == ReaderStep(r, from, [rd[r] EXCEPT !.pc = next, !.old = b])

\* While NewServer primes the provider there is no other call.
StatCert(r) ==
  /\ \/ server = "serving"
     \/ server = "priming" /\ \A q \in Reader : rd[q].pc = "idle"
  /\ Stat(r, "cert", "idle", "stat_key")

StatKey(r) == Stat(r, "key", "stat_key", "stat_ca")

StatCA(r) == Stat(r, "ca", "stat_ca", "check")

Check(r) ==
  /\ \/ /\ cache.got # NoBundle /\ cache.mod = rd[r].mod
        /\ Return(r, "check", cache.got)
     \/ /\ cache.got = NoBundle \/ cache.mod # rd[r].mod
        /\ Proceed(r, "check", "load_cert", cache.got)
  /\ KeepAllButReader

\* LoadX509KeyPair reads the certificate, then the key, and fails when they do
\* not match; then the cached configuration is returned, if there is one.
LoadCert(r) == Load(r, "cert", "load_cert", "load_key")

LoadKey(r) ==
  \/ disk["key"] = rd[r].got["cert"] /\ Load(r, "key", "load_key", "load_ca")
  \/ /\ disk["key"] # rd[r].got["cert"]
     /\ Return(r, "load_key", rd[r].old)
     /\ KeepAllButReader

LoadCA(r) == Load(r, "ca", "load_ca", "publish")

\* The modification times saved are the ones from before the files were read.
Publish(r) ==
  /\ Proceed(r, "publish", "done", NoBundle)
  /\ cache' = [mod |-> rd[r].mod, got |-> rd[r].got]
  /\ UNCHANGED <<disk, issued, age, down, mgr, server, crashes>>

\* getConfig returns; NewServer fails, and the agent exits, when it got nothing.
GetConfigReturns(r) ==
  /\ ReaderStep(r, "done", IdleCall)
  /\ \/ /\ server = "priming" /\ rd[r].got = NoBundle
        /\ mgr' = [mgr EXCEPT !.pc = "fatal"]
        /\ server' = "off"
     \/ /\ server = "priming" => rd[r].got # NoBundle
        /\ server' = "serving"
        /\ UNCHANGED mgr
  /\ UNCHANGED <<disk, issued, age, down, cache, crashes>>

-----------------------------------------------------------------------------
(* The environment.                                                        *)

Exit ==
  /\ mgr' = Starting
  /\ server' = "off"
  /\ cache' = NoCache
  /\ rd' = [r \in Reader |-> IdleCall]
  /\ UNCHANGED <<disk, issued, age, down>>

Crash ==
  /\ crashes < MaxCrashes
  /\ crashes' = crashes + 1
  /\ Exit

\* The service is run with Restart=always.
Restart ==
  /\ mgr.pc = "fatal"
  /\ Exit
  /\ UNCHANGED crashes

\* The certificate on disk, and the one the manager takes for current, grow old.
\* The last generation stays fresh: it has no successor.
GrowsOld(g) ==
  /\ g < MaxGen /\ g \in {disk["cert"], mgr.current} /\ age[g] \in {"fresh", "due"}
  /\ age' = [age EXCEPT ![g] = IF age[g] = "fresh" THEN "due" ELSE "expired"]
  /\ UNCHANGED <<disk, issued, down, mgr, server, cache, rd, crashes>>

\* Vault or the disk fails or comes back.
Toggle(x) ==
  /\ down' = IF x \in down THEN down \ {x} ELSE down \cup {x}
  /\ UNCHANGED <<disk, issued, age, mgr, server, cache, rd, crashes>>

-----------------------------------------------------------------------------
ManagerStep == Start \/ rotationLoop \/ recoveryLoop \/ WriteKey \/ WriteCert \/ WriteCA

getConfig(r) ==
  \/ StatCert(r) \/ StatKey(r) \/ StatCA(r) \/ Check(r) \/ LoadCert(r) \/ LoadKey(r) \/ LoadCA(r)
  \/ Publish(r) \/ GetConfigReturns(r)

Next ==
  \/ ManagerStep
  \/ \E r \in Reader : getConfig(r)
  \/ Crash \/ Restart
  \/ \E g \in 0 .. MaxGen : GrowsOld(g)
  \/ \E x \in Outages : Toggle(x)

Spec == Init /\ [][Next]_vars

\* The manager's goroutine goes on, calls of getConfig return, and the service
\* manager restarts the agent.
Fairness ==
  /\ WF_vars(ManagerStep)
  /\ WF_vars(Restart)
  /\ \A r \in Reader : WF_vars(getConfig(r))

FairSpec == Spec /\ Fairness

-----------------------------------------------------------------------------
(* Properties.                                                             *)

\* As long as the modification times beside the cached configuration are those
\* on disk, so are its certificate, key and CA: the server never takes an old
\* configuration for the current one, however its calls race with the manager.
CacheFresh == cache.got # NoBundle /\ cache.mod = disk => cache.got = disk

\* A call of getConfig that found the files as they still are returns these
\* files, unless they hold a key without its certificate.
ServesCurrent ==
  \A r \in Reader :
    rd[r].pc = "done" /\ rd[r].mod = disk => rd[r].got = disk \/ disk["key"] # disk["cert"]

\* Once Vault and the disk stay in order, the server ends up with a certificate
\* that has not expired in a pair on disk, whatever crashes and failed writes
\* came before (unless the model has run out of bundles to issue).
Recovers ==
  <>[](down = {}) =>
    \/ <>(issued = MaxGen)
    \/ []<>(server = "serving" /\ manualCertAvailable /\ age[disk["cert"]] # "expired")
=============================================================================
