--------------------------- MODULE ComposeRuntime ---------------------------
(***************************************************************************)
(* The compose runtime (internal/runtime/compose.go) for one project: the  *)
(* directory <workDir>/<id> with its docker-compose.yml and .env, and the  *)
(* containers that the compose command makes of them.  The manager's lock  *)
(* keeps two calls for one project apart; each write and each command is a *)
(* step, between which containers exit and the agent may crash.  Services  *)
(* and environments are abstract: a file is known by the revision it is    *)
(* of.                                                                     *)
(***************************************************************************)
EXTENDS FiniteSets

CONSTANTS
  ComposeRev,      \* revisions of the workload
  Service,         \* services of its compose files
  ServicesOf,      \* those of each revision
  HasEnv,          \* the revisions that give environment variables
  PayloadOf,       \* what decodeComposeYAMLPayload makes of each: "base64", "inline" or "invalid"
  ComposeFaults    \* the commands and file operations that may fail

ASSUME ComposeAssumption ==
  /\ IsFiniteSet(Service)
  /\ ServicesOf \in [ComposeRev -> (SUBSET Service) \ {{}}]
  /\ HasEnv \subseteq ComposeRev
  /\ PayloadOf \in [ComposeRev -> {"base64", "inline", "invalid"}]
  /\ "none" \notin ComposeRev
  /\ ComposeFaults \subseteq {"write", "up", "stop", "down", "remove"}

VARIABLES
  project,     \* the directory: whether it exists, the revisions of its two files
  containers,  \* the project's containers: service, revision, environment, whether up
  ccall,       \* the call under way: where it stands, its revision
  ccut         \* history: a call did not run to its end

cvars == <<project, containers, ccall, ccut>>

RevOrNone == ComposeRev \cup {"none"}

NoProject == [exists |-> FALSE, yml |-> "none", env |-> "none"]

ComposeIdle == [pc |-> "idle", rev |-> "none"]

ComposeInit ==
  /\ project = NoProject
  /\ containers = {}
  /\ ccall = ComposeIdle
  /\ ccut = FALSE

ComposeFault(op) == op \in ComposeFaults

CReturn(ended) == ccall' = ComposeIdle /\ ccut' = (ccut \/ ~ended)

CGoto(pc) == ccall' = [ccall EXCEPT !.pc = pc] /\ UNCHANGED ccut

-----------------------------------------------------------------------------
(* Create, Start, Stop.                                                    *)

\* A payload is base64 or plain YAML; anything else is refused.
decodeComposeYAMLPayload(r) == PayloadOf[r] \in {"base64", "inline"}

\* The manager deletes what it has recorded before it creates (manager.go:760,
\* :1232), and goes on when that fails.  A payload that cannot be decoded ends the
\* call.
ComposeCreate(r) ==
  /\ ccall.pc = "idle"
  /\ containers = {}
  /\ project.yml # "none" => ccut
  /\ decodeComposeYAMLPayload(r)
  /\ ccall' = [pc |-> "mkdir", rev |-> r]
  /\ UNCHANGED <<project, containers, ccut>>

CreateDirectory ==
  /\ ccall.pc = "mkdir"
  /\ \/ project' = [project EXCEPT !.exists = TRUE] /\ CGoto("yml")
     \/ ComposeFault("write") /\ CReturn(FALSE) /\ UNCHANGED project
  /\ UNCHANGED containers

\* A write that fails leaves the old file or a broken one.
CreateYAML ==
  /\ ccall.pc = "yml"
  /\ \/ project' = [project EXCEPT !.yml = ccall.rev] /\ CGoto("env")
     \/ /\ ComposeFault("write")
        /\ \E left \in {project.yml, "none"} : project' = [project EXCEPT !.yml = left]
        /\ CReturn(FALSE)
  /\ UNCHANGED containers

\* Without variables of its own the revision gets whatever .env there is.
CreateEnv ==
  /\ ccall.pc = "env"
  /\ \/ /\ project' = [project EXCEPT !.env = IF ccall.rev \in HasEnv THEN ccall.rev ELSE @]
        /\ CReturn(TRUE)
     \/ /\ ccall.rev \in HasEnv /\ ComposeFault("write")
        /\ \E left \in {project.env, "none"} : project' = [project EXCEPT !.env = left]
        /\ CReturn(FALSE)
  /\ UNCHANGED containers

\* The compose command runs in the directory and needs its file.
Ready == project.exists /\ project.yml # "none"

Declared == ServicesOf[project.yml]

\* The containers once those of the services made are as the files say, and those
\* of the services started run.
Made(made, started) ==
  {c \in containers : c.svc \notin made} \cup
  {[svc |-> s, rev |-> project.yml, env |-> project.env, up |-> s \in started] : s \in made}

\* up -d; when it fails some containers may have been made, and some started.
ComposeStart ==
  /\ ccall.pc = "idle" /\ Ready
  /\ \/ containers' = Made(Declared, Declared) /\ UNCHANGED ccut
     \/ /\ ComposeFault("up")
        /\ \E made \in SUBSET Declared : \E started \in SUBSET made : containers' = Made(made, started)
        /\ ccut' = TRUE
  /\ UNCHANGED <<project, ccall>>

ComposeStop ==
  /\ ccall.pc = "idle" /\ Ready
  /\ \E stopped \in IF ComposeFault("stop") THEN SUBSET Declared ELSE {Declared} :
       containers' = {[c EXCEPT !.up = @ /\ c.svc \notin stopped] : c \in containers}
  /\ UNCHANGED <<project, ccall, ccut>>

-----------------------------------------------------------------------------
(* Delete.                                                                 *)

\* Faulty variants, used only to see that a property notices: the directory goes
\* before the containers, and only the compose file is removed.
ComposeDeleteDirFirst ==
  /\ ccall.pc = "idle"
  /\ project' = NoProject
  /\ CGoto("down")
  /\ UNCHANGED containers

DeleteDirectoryFile ==
  /\ ccall.pc = "rmdir"
  /\ project' = [project EXCEPT !.yml = "none"]
  /\ CReturn(TRUE)
  /\ UNCHANGED containers

ComposeDelete ==
  /\ ccall.pc = "idle"
  /\ CGoto("down")
  /\ UNCHANGED <<project, containers>>

\* down -v removes what the file declares; when it cannot, that is only logged.
DeleteDown ==
  /\ ccall.pc = "down"
  /\ ccall' = [ccall EXCEPT !.pc = "rmdir"]
  /\ \/ Ready /\ containers' = {c \in containers : c.svc \notin Declared} /\ UNCHANGED ccut
     \/ ~Ready /\ UNCHANGED <<containers, ccut>>
     \/ /\ Ready /\ ComposeFault("down")
        /\ \E left \in SUBSET containers : containers' = left
        /\ ccut' = TRUE
  /\ UNCHANGED project

\* RemoveAll; when it fails some of the files may be gone.
DeleteDirectory ==
  /\ ccall.pc = "rmdir"
  /\ \/ project' = NoProject /\ CReturn(TRUE)
     \/ /\ ComposeFault("remove") /\ project.exists
        /\ \E yml \in {project.yml, "none"}, env \in {project.env, "none"} :
             project' = [exists |-> TRUE, yml |-> yml, env |-> env]
        /\ CReturn(FALSE)
  /\ UNCHANGED containers

-----------------------------------------------------------------------------
(* Status and List.                                                        *)

\* Faulty variant, used only to see that a property notices: an empty answer of
\* the compose command is believed.
ListedNoFallback(cli, docker, ids) == IF cli = "empty" THEN {} ELSE ids

\* What the two queries end with, when the compose command answers both exactly,
\* with nothing or with an error, and docker exactly or with an error.
Listed(cli, docker, ids) == IF cli = "empty" /\ docker = "error" THEN {} ELSE ids

Status(cli, docker) ==
  LET all == Listed(cli, docker, containers)
      running == Listed(cli, docker, {c \in containers : c.up})
  IN CASE ~project.exists -> "NotFound"
       [] project.exists /\ cli = "error" /\ docker = "error" -> "Error"
       [] OTHER -> IF running = {} THEN "Stopped"
                   ELSE IF Cardinality(running) = Cardinality(all) THEN "Running" ELSE "Pending"

\* List: the directories are the projects.
Projects == IF project.exists THEN {project} ELSE {}

-----------------------------------------------------------------------------
(* The containers and the machine.                                         *)

ContainerExits ==
  /\ \E c \in containers :
       c.up /\ containers' = (containers \ {c}) \cup {[c EXCEPT !.up = FALSE]}
  /\ UNCHANGED <<project, ccall, ccut>>

ComposeCrash ==
  /\ ccall.pc # "idle"
  /\ CReturn(FALSE)
  /\ UNCHANGED <<project, containers>>

ComposeNext ==
  \/ \E r \in ComposeRev : ComposeCreate(r)
  \/ CreateDirectory \/ CreateYAML \/ CreateEnv
  \/ ComposeStart \/ ComposeStop
  \/ ComposeDelete \/ DeleteDown \/ DeleteDirectory
  \/ ContainerExits \/ ComposeCrash

ComposeSpec == ComposeInit /\ [][ComposeNext]_cvars

-----------------------------------------------------------------------------
(* Properties.                                                             *)

\* A project that has containers has its directory, wherever the agent crashed
\* and whatever failed but down: List, and with it the search for orphans, and
\* Status find projects by their directories alone.
ContainersListed == containers # {} => Projects # {}

\* While docker answers, Status says Running only when every container runs and,
\* unless a call was cut short, every service of the file has one; it says
\* Stopped only when none runs, an empty answer of the compose command
\* notwithstanding ("to avoid false Stopped when containers are actually up",
\* compose.go:175).
StatusTruthful ==
  \A cli \in IF Ready THEN {"exact", "empty", "error"} ELSE {"error"} :
    /\ Status(cli, "exact") = "Running" =>
         /\ \A c \in containers : c.up
         /\ ~ccut /\ ccall.pc = "idle" => \A s \in Declared : \E c \in containers : c.svc = s
    /\ Status(cli, "exact") = "Stopped" => \A c \in containers : ~c.up

\* Unless a call was cut short, a container has the environment of its own
\* revision, or none: the .env of a revision that is gone went with the directory.
EnvironmentOfRevision ==
  ~ccut => \A c \in containers : c.env = IF c.rev \in HasEnv THEN c.rev ELSE "none"
=============================================================================
