----------------------------- MODULE VMRuntime -----------------------------
(***************************************************************************)
(* The VM runtime (internal/runtime/vm.go) for one VM: the libvirt domain  *)
(* that bears the workload's ID, the disk images, the markers beside those *)
(* the agent made, and the cloud-init ISO.  The manager's lock keeps two   *)
(* calls for one VM apart, so there is one call at a time; each libvirt    *)
(* call, command or file operation is a step, between which the guest      *)
(* moves and the agent may crash.                                          *)
(*                                                                         *)
(* Left out: seedInfo and StatusMetadata, which are only reported, and     *)
(* images that two VMs name.                                               *)
(***************************************************************************)
EXTENDS Sequences

CONSTANTS
  VMRev,      \* revisions of the workload
  Disk,       \* disk paths
  Network,    \* those that diskSourceFromPath takes for rbd or nfs sources
  DisksOf,    \* the disks of each revision, in order
  SeedOf,     \* its cloud-init: "none", "empty", "valid" or "invalid"
  VMFaults    \* the calls that may fail

ASSUME VMAssumption ==
  /\ VMRev # {}
  /\ Network \subseteq Disk
  /\ DisksOf \in [VMRev -> Seq(Disk)]
  /\ SeedOf \in [VMRev -> {"none", "empty", "valid", "invalid"}]
  /\ VMFaults \subseteq {"lookup", "state", "deletestate", "start", "shutdown", "destroy", "define",
                         "undefine", "xml", "disk", "marker", "iso", "remove"}

VARIABLES
  dom,      \* the domain: its state, its revision, and whether it is defined
  file,     \* who made the image at each path: "agent", "user" or "none"
  marker,   \* the paths with a .persys-managed file beside them
  iso,      \* where <id>-cloud-init.iso exists: "images", "tmp"
  vmcall,   \* the call under way: where it stands, its revision, the disks to go
  vmcut,    \* history: a create or delete did not run to its end
  stopOk    \* history: Stop has reported success, and nothing was asked since

vmvars == <<dom, file, marker, iso, vmcall, vmcut, stopOk>>

Inactive == {"absent", "shutoff", "shutdown"}

DomainState == Inactive \cup {"nostate", "running", "paused", "blocked", "crashed", "suspended"}

VMPC ==
  {"idle", "seed", "disk", "mark", "shutdown", "grace", "force", "xml", "state", "destroy",
   "undefine", "clean", "unmark"}

NoDomain == [state |-> "absent", rev |-> CHOOSE r \in VMRev : TRUE, defined |-> FALSE]

VMIdle == [pc |-> "idle", rev |-> NoDomain.rev, todo |-> <<>>]

\* The types of the variables.
VMTypeOK ==
  /\ dom \in [state : DomainState, rev : VMRev, defined : BOOLEAN]
  /\ file \in [Disk -> {"agent", "user", "none"}]
  /\ marker \in SUBSET Disk
  /\ iso \in SUBSET {"images", "tmp"}
  /\ vmcall \in [pc : VMPC, rev : VMRev, todo : Seq(Disk)]
  /\ vmcut \in BOOLEAN /\ stopOk \in BOOLEAN

\* The user may have put images of their own where a spec points to.
VMInit ==
  /\ dom = NoDomain
  /\ file \in [Disk -> {"user", "none"}]
  /\ marker = {}
  /\ iso = {}
  /\ vmcall = VMIdle
  /\ vmcut = FALSE /\ stopOk = FALSE

Active == dom.state \notin Inactive

VMFault(call) == call \in VMFaults

\* A call returns; ended says whether it did what it was asked for.
VMReturn(ended) == vmcall' = VMIdle /\ vmcut' = (vmcut \/ ~ended)

Goto(pc) == vmcall' = [vmcall EXCEPT !.pc = pc] /\ UNCHANGED vmcut

-----------------------------------------------------------------------------
(* Create.                                                                 *)

\* createCloudInitISO makes no image of data that is empty, and refuses data that
\* is too large or holds a NUL.
createCloudInitISO(r) == IF SeedOf[r] = "valid" THEN "seed" ELSE "disk"

\* The manager deletes what it has recorded before it creates (manager.go:760,
\* :1232), and goes on when that fails.
VMCreate(r) ==
  /\ vmcall.pc = "idle"
  /\ dom.defined => vmcut
  /\ IF SeedOf[r] = "invalid"
     THEN UNCHANGED vmcall
     ELSE vmcall' = [pc |-> createCloudInitISO(r), rev |-> r, todo |-> DisksOf[r]]
  /\ stopOk' = FALSE
  /\ UNCHANGED <<dom, file, marker, iso, vmcut>>

\* mkisofs, into /tmp when the image directory cannot be made.
CreateSeed ==
  /\ vmcall.pc = "seed"
  /\ \/ /\ \E at \in {"images"} \cup IF VMFault("iso") THEN {"tmp"} ELSE {} : iso' = iso \cup {at}
        /\ Goto("disk")
     \/ VMFault("iso") /\ VMReturn(FALSE) /\ UNCHANGED iso
  /\ UNCHANGED <<dom, file, marker, stopOk>>

\* diskSourceFromPath: an rbd or nfs source is no file of the node.
isNetworkDiskPath(d) == d \in Network

NextDisk == vmcall' = [vmcall EXCEPT !.pc = "disk", !.todo = Tail(@)]

\* Faulty variant, used only to see that a property notices: an image that exists
\* is marked as the agent's.
createDiskMarks(d) ==
  /\ vmcall.pc = "disk" /\ vmcall.todo # <<>> /\ d = Head(vmcall.todo)
  /\ file' = [file EXCEPT ![d] = IF @ = "none" THEN "agent" ELSE @]
  /\ Goto("mark")
  /\ UNCHANGED <<dom, marker, iso, stopOk>>

\* createDisk: network sources and images that exist are left alone.  A qemu-img
\* that fails may leave an image behind.
createDisk(d) ==
  /\ vmcall.pc = "disk" /\ vmcall.todo # <<>> /\ d = Head(vmcall.todo)
  /\ \/ /\ isNetworkDiskPath(d) \/ file[d] # "none"
        /\ NextDisk
        /\ UNCHANGED <<file, vmcut>>
     \/ /\ ~isNetworkDiskPath(d) /\ file[d] = "none"
        /\ file' = [file EXCEPT ![d] = "agent"]
        /\ Goto("mark")
     \/ /\ ~isNetworkDiskPath(d) /\ file[d] = "none" /\ VMFault("disk")
        /\ \E left \in {"none", "agent"} : file' = [file EXCEPT ![d] = left]
        /\ VMReturn(FALSE)
  /\ UNCHANGED <<dom, marker, iso, stopOk>>

\* A marker that cannot be written is only logged.
CreateMark ==
  /\ vmcall.pc = "mark"
  /\ NextDisk
  /\ \/ marker' = marker \cup {Head(vmcall.todo)} /\ UNCHANGED vmcut
     \/ VMFault("marker") /\ vmcut' = TRUE /\ UNCHANGED marker
  /\ UNCHANGED <<dom, file, iso, stopOk>>

\* The domain that is described names the disks and the seed of the revision; one
\* that exists is defined anew and keeps its state.
generateDomainXML(r) ==
  [state |-> IF dom.state = "absent" THEN "shutoff" ELSE dom.state, rev |-> r, defined |-> TRUE]

\* DomainDefineXML.
CreateDefine ==
  /\ vmcall.pc = "disk" /\ vmcall.todo = <<>>
  /\ \/ /\ dom' = generateDomainXML(vmcall.rev)
        /\ VMReturn(TRUE)
     \/ VMFault("define") /\ VMReturn(FALSE) /\ UNCHANGED dom
  /\ UNCHANGED <<file, marker, iso, stopOk>>

-----------------------------------------------------------------------------
(* Start, Stop and Status.                                                 *)

\* DomainResume or DomainCreate; libvirt refuses to create a domain that is active.
VMStart ==
  /\ vmcall.pc = "idle"
  /\ \/ dom.state \in {"shutoff", "paused"} /\ dom' = [dom EXCEPT !.state = "running"]
     \/ dom.state \notin {"shutoff", "paused"} /\ UNCHANGED dom
     \/ VMFault("start") /\ UNCHANGED dom
  /\ stopOk' = FALSE
  /\ UNCHANGED <<file, marker, iso, vmcall, vmcut>>

\* Stop's first query: a domain that is absent or shut down needs nothing.
VMStop ==
  /\ vmcall.pc = "idle"
  /\ \/ dom.state \in Inactive /\ stopOk' = TRUE /\ UNCHANGED vmcall
     \/ dom.state \notin Inactive /\ vmcall' = [VMIdle EXCEPT !.pc = "shutdown"] /\ UNCHANGED stopOk
     \/ VMFaults \cap {"lookup", "state"} # {} /\ UNCHANGED <<vmcall, stopOk>>
  /\ UNCHANGED <<dom, file, marker, iso, vmcut>>

\* DomainShutdown only asks the guest.
StopShutdown ==
  /\ vmcall.pc = "shutdown"
  /\ \/ Goto("grace")
     \/ VMFault("shutdown") /\ Goto("force")
  /\ UNCHANGED <<dom, file, marker, iso, stopOk>>

\* A tick that finds the domain shut down.
StopPoll ==
  /\ vmcall.pc = "grace" /\ dom.state \in Inactive
  /\ stopOk' = TRUE
  /\ VMReturn(TRUE)
  /\ UNCHANGED <<dom, file, marker, iso>>

\* A tick that cannot tell ends the wait with an error.
StopPollFails ==
  /\ vmcall.pc = "grace" /\ VMFault("state")
  /\ VMReturn(TRUE)
  /\ UNCHANGED <<dom, file, marker, iso, stopOk>>

\* Faulty variants, used only to see that a property notices: the wait has no
\* deadline, or Stop takes the deadline for a shutdown.
StopExpiresNever ==
  /\ vmcall.pc = "grace" /\ dom.state \in Inactive
  /\ Goto("force")
  /\ UNCHANGED <<dom, file, marker, iso, stopOk>>

StopExpiresDone ==
  /\ vmcall.pc = "grace"
  /\ VMReturn(TRUE)
  /\ stopOk' = TRUE
  /\ UNCHANGED <<dom, file, marker, iso>>

\* The grace period, or the caller's context, is over.
StopExpires ==
  /\ vmcall.pc = "grace"
  /\ Goto("force")
  /\ UNCHANGED <<dom, file, marker, iso, stopOk>>

\* What is left of a domain whose process has ended.
Ended == IF dom.defined THEN [dom EXCEPT !.state = "shutoff"] ELSE NoDomain

\* DomainDestroy, which libvirt refuses when the guest has just shut itself down.
StopForce ==
  /\ vmcall.pc = "force"
  /\ \/ dom.state # "shutoff" /\ dom' = Ended /\ stopOk' = TRUE
     \/ (dom.state = "shutoff" \/ VMFault("destroy")) /\ UNCHANGED <<dom, stopOk>>
  /\ VMReturn(TRUE)
  /\ UNCHANGED <<file, marker, iso>>

\* Status: the state that the manager is told; a domain that is being shut down
\* counts as stopped.
DomainStatus(state) ==
  CASE state = "running" -> "Running"
    [] state \in {"paused", "blocked", "nostate"} -> "Pending"
    [] state \in {"shutdown", "shutoff"} -> "Stopped"
    [] state = "crashed" -> "Failed"
    [] OTHER -> "Unknown"

-----------------------------------------------------------------------------
(* Delete.                                                                 *)

\* A domain that is not found leaves only its ISO to remove.
VMDelete ==
  /\ vmcall.pc = "idle"
  /\ stopOk' = FALSE
  /\ \/ dom.state = "absent" /\ vmcall' = [VMIdle EXCEPT !.pc = "clean"] /\ UNCHANGED vmcut
     \/ dom.state # "absent" /\ vmcall' = [VMIdle EXCEPT !.pc = "xml"] /\ UNCHANGED vmcut
     \/ VMFault("lookup") /\ VMReturn(FALSE)
  /\ UNCHANGED <<dom, file, marker, iso>>

\* parseDiskSourceFilePaths: the disks that the domain's XML names as files.
SourceFiles(r) == {d \in Disk : ~isNetworkDiskPath(d) /\ \E i \in DOMAIN DisksOf[r] : DisksOf[r][i] = d}

\* The disks are read back from the XML.
DeleteXML ==
  /\ vmcall.pc = "xml"
  /\ \/ vmcall' = [vmcall EXCEPT !.pc = "state", !.todo = DisksOf[dom.rev]] /\ UNCHANGED vmcut
     \/ VMFault("xml") /\ vmcall' = [vmcall EXCEPT !.pc = "state"] /\ vmcut' = TRUE
  /\ UNCHANGED <<dom, file, marker, iso, stopOk>>

\* Faulty variant, used only to see that a property notices: a paused domain is
\* taken for one that is shut off.
DeleteStatePaused ==
  /\ vmcall.pc = "state"
  /\ Goto(IF dom.state \in Inactive \cup {"paused"} THEN "undefine" ELSE "destroy")
  /\ UNCHANGED <<dom, file, marker, iso, stopOk>>

\* A domain whose state cannot be read is not stopped.
DeleteState ==
  /\ vmcall.pc = "state"
  /\ \/ Goto(IF dom.state \in Inactive THEN "undefine" ELSE "destroy")
     \/ VMFault("deletestate") /\ Goto("undefine")
  /\ UNCHANGED <<dom, file, marker, iso, stopOk>>

DeleteDestroy ==
  /\ vmcall.pc = "destroy"
  /\ \/ dom.state # "shutoff" /\ dom' = Ended /\ Goto("undefine")
     \/ (dom.state = "shutoff" \/ VMFault("destroy")) /\ VMReturn(FALSE) /\ UNCHANGED dom
  /\ UNCHANGED <<file, marker, iso, stopOk>>

\* DomainUndefine: a domain with a process lives on until that ends.
DeleteUndefine ==
  /\ vmcall.pc = "undefine"
  /\ \/ /\ dom' = IF dom.state \in {"absent", "shutoff"} THEN NoDomain ELSE [dom EXCEPT !.defined = FALSE]
        /\ Goto("clean")
     \/ VMFault("undefine") /\ VMReturn(FALSE) /\ UNCHANGED dom
  /\ UNCHANGED <<file, marker, iso, stopOk>>

SkipDisk == vmcall' = [vmcall EXCEPT !.pc = "clean", !.todo = Tail(@)]

\* Faulty variant, used only to see that a property notices: the walk ends at the
\* first disk that is not managed.
cleanupDiskArtifactsStops(d) ==
  /\ vmcall.pc = "clean" /\ vmcall.todo # <<>> /\ d = Head(vmcall.todo)
  /\ IF d \in marker
     THEN file' = [file EXCEPT ![d] = "none"] /\ Goto("unmark")
     ELSE vmcall' = [vmcall EXCEPT !.todo = <<>>] /\ UNCHANGED <<file, vmcut>>
  /\ UNCHANGED <<dom, marker, iso, stopOk>>

\* Only a disk with a marker is removed; what cannot be removed is only logged.
cleanupDiskArtifacts(d) ==
  /\ vmcall.pc = "clean" /\ vmcall.todo # <<>> /\ d = Head(vmcall.todo)
  /\ \/ d \notin marker \ Network /\ SkipDisk /\ UNCHANGED <<file, vmcut>>
     \/ d \in marker \ Network /\ file' = [file EXCEPT ![d] = "none"] /\ Goto("unmark")
     \/ d \in marker \ Network /\ VMFault("remove") /\ SkipDisk /\ vmcut' = TRUE /\ UNCHANGED file
  /\ UNCHANGED <<dom, marker, iso, stopOk>>

CleanupMarker ==
  /\ vmcall.pc = "unmark"
  /\ SkipDisk
  /\ \/ marker' = marker \ {Head(vmcall.todo)} /\ UNCHANGED vmcut
     \/ VMFault("remove") /\ vmcut' = TRUE /\ UNCHANGED marker
  /\ UNCHANGED <<dom, file, iso, stopOk>>

cleanupDeterministicVMArtifacts ==
  /\ vmcall.pc = "clean" /\ vmcall.todo = <<>>
  /\ \/ iso' = {} /\ VMReturn(TRUE)
     \/ VMFault("remove") /\ VMReturn(FALSE) /\ UNCHANGED iso
  /\ UNCHANGED <<dom, file, marker, stopOk>>

-----------------------------------------------------------------------------
(* The guest, the user and the machine.                                    *)

\* A guest moves by itself while it has a process, and never starts by itself.
GuestMoves ==
  /\ Active \/ dom.state = "shutdown"
  /\ \/ Active /\ \E to \in DomainState \ {"absent", "shutoff"} : dom' = [dom EXCEPT !.state = to]
     \/ dom' = Ended
  /\ UNCHANGED <<file, marker, iso, vmcall, vmcut, stopOk>>

\* The user puts an image of their own where there is neither image nor marker.
UserImage(d) ==
  /\ file[d] = "none" /\ d \notin marker
  /\ file' = [file EXCEPT ![d] = "user"]
  /\ UNCHANGED <<dom, marker, iso, vmcall, vmcut, stopOk>>

\* The agent dies in the middle of a call.
VMCrash ==
  /\ vmcall.pc # "idle"
  /\ VMReturn(vmcall.pc \in {"shutdown", "grace", "force"})
  /\ UNCHANGED <<dom, file, marker, iso, stopOk>>

VMStep ==
  \/ CreateSeed \/ CreateMark \/ CreateDefine
  \/ StopShutdown \/ StopPoll \/ StopExpires \/ StopForce
  \/ DeleteXML \/ DeleteState \/ DeleteDestroy \/ DeleteUndefine
  \/ CleanupMarker \/ cleanupDeterministicVMArtifacts
  \/ \E d \in Disk : createDisk(d) \/ cleanupDiskArtifacts(d)

VMNext ==
  \/ \E r \in VMRev : VMCreate(r)
  \/ VMStart \/ VMStop \/ VMDelete
  \/ VMStep \/ StopPollFails
  \/ GuestMoves \/ VMCrash
  \/ \E d \in Disk : UserImage(d)

\* A call that runs goes on: libvirt and the commands answer, and the timer of
\* the grace period fires.  No failure is needed for that.
VMFairness == WF_vmvars(VMStep)

VMSpec == VMInit /\ [][VMNext]_vmvars /\ VMFairness

-----------------------------------------------------------------------------
(* Properties.                                                             *)

\* Whatever fails and wherever the agent crashes, an image that the user put on
\* the node is never overwritten by createDisk nor removed by
\* cleanupDiskArtifacts, for revisions that use it come and go.
UserDisksKept == [][\A d \in Disk : file[d] = "user" => file'[d] = "user"]_vmvars

\* Between calls, as long as each create and delete ran to its end, every image
\* and marker the agent made and every ISO belongs to a domain that is there: the
\* XML that Delete reads back names all that Create made.
NothingLeft ==
  vmcall.pc = "idle" /\ ~vmcut =>
    /\ \A d \in Disk : file[d] = "agent" \/ d \in marker =>
         dom.state # "absent" /\ d \in SourceFiles(dom.rev)
    /\ iso # {} => dom.state # "absent" /\ SeedOf[dom.rev] = "valid"

\* Delete removes no image from under a guest that still runs: "Force-stop any
\* active/paused domain before undefine" (vm.go:271).
DisksOutliveGuest ==
  [][\A d \in Disk : file[d] = "agent" /\ file'[d] = "none" /\ d \in SourceFiles(dom.rev) =>
       ~Active]_vmvars

\* Once Stop has reported success the domain is gone or reported as stopped, and
\* remains so until the manager asks for something else.
StaysStopped == stopOk => dom.state = "absent" \/ DomainStatus(dom.state) = "Stopped"

\* Every call returns, Stop with a guest that ignores the shutdown too.
VMCallReturns == vmcall.pc # "idle" ~> vmcall.pc = "idle"
=============================================================================
