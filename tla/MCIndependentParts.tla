------------------------- MODULE MCIndependentParts -------------------------
(***************************************************************************)
(* Four parts of the agent that share no state: the VM runtime, the        *)
(* compose runtime, the storage pools and the status queries.  A behaviour *)
(* exercises one of them, which its first state chooses, so the states add *)
(* up instead of multiplying.                                              *)
(***************************************************************************)
EXTENDS VMRuntime, ComposeRuntime, StoragePools, StatusQueries, TLC

CONSTANTS v1, v2, v3, d1, d2, n1, c1, c2, c3, web, db, queue, p1, p2, s1, s2

VARIABLE part   \* the component of this behaviour

vars == <<vmvars, cvars, poolvars, qvars, part>>

\* Two disks and a seed, one of those disks alone, and data that is refused.
VMDisks == v1 :> <<d1, d2, n1>> @@ v2 :> <<d2>> @@ v3 :> <<>>

VMSeeds == v1 :> "valid" @@ v2 :> "empty" @@ v3 :> "invalid"

\* Two services with variables, one of them and another without, and a payload
\* that is refused.
Services == c1 :> {web, db} @@ c2 :> {web, queue} @@ c3 :> {db}

Payloads == c1 :> "base64" @@ c2 :> "inline" @@ c3 :> "invalid"

\* A pool that is complete, one that lacks a setting, one of no known type.
Configs ==
  {[type |-> "local", set |-> {"path"}], [type |-> "nfs", set |-> {"server"}],
   [type |-> "zfs", set |-> {"path"}]}

\* An apply and a delete of one workload, and an apply of another.
Requests ==
  <<[of |-> s1, type |-> "apply"], [of |-> s1, type |-> "delete"], [of |-> s2, type |-> "apply"]>>

Init ==
  /\ VMInit /\ ComposeInit /\ PoolsInit /\ QueryInit
  /\ part \in {"vm", "compose", "pools", "queries"}
  /\ part # "vm" => \A d \in Disk : file[d] = "none"

VMs == part = "vm" /\ UNCHANGED <<cvars, poolvars, qvars, part>>

Projs == part = "compose" /\ UNCHANGED <<vmvars, poolvars, qvars, part>>

Pools == part = "pools" /\ UNCHANGED <<vmvars, cvars, qvars, part>>

Queries == part = "queries" /\ UNCHANGED <<vmvars, cvars, poolvars, part>>

\* VMNext, ComposeNext, PoolsNext and QueryNext, action by action.
Next ==
  \/ VMs /\ \E r \in VMRev : VMCreate(r)
  \/ VMs /\ CreateSeed
  \/ VMs /\ \E d \in Disk : createDisk(d)
  \/ VMs /\ CreateMark
  \/ VMs /\ CreateDefine
  \/ VMs /\ VMStart
  \/ VMs /\ VMStop
  \/ VMs /\ StopShutdown
  \/ VMs /\ StopPoll
  \/ VMs /\ StopPollFails
  \/ VMs /\ StopExpires
  \/ VMs /\ StopForce
  \/ VMs /\ VMDelete
  \/ VMs /\ DeleteXML
  \/ VMs /\ DeleteState
  \/ VMs /\ DeleteDestroy
  \/ VMs /\ DeleteUndefine
  \/ VMs /\ \E d \in Disk : cleanupDiskArtifacts(d)
  \/ VMs /\ CleanupMarker
  \/ VMs /\ cleanupDeterministicVMArtifacts
  \/ VMs /\ GuestMoves
  \/ VMs /\ VMCrash
  \/ VMs /\ \E d \in Disk : UserImage(d)
  \/ Projs /\ \E r \in ComposeRev : ComposeCreate(r)
  \/ Projs /\ CreateDirectory
  \/ Projs /\ CreateYAML
  \/ Projs /\ CreateEnv
  \/ Projs /\ ComposeStart
  \/ Projs /\ ComposeStop
  \/ Projs /\ ComposeDelete
  \/ Projs /\ DeleteDown
  \/ Projs /\ DeleteDirectory
  \/ Projs /\ ContainerExits
  \/ Projs /\ ComposeCrash
  \/ Pools /\ \E n \in PoolName : DeletePool(n)
  \/ Pools /\ \E n \in PoolName, config \in Config, total, available, quota \in SizeGB, t \in Threshold :
                Sensible(total, available, quota) /\ CreatePool(n, config, total, available, quota, t)
  \/ Pools /\ \E n \in PoolName, size \in SizeGB : ResizePool(n, size)
  \/ Pools /\ \E d \in DiskID, n \in PoolName, size \in SizeGB : AllocateDisk(d, n, size)
  \/ Pools /\ \E d \in DiskID : FreeDisk(d)
  \/ Pools /\ \E d \in DiskID : DetachDisk(d)
  \/ Pools /\ \E d \in DiskID, w \in Workload : AttachDisk(d, w)
  \/ Queries /\ \E t \in Op : Offer(t)
  \/ Queries /\ \E t \in Op : Accepted(t)
  \/ Queries /\ \E t \in Op : Refused(t)
  \/ Queries /\ \E t \in Op : Begins(t)
  \/ Queries /\ \E t \in Op : NoHandler(t)
  \/ Queries /\ \E t \in Op : Persist(t)
  \/ Queries /\ \E t \in Op : Ends(t)
  \/ Queries /\ \E t \in Op : Cleanup(t)
  \/ Queries /\ \E w \in Subject : GetWorkloadStatus(w)
  \/ Queries /\ GetWorkloadStatusTasks

Spec == Init /\ [][Next]_vars /\ VMFairness
=============================================================================
