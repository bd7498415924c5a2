---------------------------- MODULE StoragePools ----------------------------
(***************************************************************************)
(* The storage pool manager (internal/storage/manager.go): pools with a    *)
(* capacity, a quota and a warning threshold, and the disks allocated from *)
(* them.  One mutex makes every operation a single step.  A call whose     *)
(* condition does not hold returns an error and changes nothing, so only   *)
(* the calls that succeed are actions.  Sizes are in GB.                   *)
(*                                                                         *)
(* Left out: the queries that return a pool or a disk as it is, names,     *)
(* paths, formats, labels and times.                                       *)
(***************************************************************************)
EXTENDS Integers, FiniteSets

CONSTANTS
  PoolName,    \* names of pools
  DiskID,      \* IDs of allocations, which the code takes from the clock
  Workload,    \* workloads that disks are attached to
  NoPool,      \* no pool of a name
  NoDisk,      \* no allocation of an ID
  Detached,    \* AttachedTo when it is empty
  SizeGB,      \* sizes that callers ask for
  Threshold,   \* warning thresholds they give, in percent
  Config       \* a pool's type and the settings that are not blank

Pool ==
  [total : Int, available : Int, allocated : Int, quota : Nat, threshold : 1..100,
   status : {"healthy", "warning"}]

DiskAllocation == [pool : PoolName, size : Nat \ {0}, attachedTo : Workload \cup {Detached}]

ASSUME PoolAssumption ==
  /\ SizeGB \subseteq Int
  /\ Threshold \subseteq Int
  /\ NoPool \notin Pool /\ NoDisk \notin DiskAllocation
  /\ Detached \notin Workload

VARIABLES
  pools,        \* the pool of each name
  allocations   \* the disk of each ID

poolvars == <<pools, allocations>>

\* The types of the variables.
PoolsTypeOK ==
  /\ pools \in [PoolName -> Pool \cup {NoPool}]
  /\ allocations \in [DiskID -> DiskAllocation \cup {NoDisk}]

PoolsInit ==
  /\ pools = [n \in PoolName |-> NoPool]
  /\ allocations = [d \in DiskID |-> NoDisk]

-----------------------------------------------------------------------------
(* Pools.                                                                  *)

RequiredConfig ==
  [local |-> {"path"}, nfs |-> {"server", "export"}, iscsi |-> {"target", "portal"},
   lvm |-> {"vg_name"}, gluster |-> {"volume"}]

validatePoolConfig(config) ==
  /\ config.type \in DOMAIN RequiredConfig
  /\ RequiredConfig[config.type] \subseteq config.set

defaultThreshold(t) == IF t <= 0 THEN 80 ELSE IF t > 100 THEN 100 ELSE t

\* What callers give, which the code does not check: they may hold back space, and
\* give no more as available than there is.
Sensible(total, available, quota) == available \in 0..total /\ quota >= 0

\* A pool given as full is taken for an empty one.
CreatePool(n, config, total, available, quota, threshold) ==
  /\ pools[n] = NoPool
  /\ total > 0
  /\ validatePoolConfig(config)
  /\ pools' = [pools EXCEPT ![n] =
       [total |-> total, available |-> IF available = 0 THEN total ELSE available, allocated |-> 0,
        quota |-> quota, threshold |-> defaultThreshold(threshold), status |-> "healthy"]]
  /\ UNCHANGED allocations

DeletePool(n) ==
  /\ pools[n] # NoPool
  /\ \A d \in DiskID : allocations[d] # NoDisk => allocations[d].pool # n
  /\ pools' = [pools EXCEPT ![n] = NoPool]
  /\ UNCHANGED allocations

\* Faulty variant, used only to see that a property notices: the space that is
\* given back counts as available, whatever is allocated.
ResizePoolGrows(n, newSize) ==
  /\ pools[n] # NoPool
  /\ newSize > pools[n].allocated
  /\ pools' = [pools EXCEPT ![n].total = newSize, ![n].available = newSize]
  /\ UNCHANGED allocations

\* The status stays as the last allocation left it.
ResizePool(n, newSize) ==
  /\ pools[n] # NoPool
  /\ newSize > pools[n].allocated
  /\ pools' = [pools EXCEPT ![n].total = newSize, ![n].available = newSize - pools[n].allocated]
  /\ UNCHANGED allocations

-----------------------------------------------------------------------------
(* Disks.                                                                  *)

\* The pool p once size more of it is allocated.
Take(p, size) ==
  [p EXCEPT !.available = @ - size,
            !.allocated = @ + size,
            !.status = IF ((p.allocated + size) * 100) \div p.total >= p.threshold
                       THEN "warning" ELSE "healthy"]

\* The pool p once size of it is released; its status stays.
Release(p, size) == [p EXCEPT !.available = @ + size, !.allocated = @ - size]

AllocateDisk(d, n, size) ==
  /\ pools[n] # NoPool
  /\ size > 0
  /\ size <= pools[n].available
  /\ pools[n].quota > 0 => pools[n].allocated + size <= pools[n].quota
  /\ allocations[d] = NoDisk
  /\ allocations' = [allocations EXCEPT ![d] = [pool |-> n, size |-> size, attachedTo |-> Detached]]
  /\ pools' = [pools EXCEPT ![n] = Take(@, size)]

\* Faulty variant, used only to see that a property notices: the space is given
\* back before the checks that may refuse.
FreeDiskEarly(d) ==
  LET disk == allocations[d] IN
  /\ disk # NoDisk /\ pools[disk.pool] # NoPool
  /\ pools' = [pools EXCEPT ![disk.pool] = Release(@, disk.size)]
  /\ allocations' = [allocations EXCEPT ![d] = IF disk.attachedTo = Detached THEN NoDisk ELSE @]

FreeDisk(d) ==
  LET disk == allocations[d] IN
  /\ disk # NoDisk /\ disk.attachedTo = Detached
  /\ pools[disk.pool] # NoPool
  /\ pools' = [pools EXCEPT ![disk.pool] = Release(@, disk.size)]
  /\ allocations' = [allocations EXCEPT ![d] = NoDisk]

AttachDisk(d, w) ==
  /\ allocations[d] # NoDisk /\ allocations[d].attachedTo = Detached
  /\ allocations' = [allocations EXCEPT ![d].attachedTo = w]
  /\ UNCHANGED pools

DetachDisk(d) ==
  /\ allocations[d] # NoDisk
  /\ allocations' = [allocations EXCEPT ![d].attachedTo = Detached]
  /\ UNCHANGED pools

PoolsNext ==
  \/ \E n \in PoolName : DeletePool(n)
  \/ \E n \in PoolName, config \in Config, total, available, quota \in SizeGB, t \in Threshold :
       Sensible(total, available, quota) /\ CreatePool(n, config, total, available, quota, t)
  \/ \E n \in PoolName, size \in SizeGB : ResizePool(n, size)
  \/ \E d \in DiskID, n \in PoolName, size \in SizeGB : AllocateDisk(d, n, size)
  \/ \E d \in DiskID : FreeDisk(d) \/ DetachDisk(d)
  \/ \E d \in DiskID, w \in Workload : AttachDisk(d, w)

PoolsSpec == PoolsInit /\ [][PoolsNext]_poolvars

-----------------------------------------------------------------------------
(* Queries.                                                                *)

ListAllocations(n) == {d \in DiskID : allocations[d] # NoDisk /\ allocations[d].pool = n}

\* Of a pool that exists; the utilization follows from the sizes.
GetPoolStats(n) ==
  [total |-> pools[n].total, available |-> pools[n].available, allocated |-> pools[n].allocated,
   count |-> Cardinality(ListAllocations(n))]

-----------------------------------------------------------------------------
(* Properties.                                                             *)

\* No pool promises more than it has: what is available and what is allocated
\* never exceed its size, nor what is allocated its quota, and what is available
\* never falls below zero, whatever the order of resizes, allocations and releases.
NotOversold ==
  \A n \in PoolName : pools[n] # NoPool =>
    /\ pools[n].available >= 0
    /\ pools[n].available + pools[n].allocated <= pools[n].total
    /\ pools[n].quota > 0 => pools[n].allocated <= pools[n].quota

\* The pool of a disk exists as long as the disk: FreeDisk never meets the error
\* after which the disk could not be released any more.
DiskHasPool == \A d \in DiskID : allocations[d] # NoDisk => pools[allocations[d].pool] # NoPool

\* The space of the disks of a pool, GB by GB.
AllocatedSpace(n) == UNION {{d} \X (1 .. allocations[d].size) : d \in ListAllocations(n)}

\* What GetPoolStats says is allocated is the sum of the disks that ListAllocations
\* finds, and it counts disks exactly when something is allocated.
Accounted ==
  \A n \in PoolName : pools[n] # NoPool =>
    LET stats == GetPoolStats(n)
    IN  /\ stats.allocated = Cardinality(AllocatedSpace(n))
        /\ stats.count = 0 <=> stats.allocated = 0
=============================================================================
