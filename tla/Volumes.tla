------------------------------ MODULE Volumes ------------------------------
(***************************************************************************)
(* Managed volumes: the storage providers (internal/storage/providers)     *)
(* behind the volume manager (internal/platform/storage.go), and the       *)
(* volume buckets of the state store (internal/state/bolt_volume.go).      *)
(* Each operator gives the outcomes a call may have on the volume x.       *)
(*                                                                         *)
(* A volume of the local driver is a directory that Provision makes and    *)
(* Delete removes; attaching it is free.  One of the NFS and Ceph drivers  *)
(* lives outside the node, and Attach makes a staging directory for each   *)
(* workload, which Detach removes.                                         *)
(***************************************************************************)
CONSTANTS
  Vol,           \* volume IDs, "driver:name"
  DriverOf,      \* the driver each volume asks for
  VolumeFaults   \* the calls that may fail: a subset of the names below

ASSUME VolumeAssumption ==
  /\ DriverOf \in [Vol -> {"local", "nfs", "ceph-rbd", "unknown"}]
  /\ VolumeFaults \subseteq {"provision", "attach", "detach", "remove"}

\* dir: the local directory exists.  stage: the workloads with a staging
\* directory.  rec: the handle in the store, by its retain policy.  att: the
\* workloads with an attachment in the store.
Volume(W) ==
  [dir : BOOLEAN, stage : SUBSET W, rec : {"none", "delete", "retain"}, att : SUBSET W]

NoVolume == [dir |-> FALSE, stage |-> {}, rec |-> "none", att |-> {}]

Done(x) == [ok |-> TRUE, vol |-> x]

VolumeFault(call, x) == IF call \in VolumeFaults THEN {[ok |-> FALSE, vol |-> x]} ELSE {}

-----------------------------------------------------------------------------
(* The providers.  A refused name, an incomplete configuration and a failed *)
(* system call look alike.  A staging directory has the volume's ID, which  *)
(* begins with the driver, in its name.                                     *)

LocalProvision(x) == {Done([x EXCEPT !.dir = TRUE])} \cup VolumeFault("provision", x)

LocalAttach(x, i) == {Done(x)}

LocalDetach(x, i) == {Done(x)}

LocalDelete(x) == {Done([x EXCEPT !.dir = FALSE])} \cup VolumeFault("remove", x)

NFSProvision(x) == {Done(x)} \cup VolumeFault("provision", x)

NFSAttach(x, i) == {Done([x EXCEPT !.stage = @ \cup {i}])} \cup VolumeFault("attach", x)

NFSDetach(x, i) == {Done([x EXCEPT !.stage = @ \ {i}])} \cup VolumeFault("detach", x)

NFSDelete(x) == {Done(x)}

CephRBDProvision(x) == {Done(x)} \cup VolumeFault("provision", x)

CephRBDAttach(x, i) == {Done([x EXCEPT !.stage = @ \cup {i}])} \cup VolumeFault("attach", x)

CephRBDDetach(x, i) == {Done([x EXCEPT !.stage = @ \ {i}])} \cup VolumeFault("detach", x)

CephRBDDelete(x) == {Done(x)}

-----------------------------------------------------------------------------
(* The volume manager finds the provider by driver.                        *)

StorageProviders == {"local", "nfs", "ceph-rbd"}

\* The outcomes at the provider of v, or an error when there is none.
ResolveProvider(v, x, local, nfs, ceph) ==
  CASE DriverOf[v] = "local" -> local
    [] DriverOf[v] = "nfs" -> nfs
    [] DriverOf[v] = "ceph-rbd" -> ceph
    [] DriverOf[v] \notin StorageProviders -> {[ok |-> FALSE, vol |-> x]}

Provision(v, x) == ResolveProvider(v, x, LocalProvision(x), NFSProvision(x), CephRBDProvision(x))

Attach(v, x, i) == ResolveProvider(v, x, LocalAttach(x, i), NFSAttach(x, i), CephRBDAttach(x, i))

\* The driver of an attachment is in its metadata.
Detach(v, x, i) == ResolveProvider(v, x, LocalDetach(x, i), NFSDetach(x, i), CephRBDDetach(x, i))

Destroy(v, x) == ResolveProvider(v, x, LocalDelete(x), NFSDelete(x), CephRBDDelete(x))

-----------------------------------------------------------------------------
(* The store.                                                              *)

SaveVolume(x, policy) == [x EXCEPT !.rec = policy]

\* The handle, of which the retain policy matters, or "none".
GetVolume(x) == x.rec

DeleteVolume(x) == [x EXCEPT !.rec = "none"]

SaveAttachment(x, i) == [x EXCEPT !.att = @ \cup {i}]

DeleteAttachment(x, i) == [x EXCEPT !.att = @ \ {i}]
=============================================================================
