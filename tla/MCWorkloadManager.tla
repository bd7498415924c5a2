------------------------- MODULE MCWorkloadManager -------------------------
(***************************************************************************)
(* WorkloadManager for TLC: the constants of its runs.                     *)
(***************************************************************************)
EXTENDS WorkloadManager

CONSTANTS w1, r1, r2, container, worker, loop, client, local, nfs, ceph

MCWId == {w1}
OneRev == {r1}
TwoRevs == {r1, r2}
OneType == {container}
MCOpProc == {worker}
MCRecProc == {loop}
MCGetProc == {client}

\* The first revision has a local volume to be deleted and an NFS volume to be
\* kept; the second wants the local one kept and has a Ceph volume.
MCVol == {local, nfs, ceph}
MCDriverOf == [v \in Vol |-> IF v = local THEN "local" ELSE IF v = nfs THEN "nfs" ELSE "ceph-rbd"]
MCVolumesOf ==
  [r \in Rev |-> IF r = r1 THEN <<[vol |-> local, policy |-> "delete"], [vol |-> nfs, policy |-> "retain"]>>
                 ELSE <<[vol |-> local, policy |-> "retain"], [vol |-> ceph, policy |-> "delete"]>>]
NoVolumes == [r \in Rev |-> <<>>]
=============================================================================
