------------------------- MODULE MCGarbageCollector -------------------------
(***************************************************************************)
(* GarbageCollector for TLC: the constants of its runs.                    *)
(***************************************************************************)
EXTENDS GarbageCollector

CONSTANTS w1, r1, container, worker

MCWId == {w1}
OneRev == {r1}
OneType == {container}
MCOpProc == {worker}
MCDriverOf == [v \in Vol |-> "local"]
NoVolumes == [r \in Rev |-> <<>>]
=============================================================================
