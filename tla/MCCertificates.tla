--------------------------- MODULE MCCertificates ---------------------------
(***************************************************************************)
(* Certificates for TLC: the constants of its run.                         *)
(***************************************************************************)
EXTENDS Certificates

CONSTANT h1

OneReader == {h1}
=============================================================================
