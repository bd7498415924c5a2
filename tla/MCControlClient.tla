-------------------------- MODULE MCControlClient --------------------------
(* Instances of ControlClient for TLC. *)
EXTENDS ControlClient

\* No interval (the default of 10 seconds applies), and a short one.
MCIntervals == {0, 2}

\* Shorter than either interval, just long enough for the short one, and just
\* long enough for the default.
MCLeases == {1, 12, 20}
=============================================================================
