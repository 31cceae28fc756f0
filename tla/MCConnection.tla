----------------------------- MODULE MCConnection -----------------------------
(* Instances of Connection small enough for TLC. *)
EXTENDS Connection

\* A frame leaves room for one unit of reliable data.
MCFrames  == {0, 1}
MCSizes   == 1 .. 4
MCBigInfo == {3}
MCInfo    == {1}
=============================================================================
