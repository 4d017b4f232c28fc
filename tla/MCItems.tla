------------------------------ MODULE MCItems -------------------------------
(***************************************************************************)
(* Small instances of Items for TLC.                                       *)
(***************************************************************************)
EXTENDS Items

CONSTANT N   \* number of keys

Keys1toN == 1 .. N

(* Bounds on every key, and one beyond the keys at each side.              *)
Probes == 0 .. N + 1
=============================================================================
