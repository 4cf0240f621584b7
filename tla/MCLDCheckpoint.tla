--------------------------- MODULE MCLDCheckpoint ---------------------------
(* Two cores and two cowns, so that a cown can sit behind the core's token *)
(* or behind another cown when the worker scans, and a thief can hold the  *)
(* token at that moment.                                                   *)
EXTENDS LDCheckpoint

CONSTANTS c1, c2

MCCowns == {c1, c2}
====
