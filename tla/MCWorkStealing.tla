--------------------------- MODULE MCWorkStealing ---------------------------
(* Two cores and two cowns: enough for a steal from a paused worker's      *)
(* queue, a token stolen by the other core, and a cown woken while another *)
(* runs.                                                                   *)
EXTENDS WorkStealing

CONSTANTS c1, c2

MCCowns == {c1, c2}
====
