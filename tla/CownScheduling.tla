---------------------------- MODULE CownScheduling ----------------------------
(***************************************************************************)
(* What the scheduler promises about cowns, with no queues, tokens or      *)
(* stealing: a cown is asleep, ready, or executing on exactly one worker;  *)
(* only a ready cown is dispatched; a finished cown is ready again or      *)
(* asleep; a wake moves an asleep cown to ready.  WorkStealing implements  *)
(* this specification (its Refinement property).                           *)
(***************************************************************************)
CONSTANTS Workers, Cowns, None

VARIABLES
  asleep,      \* cowns whose message queue is sleeping
  ready,       \* cowns scheduled on some run queue or held for the next run
  executing    \* executing[w]: the cown worker w is running, or None

vars == <<asleep, ready, executing>>

Running == {executing[w] : w \in Workers} \ {None}

(***************************************************************************)
(* Every cown is in exactly one of the three states, and no two workers    *)
(* execute the same cown.                                                  *)
(***************************************************************************)
Partitioned ==
  /\ asleep \cup ready \cup Running = Cowns
  /\ asleep \cap ready = {} /\ asleep \cap Running = {} /\ ready \cap Running = {}
  /\ \A v, w \in Workers : v # w /\ executing[v] # None => executing[v] # executing[w]

Init ==
  /\ asleep = Cowns
  /\ ready = {}
  /\ executing = [w \in Workers |-> None]

\* A message to, or an external event for, an asleep cown schedules it.
Wake(a) ==
  /\ a \in asleep
  /\ asleep' = asleep \ {a}
  /\ ready' = ready \cup {a}
  /\ UNCHANGED executing

\* An idle worker starts running a ready cown.
Dispatch(w, a) ==
  /\ executing[w] = None /\ a \in ready
  /\ executing' = [executing EXCEPT ![w] = a]
  /\ ready' = ready \ {a}
  /\ UNCHANGED asleep

(***************************************************************************)
(* A run ends: the cown may have woken an asleep cown d, and is ready      *)
(* again if it has more messages, asleep otherwise.                        *)
(***************************************************************************)
Finish(w) ==
  LET a == executing[w] IN
  /\ a # None
  /\ \E d \in asleep \cup {None}, more \in BOOLEAN :
       /\ asleep' = (asleep \ {d}) \cup (IF more THEN {} ELSE {a})
       /\ ready' = (ready \cup ({d} \ {None})) \cup (IF more THEN {a} ELSE {})
  /\ executing' = [executing EXCEPT ![w] = None]

Next ==
  \/ \E a \in Cowns : Wake(a)
  \/ \E w \in Workers, a \in Cowns : Dispatch(w, a)
  \/ \E w \in Workers : Finish(w)

Spec == Init /\ [][Next]_vars

====
