----------------------------- MODULE LeakDetector -----------------------------
(***************************************************************************)
(* The worker side of the leak-detector (LD) protocol of                   *)
(* src/rt/sched/schedulerthread.h: want_ld, ld_protocol and its epoch      *)
(* bookkeeping (enter_prescan, enter_scan, n_ld_tokens,                    *)
(* scheduled_unscanned_cown), with the idle steal loop that pauses only    *)
(* outside LD.  The ThreadPool coordinator (next_state, pause, unpause,    *)
(* no_inflight_messages) is not part of this source tree: it is modelled   *)
(* from its specification as a barrier over the workers' LD states.        *)
(***************************************************************************)
EXTENDS Naturals, FiniteSets

CONSTANTS
  W,         \* number of scheduler threads
  MaxEnv     \* bound on environment events: unscanned schedules and sends

Workers == 1..W

\* EpochMark values.
EPOCH_A == "EPOCH_A"
EPOCH_B == "EPOCH_B"
EPOCH_NONE == "EPOCH_NONE"
Epochs == {EPOCH_A, EPOCH_B, EPOCH_NONE}

\* ThreadState::State values.
LDStates == {"NotInLD", "WantLD", "PreScan", "Scan", "AllInScan",
             "BelieveDone_Vote", "BelieveDone", "BelieveDone_Confirm",
             "BelieveDone_Retract", "ReallyDone_Confirm", "Sweep", "Finished"}

(***************************************************************************)
(* pc of a worker's scheduling loop around its ld_protocol calls:          *)
(*   "loop"     top of the run or steal loop, about to call ld_protocol;   *)
(*   "ld"       inside the while loop of ld_protocol;                      *)
(*   "sweep"    inside collect_cowns, called on entering Sweep;            *)
(*   "after"    ld_protocol has returned;                                  *)
(*   "pausing"  pause() called, not yet parked;                            *)
(*   "paused"   parked until an unpause.                                   *)
(***************************************************************************)
PCs == {"loop", "ld", "sweep", "after", "pausing", "paused"}

VARIABLES
  gstate,    \* the ThreadPool's global LD state
  t,         \* t[w]: the LD fields of SchedulerThread w
  pc,        \* pc[w]: where worker w is in its loop
  inflight,  \* NOT no_inflight_messages()
  env_left   \* environment events still allowed

vars == <<gstate, t, pc, inflight, env_left>>

Local == [state : LDStates, send_epoch : Epochs, prev_epoch : Epochs,
          n_ld_tokens : 0..2, scheduled_unscanned_cown : BOOLEAN]

TypeOK ==
  /\ gstate \in LDStates
  /\ t \in [Workers -> Local]
  /\ pc \in [Workers -> PCs]
  /\ inflight \in BOOLEAN
  /\ env_left \in 0..MaxEnv

Init ==
  /\ gstate = "NotInLD"
  /\ t = [w \in Workers |-> [state |-> "NotInLD", send_epoch |-> EPOCH_A,
          prev_epoch |-> EPOCH_B, n_ld_tokens |-> 0,
          scheduled_unscanned_cown |-> FALSE]]
  /\ pc = [w \in Workers |-> "loop"]
  /\ inflight = FALSE
  /\ env_left = MaxEnv

-----------------------------------------------------------------------------
(* The epoch bookkeeping of SchedulerThread, as functions of its fields.   *)

enter_prescan(r) ==
  [r EXCEPT !.prev_epoch = r.send_epoch, !.send_epoch = EPOCH_NONE]

\* Fault model: the new epoch is the opposite of send_epoch, not of the
\* epoch saved by enter_prescan.
enter_scan_from_send(r) ==
  [r EXCEPT !.send_epoch = IF r.send_epoch = EPOCH_B THEN EPOCH_A ELSE EPOCH_B,
            !.n_ld_tokens = 2,
            !.scheduled_unscanned_cown = FALSE]

enter_scan(r) ==
  [r EXCEPT !.send_epoch = IF r.prev_epoch = EPOCH_B THEN EPOCH_A ELSE EPOCH_B,
            !.n_ld_tokens = 2,
            !.scheduled_unscanned_cown = FALSE]

ld_checkpoint_reached(r) == r.n_ld_tokens = 0

-----------------------------------------------------------------------------
(***************************************************************************)
(* ThreadPool::next_state, from its specification: the global state       *)
(* advances when every worker has reached the state that the current      *)
(* phase waits for, and a worker may move to the state the global state   *)
(* permits it.                                                             *)
(***************************************************************************)
AllIn(S) == \A v \in Workers : t[v].state \in S

GlobalNext(sprev) ==
  CASE gstate = "NotInLD" /\ sprev = "WantLD" -> "PreScan"
    [] gstate = "PreScan" /\ AllIn({"PreScan"}) -> "Scan"
    [] gstate = "Scan" /\ AllIn({"Scan"}) -> "AllInScan"
    [] gstate = "AllInScan" /\ AllIn({"BelieveDone_Vote"}) -> "BelieveDone"
    [] gstate = "BelieveDone"
         /\ AllIn({"BelieveDone_Confirm", "BelieveDone_Retract"}) ->
         IF \E v \in Workers : t[v].state = "BelieveDone_Retract"
         THEN "Scan" ELSE "ReallyDone_Confirm"
    [] gstate = "ReallyDone_Confirm" /\ AllIn({"ReallyDone_Confirm"}) -> "Sweep"
    [] gstate = "Sweep" /\ AllIn({"Sweep"}) -> "Finished"
    [] gstate = "Finished" /\ AllIn({"Finished"}) -> "NotInLD"
    [] OTHER -> gstate

Permitted(sprev, g) ==
  CASE sprev \in {"NotInLD", "WantLD"} /\ g = "PreScan" -> "PreScan"
    [] sprev = "PreScan" /\ g \in {"Scan", "AllInScan"} -> g
    [] sprev = "Scan" /\ g = "AllInScan" -> "AllInScan"
    [] sprev = "BelieveDone_Vote" /\ g = "BelieveDone" -> "BelieveDone"
    [] sprev \in {"BelieveDone_Confirm", "BelieveDone_Retract"}
         /\ g \in {"Scan", "ReallyDone_Confirm"} -> g
    [] sprev = "ReallyDone_Confirm" /\ g = "Sweep" -> "Sweep"
    [] sprev = "Sweep" /\ g = "Finished" -> "Finished"
    [] sprev = "Finished" /\ g # "Finished" -> "NotInLD"
    [] OTHER -> sprev

\* ThreadPool::unpause wakes every parked worker; w itself moves to pcw.
UnpauseAnd(w, pcw) ==
  [v \in Workers |-> IF v = w THEN pcw
                     ELSE IF pc[v] = "paused" THEN "loop" ELSE pc[v]]

-----------------------------------------------------------------------------
(***************************************************************************)
(* What the worker did since its last ld_protocol call that the protocol   *)
(* reads: popped its own token cown (prerun, dec_n_ld_tokens), found its   *)
(* queue holding nothing old (steal loop, reschedule path), or is about to *)
(* run a cown whose epoch mark is not send_epoch (run loop scan hint).     *)
(***************************************************************************)
Events == {"token", "nothing_old", "unscanned", "none"}

Dispatched(r, ev) ==
  CASE ev = "token" -> [r EXCEPT !.n_ld_tokens = @ - 1]
    [] ev = "nothing_old" -> [r EXCEPT !.n_ld_tokens = 0]
    [] ev = "unscanned" -> [r EXCEPT !.scheduled_unscanned_cown = TRUE]
    [] ev = "none" -> r

\* The check at the top of ld_protocol, before its loop.
PreCheck(r) ==
  IF r.state = "AllInScan" /\ ld_checkpoint_reached(r)
  THEN IF ~r.scheduled_unscanned_cown /\ ~inflight
       THEN [r EXCEPT !.state = "BelieveDone_Vote"]
       ELSE enter_scan(r)
  ELSE r

(***************************************************************************)
(* The switch of ld_protocol on the state just entered from sprev.         *)
(* Sweep calls collect_cowns (pc "sweep", action Swept), whose effect on   *)
(* the cown registry is outside this module.                               *)
(***************************************************************************)
Entry(r, sprev) ==
  CASE r.state = "PreScan" -> enter_prescan(r)
    [] r.state = "Scan" ->
         enter_scan(IF sprev # "PreScan" THEN enter_prescan(r) ELSE r)
    [] r.state = "AllInScan" -> IF sprev = "PreScan" THEN enter_scan(r) ELSE r
    [] r.state = "BelieveDone" ->
         [r EXCEPT !.state = IF r.scheduled_unscanned_cown
                             THEN "BelieveDone_Retract"
                             ELSE "BelieveDone_Confirm"]
    [] OTHER -> r

\* The states whose case in the switch returns; all others continue.
Returns == {"PreScan", "Scan", "AllInScan"}

-----------------------------------------------------------------------------
(* Actions of worker w.                                                    *)

\* Fault model: prerun decrements n_ld_tokens without its "> 0" check.
EnterNoTokenGuard(w, ev) ==
  /\ pc[w] = "loop"
  /\ ev = "unscanned" => env_left > 0
  /\ t' = [t EXCEPT ![w] = PreCheck(Dispatched(@, ev))]
  /\ env_left' = IF ev = "unscanned" THEN env_left - 1 ELSE env_left
  /\ pc' = [pc EXCEPT ![w] = "ld"]
  /\ UNCHANGED <<gstate, inflight>>

\* A pass of the run or steal loop up to and including the entry check of
\* ld_protocol.
Enter(w, ev) ==
  /\ pc[w] = "loop"
  /\ ev = "token" => t[w].n_ld_tokens > 0
  /\ ev = "unscanned" => env_left > 0
  /\ t' = [t EXCEPT ![w] = PreCheck(Dispatched(@, ev))]
  /\ env_left' = IF ev = "unscanned" THEN env_left - 1 ELSE env_left
  /\ pc' = [pc EXCEPT ![w] = "ld"]
  /\ UNCHANGED <<gstate, inflight>>

\* Fault model: the PreScan -> PreScan self-transition does not unpause.
LDStepNoRetryUnpause(w) ==
  /\ pc[w] = "ld"
  /\ LET sprev == t[w].state
         g == GlobalNext(sprev)
         snext == Permitted(sprev, g)
     IN /\ gstate' = g
        /\ IF snext = sprev
           THEN /\ UNCHANGED t
                /\ pc' = [pc EXCEPT ![w] = "after"]
           ELSE /\ t' = [t EXCEPT ![w] = Entry([@ EXCEPT !.state = snext], sprev)]
                /\ pc' = CASE snext = "PreScan" -> UnpauseAnd(w, "after")
                           [] snext \in Returns -> [pc EXCEPT ![w] = "after"]
                           [] snext = "Sweep" -> [pc EXCEPT ![w] = "sweep"]
                           [] OTHER -> pc
  /\ UNCHANGED <<inflight, env_left>>

\* One iteration of the while loop of ld_protocol.
LDStep(w) ==
  /\ pc[w] = "ld"
  /\ LET sprev == t[w].state
         g == GlobalNext(sprev)
         snext == Permitted(sprev, g)
     IN /\ gstate' = g
        /\ IF snext = sprev
           THEN /\ UNCHANGED t
                /\ pc' = IF sprev = "PreScan" THEN UnpauseAnd(w, "after")
                         ELSE [pc EXCEPT ![w] = "after"]
           ELSE /\ t' = [t EXCEPT ![w] = Entry([@ EXCEPT !.state = snext], sprev)]
                /\ pc' = CASE snext = "PreScan" -> UnpauseAnd(w, "after")
                           [] snext \in Returns -> [pc EXCEPT ![w] = "after"]
                           [] snext = "Sweep" -> [pc EXCEPT ![w] = "sweep"]
                           [] OTHER -> pc
  /\ UNCHANGED <<inflight, env_left>>

\* collect_cowns (Core::try_collect with send_epoch) returns and the loop
\* continues.
Swept(w) ==
  /\ pc[w] = "sweep"
  /\ pc' = [pc EXCEPT ![w] = "ld"]
  /\ UNCHANGED <<gstate, t, inflight, env_left>>

\* The loop goes round again after ld_protocol returned.
Proceed(w) ==
  /\ pc[w] = "after"
  /\ pc' = [pc EXCEPT ![w] = "loop"]
  /\ UNCHANGED <<gstate, t, inflight, env_left>>

\* want_ld: a worker outside LD asks for a collection.
WantLD(w) ==
  /\ pc[w] = "after"
  /\ t[w].state = "NotInLD"
  /\ t' = [t EXCEPT ![w].state = "WantLD"]
  /\ pc' = [pc EXCEPT ![w] = "loop"]
  /\ UNCHANGED <<gstate, inflight, env_left>>

\* The steal loop found no work for its timeout and calls pause(), which it
\* does only outside LD.
Pause(w) ==
  /\ pc[w] = "after"
  /\ t[w].state = "NotInLD"
  /\ pc' = [pc EXCEPT ![w] = "pausing"]
  /\ UNCHANGED <<gstate, t, inflight, env_left>>

\* pause() parks the thread; an unpause before this point does not see it.
Park(w) ==
  /\ pc[w] = "pausing"
  /\ pc' = [pc EXCEPT ![w] = "paused"]
  /\ UNCHANGED <<gstate, t, inflight, env_left>>

Worker(w) ==
  \/ \E ev \in Events : Enter(w, ev)
  \/ LDStep(w)
  \/ Swept(w)
  \/ Proceed(w)
  \/ WantLD(w)
  \/ Pause(w)
  \/ Park(w)

-----------------------------------------------------------------------------
(* The environment.                                                        *)

\* A message is sent and not yet processed: no_inflight_messages() is false.
Send ==
  /\ ~inflight /\ env_left > 0
  /\ inflight' = TRUE
  /\ env_left' = env_left - 1
  /\ UNCHANGED <<gstate, t, pc>>

Deliver ==
  /\ inflight
  /\ inflight' = FALSE
  /\ UNCHANGED <<gstate, t, pc, env_left>>

\* Work arrives from outside the pool (schedule_lifo), whose unpause wakes a
\* parked worker.
ExternalWake(w) ==
  /\ pc[w] = "paused"
  /\ pc' = [pc EXCEPT ![w] = "loop"]
  /\ UNCHANGED <<gstate, t, inflight, env_left>>

Next ==
  \/ \E w \in Workers : Worker(w)
  \/ Send
  \/ Deliver
  \/ \E w \in Workers : ExternalWake(w)

(***************************************************************************)
(* Each worker thread keeps running its loop: a step it can take is        *)
(* eventually taken (weak fairness).  Nothing is assumed of which loop     *)
(* pass it takes, of message delivery, or of work arriving from outside.  *)
(***************************************************************************)
Spec ==
  /\ Init /\ [][Next]_vars
  /\ \A w \in Workers : WF_vars(Worker(w))

-----------------------------------------------------------------------------
(***************************************************************************)
(* Epoch agreement.  Every worker that is past the scan barrier of the     *)
(* current round (AllInScan up to Finished) sends with the same epoch, and *)
(* it is EPOCH_A or EPOCH_B: the sweep (collect_cowns with send_epoch) of  *)
(* every worker uses the mark every other worker scanned with.  Breaking   *)
(* it takes a rescan or a retraction on one worker only.                   *)
(***************************************************************************)
Settled == {"AllInScan", "BelieveDone_Vote", "BelieveDone",
            "BelieveDone_Confirm", "BelieveDone_Retract",
            "ReallyDone_Confirm", "Sweep", "Finished"}

EpochAgreement ==
  \A v, w \in Workers :
    t[v].state \in Settled /\ t[w].state \in Settled =>
      /\ t[v].send_epoch = t[w].send_epoch
      /\ t[v].send_epoch # EPOCH_NONE

(***************************************************************************)
(* The scan barrier is reached: once the coordinator is in PreScan, every  *)
(* worker eventually enters Scan and the global state moves to AllInScan.  *)
(* A worker may have parked in pause() just after the unpause that the    *)
(* move to PreScan made; only the unpause on the PreScan -> PreScan retry  *)
(* of ld_protocol wakes it, so without it the barrier waits for ever.     *)
(***************************************************************************)
ScanBarrierReached == gstate = "PreScan" ~> gstate = "AllInScan"

====
