---------------------------- MODULE LDCheckpoint ----------------------------
(***************************************************************************)
(* The local LD checkpoint of src/rt/sched/schedulerthread.h over the real *)
(* queue traffic of the dispatcher: enter_scan sets n_ld_tokens = 2, a     *)
(* worker that pops its own token counts it down (prerun,                  *)
(* dec_n_ld_tokens), and a queue holding nothing old resets it to 0 (the   *)
(* steal loop and the empty-queue reschedule path).  ld_checkpoint_reached *)
(* (n_ld_tokens = 0) is meant to say that every cown in the worker's queue *)
(* when it scanned has been dequeued since.                                *)
(*                                                                         *)
(* The dispatcher is WorkStealing, extended: each of its steps is taken    *)
(* together with its effect on n_ld_tokens.  The coordinator may move a    *)
(* worker into Scan at any ld_protocol call (a superset of what            *)
(* next_state permits), at most MaxScans times in all.                     *)
(***************************************************************************)
EXTENDS WorkStealing

CONSTANTS MaxScans   \* bound on enter_scan calls, over all workers

VARIABLES
  n_ld_tokens,  \* SchedulerThread::n_ld_tokens
  pending,      \* pending[c]: cowns in q[c] at c's last scan, not popped since
  once,         \* once[c]: cowns of that snapshot popped exactly once since
  scans_left

ldvars == <<n_ld_tokens, pending, once, scans_left>>
allvars == <<vars, ldvars>>

LDInit ==
  /\ Init
  /\ n_ld_tokens = [c \in Cores |-> 0]
  /\ pending = [c \in Cores |-> {}]
  /\ once = [c \in Cores |-> {}]
  /\ scans_left = MaxScans

-----------------------------------------------------------------------------
\* The cowns in core c's queue under queue function qq.
CownsIn(qq, c) == {a \in Cowns : Contains(qq[c], a)}

(***************************************************************************)
(* A cown leaves a queue only by being dequeued, and no step dequeues a    *)
(* cown and puts it back on the same queue, so a cown popped in this step  *)
(* is one that was in some queue and is not in it after the step.          *)
(***************************************************************************)
PoppedNow == {a \in Cowns : \E c \in Cores : Contains(q[c], a) /\ ~Contains(q'[c], a)}

(***************************************************************************)
(* The ghost bookkeeping of a step in which the workers in `scanned`       *)
(* called enter_scan before any dequeue of the step: their snapshot is     *)
(* their queue, then every cown popped in the step moves on one count.     *)
(***************************************************************************)
Track(scanned) ==
  LET p0(c) == IF c \in scanned THEN CownsIn(q, c) ELSE pending[c]
      o0(c) == IF c \in scanned THEN {} ELSE once[c]
  IN  /\ pending' = [c \in Cores |-> p0(c) \ PoppedNow]
      /\ once' = [c \in Cores |-> (o0(c) \ PoppedNow) \cup (p0(c) \cap PoppedNow)]

\* A step that leaves n_ld_tokens alone and scans nowhere.
Plain == Track({}) /\ UNCHANGED <<n_ld_tokens, scans_left>>

\* Fault model: enter_scan arms one token sighting instead of two.
EnterScanOneToken(w) ==
  /\ scans_left > 0
  /\ scans_left' = scans_left - 1
  /\ n_ld_tokens' = [n_ld_tokens EXCEPT ![w] = 1]
  /\ Track({w})

(***************************************************************************)
(* enter_scan, reached from ld_protocol when the coordinator moves w into  *)
(* Scan: core->scan(), n_ld_tokens = 2.                                    *)
(***************************************************************************)
EnterScan(w) ==
  /\ scans_left > 0
  /\ scans_left' = scans_left - 1
  /\ n_ld_tokens' = [n_ld_tokens EXCEPT ![w] = 2]
  /\ Track({w})

(***************************************************************************)
(* A call of ld_protocol by w with n_ld_tokens = k on entry: w stays out   *)
(* of Scan, or scans.                                                      *)
(***************************************************************************)
LDProtocol(w, k) ==
  \/ /\ n_ld_tokens' = [n_ld_tokens EXCEPT ![w] = k]
     /\ UNCHANGED scans_left
     /\ Track({})
  \/ EnterScan(w)

-----------------------------------------------------------------------------
(* The dispatcher's steps with their effect on n_ld_tokens.                *)

\* steal(): while running, reset the countdown if nothing is old, then
\* ld_protocol, then the local dequeue of StealLocal.
StealLocalLD(w) ==
  /\ StealLocal(w)
  /\ IF running[w] THEN LDProtocol(w, IF NothingOld(w) THEN 0 ELSE n_ld_tokens[w])
                   ELSE Plain

\* dec_n_ld_tokens: one sighting of the worker's own token is counted.
dec_n_ld_tokens(w) == [n_ld_tokens EXCEPT ![w] = @ - 1]

(***************************************************************************)
(* steal() pauses only in NotInLD (line 435).  A worker whose countdown is *)
(* armed has scanned and not yet voted, so it is inside LD and keeps       *)
(* spinning.                                                               *)
(***************************************************************************)
StealVictimLD(w) ==
  /\ StealVictim(w)
  /\ pc'[w] = "pause" => n_ld_tokens[w] = 0
  /\ Plain

\* Fault model: prerun counts any token sighting, not only its own token's.
PrerunTokenAnyLD(w) ==
  /\ PrerunToken(w)
  /\ n_ld_tokens' = [n_ld_tokens EXCEPT ![w] = IF @ > 0 THEN @ - 1 ELSE @]
  /\ Track({}) /\ UNCHANGED scans_left

\* prerun on a token: only the owning core's worker counts it down, and only
\* while the countdown is armed (dec_n_ld_tokens).
PrerunTokenLD(w) ==
  /\ PrerunToken(w)
  /\ n_ld_tokens' = IF cown[w].token = w /\ n_ld_tokens[w] > 0
                    THEN dec_n_ld_tokens(w) ELSE n_ld_tokens
  /\ Track({}) /\ UNCHANGED scans_left

\* prerun on a cown, then the scan hint and ld_protocol before run.
PrerunCownLD(w) == PrerunCown(w) /\ LDProtocol(w, n_ld_tokens[w])

(***************************************************************************)
(* The reschedule pop found the queue empty, so nothing_old() holds and    *)
(* n_ld_tokens = 0.  With a fair pool the check is made by ReschedStealLD, *)
(* the step that goes on to the fast_steal.                                *)
(***************************************************************************)
ReschedLD(w) ==
  /\ Resched(w)
  /\ n_ld_tokens' = [n_ld_tokens EXCEPT ![w] =
                       IF q[w] = <<>> /\ ~Fair THEN 0 ELSE @]
  /\ Track({}) /\ UNCHANGED scans_left

ReschedStealLD(w) ==
  /\ ReschedSteal(w)
  /\ n_ld_tokens' = [n_ld_tokens EXCEPT ![w] = IF NothingOld(w) THEN 0 ELSE @]
  /\ Track({}) /\ UNCHANGED scans_left

LDWorker(w) ==
  \/ FairnessSteal(w) /\ Plain
  \/ Dequeue(w) /\ Plain
  \/ StealLocalLD(w)
  \/ StealVictimLD(w)
  \/ Pause(w) /\ Plain
  \/ PrerunTokenLD(w)
  \/ PrerunCownLD(w)
  \/ Run(w) /\ Plain
  \/ ReschedLD(w)
  \/ ReschedPush(w) /\ Plain
  \/ ReschedStealLD(w)

LDNext ==
  \/ \E w \in Cores : LDWorker(w)
  \/ \E c \in Cores, a \in Cowns : ScheduleLifo(c, a) /\ Plain
  \/ \E w \in Cores : Stop(w) /\ Plain

LDSpec == LDInit /\ [][LDNext]_allvars

\* Each scheduler thread is an OS thread pinned to its own core: every step
\* it can take is eventually taken (as in WorkStealing's Spec).
LDLiveSpec == LDSpec /\ \A w \in Cores : WF_allvars(LDWorker(w))

-----------------------------------------------------------------------------
(***************************************************************************)
(* The checkpoint is sound: when a worker's countdown is at 0, every cown  *)
(* that was in its queue when it last called enter_scan has been dequeued  *)
(* since.  The first token sighting may be of a token that was ahead of    *)
(* those cowns, or in a thief's hands, which is why enter_scan arms two;   *)
(* a stolen token put back by a thief must not count, and nothing_old must *)
(* only reset the countdown when no old cown is queued.                    *)
(***************************************************************************)
CheckpointDrained ==
  \A w \in Cores : n_ld_tokens[w] = 0 => pending[w] = {}

(***************************************************************************)
(* What spec section 2 states: at the checkpoint every cown enqueued on    *)
(* the worker before the scan has been popped at least twice since.        *)
(***************************************************************************)
CheckpointPoppedTwice ==
  \A w \in Cores : n_ld_tokens[w] = 0 => pending[w] \cup once[w] = {}

(***************************************************************************)
(* The checkpoint is reached: a worker that has armed its countdown        *)
(* eventually brings it to 0, unless the pool is stopping (some worker's *)
(* running flag is cleared), whatever the other worker                   *)
(* does with its token.  Either its own token comes round again through    *)
(* the reschedule pop or a dequeue, or its queue runs dry and nothing_old  *)
(* resets the countdown.  This is what LeakDetector assumes when it makes  *)
(* the worker's own-token pass strongly fair.                              *)
(***************************************************************************)
CheckpointReached ==
  \A w \in Cores : n_ld_tokens[w] > 0 ~> (n_ld_tokens[w] = 0 \/ \E v \in Cores : ~running[v])

====
