----------------------------- MODULE WorkStealing -----------------------------
(***************************************************************************)
(* The work-stealing dispatcher of SchedulerThread<T>                      *)
(* (src/src/rt/sched/schedulerthread.h): the main loop of run_inner, the   *)
(* fairness and blocking steals, prerun (token handling and registration), *)
(* the peek-then-swap reschedule policy, schedule_fifo / schedule_lifo and *)
(* the pause / unpause / stop handshake with the ThreadPool.               *)
(*                                                                         *)
(* One scheduler thread services each Core, so workers and cores share the *)
(* index set Cores = 1..W and core w's ring successor is NextCore(w).      *)
(*                                                                         *)
(* This module is the dispatcher with the leak detector idle and no stub   *)
(* free: no worker ever calls want_ld, so Scheduler::next_state keeps every *)
(* worker in NotInLD and ld_protocol() changes nothing; no cown's weak     *)
(* count drops to zero, so free_cowns = 0 and the guard of the stub        *)
(* collection at the top of the loop (total_cowns < free_cowns << 1) is    *)
(* false.  Both are sub-behaviours of the program, not approximations.     *)
(***************************************************************************)
EXTENDS Naturals, Sequences, FiniteSets, SequencesExt

CONSTANTS
  W,          \* number of cores, each serviced by one SchedulerThread
  Cowns,      \* the (non-token) cowns, model values
  Fair,       \* ThreadPool::fair
  None,       \* nullptr
  MaxLifo     \* bound on external schedule_lifo wakes

ASSUME W \in Nat \ {0} /\ Fair \in BOOLEAN /\ None \notin Cowns
ASSUME MaxLifo \in Nat

Cores == 1..W

\* Core::next: the ring of cores used for victim rotation.
NextCore(c) == IF c = W THEN 1 ELSE c + 1

(***************************************************************************)
(* Core::token_cown enqueued with the thread bit set.  A token is told     *)
(* apart from a cown by has_thread_bit; its owning_core is its Core.       *)
(***************************************************************************)
Token(c) == [token |-> c]
Tokens == {Token(c) : c \in Cores}
Items == Cowns \cup Tokens

has_thread_bit(x) == x \in Tokens

\* The token cown itself, its pointer without the thread bit.
clear_thread_bit(x) == [token_cown |-> x.token]

\* Program counter of a scheduler thread: where in run_inner / steal it is.
PCs == {"loop", "deq", "steal", "steal_victim", "pause", "paused",
        "prerun", "run", "resched", "resched_push", "resched_steal", "done"}

VARIABLES
  q,                         \* Core::q, per core: the MPMC run queue
  cown,                      \* the local `cown` slot of run_inner
  n,                         \* the local `n` of the reschedule pop (262)
  pc,
  victim,                    \* SchedulerThread::victim
  should_steal_for_fairness,
  running,                   \* SchedulerThread::running
  sleeping,                  \* cown->queue.is_sleeping()
  owning_core,               \* cown->owning_core()
  cowns,                     \* Core::cowns, the registry (add_cown)
  total_cowns,               \* Core::total_cowns
  lifo_left                  \* external wakes still allowed (environment)

vars == <<q, cown, n, pc, victim, should_steal_for_fairness, running,
          sleeping, owning_core, cowns, total_cowns, lifo_left>>

TypeOK ==
  /\ q \in [Cores -> Seq(Items)]
  /\ cown \in [Cores -> Items \cup {None}]
  /\ n \in [Cores -> Items \cup {None}]
  /\ pc \in [Cores -> PCs]
  /\ victim \in [Cores -> Cores]
  /\ should_steal_for_fairness \in [Cores -> BOOLEAN]
  /\ running \in [Cores -> BOOLEAN]
  /\ sleeping \in [Cowns -> BOOLEAN]
  /\ owning_core \in [Cowns -> Cores \cup {None}]
  /\ cowns \in [Cores -> SUBSET Cowns]
  /\ total_cowns \in [Cores -> Nat]
  /\ lifo_left \in 0..MaxLifo

(***************************************************************************)
(* Core construction: each queue holds the core's token; every cown is     *)
(* sleeping and unregistered.  run_inner sets victim = core->next.         *)
(***************************************************************************)
Init ==
  /\ q = [c \in Cores |-> <<Token(c)>>]
  /\ cown = [w \in Cores |-> None]
  /\ n = [w \in Cores |-> None]
  /\ pc = [w \in Cores |-> "loop"]
  /\ victim = [w \in Cores |-> NextCore(w)]
  /\ should_steal_for_fairness = [w \in Cores |-> FALSE]
  /\ running = [w \in Cores |-> TRUE]
  /\ sleeping = [a \in Cowns |-> TRUE]
  /\ owning_core = [a \in Cowns |-> None]
  /\ cowns = [c \in Cores |-> {}]
  /\ total_cowns = [c \in Cores |-> 0]
  /\ lifo_left = MaxLifo

-----------------------------------------------------------------------------
(* Helpers on the queues and the ThreadPool.                               *)

(***************************************************************************)
(* MPMCQ::nothing_old: no cown that was enqueued before the core's token   *)
(* is still in the queue, i.e. only tokens precede the token (the whole    *)
(* queue is inspected when the token is not in it).                        *)
(***************************************************************************)
NothingOld(c) ==
  LET t == SelectInSeq(q[c], LAMBDA x : x = Token(c))
      k == IF t = 0 THEN Len(q[c]) ELSE t - 1
  IN  \A i \in 1..k : has_thread_bit(q[c][i])

\* ThreadPool::unpause: every paused thread is woken and resumes steal().
Unpaused == [x \in Cores |-> IF pc[x] = "paused" THEN "steal" ELSE pc[x]]

(***************************************************************************)
(* schedule_fifo's queue effect: append to this core's queue (its unpause  *)
(* is Unpaused, applied by the caller; the unscanned-cown flag belongs to  *)
(* the leak detector and is constant here).                                *)
(***************************************************************************)
schedule_fifo(w, xs) == [q EXCEPT ![w] = @ \o xs]

\* fast_steal / steal: the victim is another core with a non-empty queue.
Stealable(w) == victim[w] # w /\ q[victim[w]] # <<>>

-----------------------------------------------------------------------------
(* Steps of run_inner.                                                     *)

(***************************************************************************)
(* Top of the loop with should_steal_for_fairness set and no cown held:    *)
(* clear the flag and fast_steal once.  On failure victim moves on.        *)
(***************************************************************************)
FairnessSteal(w) ==
  /\ pc[w] = "loop"
  /\ should_steal_for_fairness[w] /\ cown[w] = None
  /\ should_steal_for_fairness' = [should_steal_for_fairness EXCEPT ![w] = FALSE]
  /\ \/ /\ Stealable(w)
        /\ cown' = [cown EXCEPT ![w] = Head(q[victim[w]])]
        /\ q' = [q EXCEPT ![victim[w]] = Tail(@)]
        /\ UNCHANGED victim
     \/ /\ ~Stealable(w)
        /\ victim' = [victim EXCEPT ![w] = NextCore(victim[w])]
        /\ UNCHANGED <<cown, q>>
  /\ pc' = [pc EXCEPT ![w] = "deq"]
  /\ UNCHANGED <<n, running, sleeping, owning_core, cowns, total_cowns, lifo_left>>

(***************************************************************************)
(* Local dequeue if no cown is held; blocking steal if the queue is empty. *)
(***************************************************************************)
Dequeue(w) ==
  /\ \/ pc[w] = "deq"
     \/ pc[w] = "loop" /\ ~(should_steal_for_fairness[w] /\ cown[w] = None)
  /\ \/ /\ cown[w] # None
        /\ pc' = [pc EXCEPT ![w] = "prerun"]
        /\ UNCHANGED <<q, cown>>
     \/ /\ cown[w] = None /\ q[w] # <<>>
        /\ cown' = [cown EXCEPT ![w] = Head(q[w])]
        /\ q' = [q EXCEPT ![w] = Tail(@)]
        /\ pc' = [pc EXCEPT ![w] = "prerun"]
     \/ /\ cown[w] = None /\ q[w] = <<>>
        /\ pc' = [pc EXCEPT ![w] = "steal"]
        /\ UNCHANGED <<q, cown>>
  /\ UNCHANGED <<n, victim, should_steal_for_fairness, running, sleeping,
                 owning_core, cowns, total_cowns, lifo_left>>

(***************************************************************************)
(* steal(), first half of an iteration: leave when running is false (the   *)
(* loop then breaks to teardown), else re-check the local queue.           *)
(***************************************************************************)
StealLocal(w) ==
  /\ pc[w] = "steal"
  /\ \/ /\ ~running[w]
        /\ pc' = [pc EXCEPT ![w] = "done"]
        /\ UNCHANGED <<q, cown>>
     \/ /\ running[w] /\ q[w] # <<>>
        /\ cown' = [cown EXCEPT ![w] = Head(q[w])]
        /\ q' = [q EXCEPT ![w] = Tail(@)]
        /\ pc' = [pc EXCEPT ![w] = "prerun"]
     \/ /\ running[w] /\ q[w] = <<>>
        /\ pc' = [pc EXCEPT ![w] = "steal_victim"]
        /\ UNCHANGED <<q, cown>>
  /\ UNCHANGED <<n, victim, should_steal_for_fairness, running, sleeping,
                 owning_core, cowns, total_cowns, lifo_left>>

\* Fault model: the victim's head is taken without dequeuing it.
StealVictimPeek(w) ==
  /\ pc[w] = "steal_victim"
  /\ \/ /\ Stealable(w)
        /\ cown' = [cown EXCEPT ![w] = Head(q[victim[w]])]
        /\ pc' = [pc EXCEPT ![w] = "prerun"]
        /\ UNCHANGED <<q, victim>>
     \/ /\ ~Stealable(w)
        /\ victim' = [victim EXCEPT ![w] = NextCore(victim[w])]
        /\ \E next \in {"steal", "pause"} : pc' = [pc EXCEPT ![w] = next]
        /\ UNCHANGED <<q, cown>>
  /\ UNCHANGED <<n, should_steal_for_fairness, running, sleeping, owning_core,
                 cowns, total_cowns, lifo_left>>

(***************************************************************************)
(* steal(), second half: one dequeue from the victim; on failure rotate    *)
(* the victim and either spin again (the TSC quiescence timeout has not    *)
(* elapsed) or go to pause (state is NotInLD in this module).              *)
(***************************************************************************)
StealVictim(w) ==
  /\ pc[w] = "steal_victim"
  /\ \/ /\ Stealable(w)
        /\ cown' = [cown EXCEPT ![w] = Head(q[victim[w]])]
        /\ q' = [q EXCEPT ![victim[w]] = Tail(@)]
        /\ pc' = [pc EXCEPT ![w] = "prerun"]
        /\ UNCHANGED victim
     \/ /\ ~Stealable(w)
        /\ victim' = [victim EXCEPT ![w] = NextCore(victim[w])]
        /\ \E next \in {"steal", "pause"} : pc' = [pc EXCEPT ![w] = next]
        /\ UNCHANGED <<q, cown>>
  /\ UNCHANGED <<n, should_steal_for_fairness, running, sleeping, owning_core,
                 cowns, total_cowns, lifo_left>>

(***************************************************************************)
(* ThreadPool::pause: park until an unpause, or return at once when the    *)
(* pool is stopping.                                                       *)
(***************************************************************************)
Pause(w) ==
  /\ pc[w] = "pause"
  /\ pc' = [pc EXCEPT ![w] = IF running[w] THEN "paused" ELSE "steal"]
  /\ UNCHANGED <<n, q, cown, victim, should_steal_for_fairness, running,
                 sleeping, owning_core, cowns, total_cowns, lifo_left>>

\* Fault model: the untagged token pointer is put back on the queue.
PrerunTokenUntagged(w) ==
  /\ pc[w] = "prerun" /\ has_thread_bit(cown[w])
  /\ LET unmasked == clear_thread_bit(cown[w])
         oc == unmasked.token_cown
     IN
       /\ should_steal_for_fairness' =
            [should_steal_for_fairness EXCEPT ![w] = @ \/ (oc = w /\ Fair)]
       /\ q' = [q EXCEPT ![oc] = Append(@, unmasked)]
  /\ cown' = [cown EXCEPT ![w] = None]
  /\ pc' = [pc EXCEPT ![w] = "loop"]
  /\ UNCHANGED <<n, victim, running, sleeping, owning_core, cowns, total_cowns,
                 lifo_left>>

\* Fault model: the token is put back on the dequeuing core's queue.
PrerunTokenToThief(w) ==
  /\ pc[w] = "prerun" /\ has_thread_bit(cown[w])
  /\ LET oc == cown[w].token IN
       /\ should_steal_for_fairness' =
            [should_steal_for_fairness EXCEPT ![w] = @ \/ (oc = w /\ Fair)]
       /\ q' = [q EXCEPT ![w] = Append(@, cown[w])]
  /\ cown' = [cown EXCEPT ![w] = None]
  /\ pc' = [pc EXCEPT ![w] = "loop"]
  /\ UNCHANGED <<n, victim, running, sleeping, owning_core, cowns, total_cowns,
                 lifo_left>>

(***************************************************************************)
(* prerun on a token: if it is this core's, set should_steal_for_fairness  *)
(* when the pool is fair; in every case put it back on its owning core.    *)
(***************************************************************************)
PrerunToken(w) ==
  /\ pc[w] = "prerun" /\ has_thread_bit(cown[w])
  /\ LET unmasked == clear_thread_bit(cown[w])
         oc == unmasked.token_cown    \* unmasked->owning_core()
     IN
       /\ should_steal_for_fairness' =
            [should_steal_for_fairness EXCEPT ![w] = @ \/ (oc = w /\ Fair)]
       /\ q' = [q EXCEPT ![oc] = Append(@, cown[w])]
  /\ cown' = [cown EXCEPT ![w] = None]
  /\ pc' = [pc EXCEPT ![w] = "loop"]
  /\ UNCHANGED <<n, victim, running, sleeping, owning_core, cowns, total_cowns,
                 lifo_left>>

(***************************************************************************)
(* prerun on a cown: bind it to this core if it has no owning core.        *)
(***************************************************************************)
PrerunCown(w) ==
  /\ pc[w] = "prerun" /\ ~has_thread_bit(cown[w])
  /\ LET a == cown[w] IN
       IF owning_core[a] = None
       THEN /\ owning_core' = [owning_core EXCEPT ![a] = w]
            /\ cowns' = [cowns EXCEPT ![w] = @ \cup {a}]
            /\ total_cowns' = [total_cowns EXCEPT ![w] = @ + 1]
       ELSE UNCHANGED <<n, owning_core, cowns, total_cowns>>
  /\ pc' = [pc EXCEPT ![w] = "run"]
  /\ UNCHANGED <<n, q, cown, victim, should_steal_for_fairness, running, sleeping,
                 lifo_left>>

(***************************************************************************)
(* cown->run(): the behaviour may send a message to a sleeping cown d,     *)
(* which schedule_fifo puts on this core's queue; the result says whether  *)
(* to reschedule.  false: the cown went to sleep.  true with               *)
(* should_steal_for_fairness: schedule_fifo(cown) and drop the slot.       *)
(***************************************************************************)
Run(w) ==
  LET a == cown[w] IN
  /\ pc[w] = "run"
  /\ \E d \in {None} \cup {x \in Cowns : sleeping[x]}, reschedule \in BOOLEAN :
       LET woken == IF d = None THEN <<>> ELSE <<d>>
           requeue == IF reschedule /\ should_steal_for_fairness[w]
                      THEN <<a>> ELSE <<>>
       IN
       /\ q' = schedule_fifo(w, woken \o requeue)
       /\ sleeping' = [x \in Cowns |-> IF x = d THEN FALSE
                                       ELSE IF x = a THEN ~reschedule
                                       ELSE sleeping[x]]
       /\ cown' = [cown EXCEPT ![w] = IF reschedule /\ ~should_steal_for_fairness[w]
                                      THEN a ELSE None]
       /\ LET after == IF woken \o requeue = <<>> THEN pc ELSE Unpaused
          IN pc' = [after EXCEPT ![w] = IF reschedule /\ ~should_steal_for_fairness[w]
                                        THEN "resched" ELSE "loop"]
  /\ UNCHANGED <<n, victim, should_steal_for_fairness, running, owning_core,
                 cowns, total_cowns, lifo_left>>

\* Fault model: the reschedule branch always re-runs the same cown.
ReschedAlwaysRerun(w) ==
  /\ pc[w] = "resched"
  /\ pc' = [pc EXCEPT ![w] = "loop"]
  /\ UNCHANGED <<n, q, cown, victim, should_steal_for_fairness, running, sleeping,
                 owning_core, cowns, total_cowns, lifo_left>>

(***************************************************************************)
(* Reschedule without a fairness steal, first step: pop once from the     *)
(* local queue into n (262).  The cown just run stays in the cown slot, so *)
(* until the next step it is in no queue and a thief cannot take it.  If  *)
(* the pop fails, try a fast_steal when the pool is fair, else re-run the *)
(* same cown.                                                              *)
(***************************************************************************)
Resched(w) ==
  /\ pc[w] = "resched"
  /\ \/ /\ q[w] # <<>>
        /\ n' = [n EXCEPT ![w] = Head(q[w])]
        /\ q' = [q EXCEPT ![w] = Tail(@)]
        /\ pc' = [pc EXCEPT ![w] = "resched_push"]
     \/ /\ q[w] = <<>>
        /\ pc' = [pc EXCEPT ![w] = IF Fair THEN "resched_steal" ELSE "loop"]
        /\ UNCHANGED <<q, n>>
  /\ UNCHANGED <<cown, victim, should_steal_for_fairness, running, sleeping,
                 owning_core, cowns, total_cowns, lifo_left>>

\* Fault model: continue with n without schedule_fifo(cown): cown is lost.
ReschedPushDropCown(w) ==
  /\ pc[w] = "resched_push"
  /\ cown' = [cown EXCEPT ![w] = n[w]]
  /\ n' = [n EXCEPT ![w] = None]
  /\ pc' = [pc EXCEPT ![w] = "loop"]
  /\ UNCHANGED <<q, victim, should_steal_for_fairness, running, sleeping,
                 owning_core, cowns, total_cowns, lifo_left>>

(***************************************************************************)
(* Second step: n was found, so schedule_fifo the cown just run (with its  *)
(* unpause) and continue with n (264-268).                                 *)
(***************************************************************************)
ReschedPush(w) ==
  /\ pc[w] = "resched_push"
  /\ q' = schedule_fifo(w, <<cown[w]>>)
  /\ cown' = [cown EXCEPT ![w] = n[w]]
  /\ n' = [n EXCEPT ![w] = None]
  /\ pc' = [Unpaused EXCEPT ![w] = "loop"]
  /\ UNCHANGED <<victim, should_steal_for_fairness, running, sleeping,
                 owning_core, cowns, total_cowns, lifo_left>>

(***************************************************************************)
(* The empty-queue branch: if nothing_old, fast_steal; on success          *)
(* schedule_fifo the cown just run and continue with the stolen one.       *)
(***************************************************************************)
ReschedSteal(w) ==
  /\ pc[w] = "resched_steal"
  /\ \/ /\ NothingOld(w) /\ Stealable(w)
        /\ cown' = [cown EXCEPT ![w] = Head(q[victim[w]])]
        /\ q' = [q EXCEPT ![victim[w]] = Tail(@),
                          ![w] = Append(@, cown[w])]
        /\ pc' = [Unpaused EXCEPT ![w] = "loop"]
        /\ UNCHANGED victim
     \/ /\ NothingOld(w) /\ ~Stealable(w)
        /\ victim' = [victim EXCEPT ![w] = NextCore(victim[w])]
        /\ pc' = [pc EXCEPT ![w] = "loop"]
        /\ UNCHANGED <<q, cown>>
     \/ /\ ~NothingOld(w)
        /\ pc' = [pc EXCEPT ![w] = "loop"]
        /\ UNCHANGED <<q, cown, victim>>
  /\ UNCHANGED <<n, should_steal_for_fairness, running, sleeping, owning_core,
                 cowns, total_cowns, lifo_left>>

-----------------------------------------------------------------------------
(* The environment of the scheduler threads.                               *)

(***************************************************************************)
(* schedule_lifo: an external source (asynchronous I/O) wakes a sleeping   *)
(* cown onto the front of some core's queue, then unpauses.  Front        *)
(* insertion lets an endless stream of wakes overtake queued cowns, so the *)
(* environment makes at most MaxLifo of them.                              *)
(***************************************************************************)
ScheduleLifo(c, a) ==
  /\ sleeping[a] /\ lifo_left > 0
  /\ lifo_left' = lifo_left - 1
  /\ sleeping' = [sleeping EXCEPT ![a] = FALSE]
  /\ q' = [q EXCEPT ![c] = Cons(a, @)]
  /\ pc' = Unpaused
  /\ UNCHANGED <<n, cown, victim, should_steal_for_fairness, running,
                 owning_core, cowns, total_cowns>>

(***************************************************************************)
(* stop(): the pool clears running; a paused thread's pause returns.       *)
(***************************************************************************)
Stop(w) ==
  /\ running[w]
  /\ running' = [running EXCEPT ![w] = FALSE]
  /\ pc' = [pc EXCEPT ![w] = IF @ = "paused" THEN "steal" ELSE @]
  /\ UNCHANGED <<n, q, cown, victim, should_steal_for_fairness, sleeping,
                 owning_core, cowns, total_cowns, lifo_left>>

(***************************************************************************)
(* Fault model: the reschedule does schedule_fifo(cown) before the pop of  *)
(* n (266 before 262).  The cown just run is queued while the worker still *)
(* holds it, so a thief can take it in between; if the pop then fails the *)
(* worker re-runs it too.                                                  *)
(***************************************************************************)
ReschedFifoFirst(w) ==
  /\ pc[w] = "resched"
  /\ q' = schedule_fifo(w, <<cown[w]>>)
  /\ pc' = [Unpaused EXCEPT ![w] = "resched_push"]
  /\ UNCHANGED <<n, cown, victim, should_steal_for_fairness, running, sleeping,
                 owning_core, cowns, total_cowns, lifo_left>>

ReschedPopSecond(w) ==
  /\ pc[w] = "resched_push"
  /\ \/ /\ q[w] # <<>>
        /\ cown' = [cown EXCEPT ![w] = Head(q[w])]
        /\ q' = [q EXCEPT ![w] = Tail(@)]
        /\ pc' = [pc EXCEPT ![w] = "loop"]
     \/ /\ q[w] = <<>>
        /\ pc' = [pc EXCEPT ![w] = IF Fair THEN "resched_steal" ELSE "loop"]
        /\ UNCHANGED <<q, cown>>
  /\ UNCHANGED <<n, victim, should_steal_for_fairness, running, sleeping,
                 owning_core, cowns, total_cowns, lifo_left>>

WorkerFifoFirst(w) ==
  \/ FairnessSteal(w) \/ Dequeue(w) \/ StealLocal(w) \/ StealVictim(w)
  \/ Pause(w) \/ PrerunToken(w) \/ PrerunCown(w) \/ Run(w)
  \/ ReschedFifoFirst(w) \/ ReschedPopSecond(w) \/ ReschedSteal(w)

Worker(w) ==
  \/ FairnessSteal(w) \/ Dequeue(w) \/ StealLocal(w) \/ StealVictim(w)
  \/ Pause(w) \/ PrerunToken(w) \/ PrerunCown(w) \/ Run(w)
  \/ Resched(w) \/ ReschedPush(w) \/ ReschedSteal(w)

Next ==
  \/ \E w \in Cores : Worker(w)
  \/ \E c \in Cores, a \in Cowns : ScheduleLifo(c, a)
  \/ \E w \in Cores : Stop(w)

(***************************************************************************)
(* Each scheduler thread is an OS thread pinned to its own CPU, so every   *)
(* step it can take is eventually taken.  The environment (external wakes, *)
(* stop) is not assumed to act.                                            *)
(***************************************************************************)
Spec == Init /\ [][Next]_vars /\ \A w \in Cores : WF_vars(Worker(w))

-----------------------------------------------------------------------------
(* Properties.                                                             *)

\* Number of places (queue positions and cown slots) holding item x.
Copies(x) ==
  LET inQ(c) == Len(SelectSeq(q[c], LAMBDA y : y = x))
      inSlot(c) == (IF cown[c] = x THEN 1 ELSE 0) + (IF n[c] = x THEN 1 ELSE 0)
  IN  MapThenSumSet(LAMBDA c : inQ(c) + inSlot(c), Cores)

(***************************************************************************)
(* Mutual exclusion and queue residency: a cown that is not sleeping is    *)
(* held in exactly one place (one queue position, or one worker's cown or *)
(* n slot), and a sleeping cown in none.  Broken if the peek-then-swap       *)
(* reschedule, a steal or a wake leaves a cown in two places or loses it.  *)
(***************************************************************************)
CownPlacement ==
  \A a \in Cowns : Copies(a) = IF sleeping[a] THEN 0 ELSE 1

(***************************************************************************)
(* Token conservation: every core's token exists exactly once, and when it *)
(* is in a queue it is in its own core's queue (prerun returns a stolen    *)
(* token to its owning core, never to the thief's).                        *)
(***************************************************************************)
TokenConservation ==
  \A c \in Cores :
    /\ Copies(Token(c)) = 1
    /\ \A other \in Cores \ {c} : ~Contains(q[other], Token(c))

\* cown->run() is being called on a for some worker.
Dispatched(a) == \E w \in Cores : pc[w] = "run" /\ cown[w] = a

(***************************************************************************)
(* Starvation freedom: a cown that has been scheduled is eventually run,   *)
(* unless the pool is being stopped.  Relies on the token round trip and   *)
(* the fairness steal to drain the queue of a paused worker.               *)
(***************************************************************************)
EveryScheduledCownRuns ==
  \A a \in Cowns :
    ~sleeping[a] ~> (Dispatched(a) \/ \E w \in Cores : ~running[w])

\* prerun, on some worker, is looking at core c's token.
TokenPopped(c) == \E w \in Cores : pc[w] = "prerun" /\ cown[w] = Token(c)

(***************************************************************************)
(* Shutdown: once stop() has cleared running on every thread, every thread *)
(* leaves run_inner's loop for teardown.  The loop's only exit is a        *)
(* failed steal() (lines 198-204), which is reached only when the local    *)
(* dequeue finds nothing.                                                  *)
(***************************************************************************)
Termination ==
  (\A w \in Cores : ~running[w]) ~> (\A w \in Cores : pc[w] = "done")

(***************************************************************************)
(* Token round trip: a core whose worker runs cowns infinitely often has   *)
(* its token dequeued infinitely often (by its own worker or by a thief    *)
(* that hands it back), so the token keeps cycling; the reschedule path    *)
(* must keep popping the local queue for this to hold.                     *)
(***************************************************************************)
TokenRoundTrip ==
  \A c \in Cores : []<>(pc[c] = "run") => []<>TokenPopped(c)

(***************************************************************************)
(* Refinement mapping onto CownScheduling: a cown is executing while its   *)
(* worker is in cown->run(), ready while it sits in a queue or in a        *)
(* worker's slot outside run(), asleep while its queue is sleeping.        *)
(***************************************************************************)
Abstract == INSTANCE CownScheduling WITH
  Workers <- Cores,
  asleep <- {a \in Cowns : sleeping[a]},
  ready <- {a \in Cowns : \/ \E c \in Cores : Contains(q[c], a)
                          \/ \E w \in Cores : pc[w] # "run" /\ cown[w] = a
                          \/ \E w \in Cores : n[w] = a},
  executing <- [w \in Cores |-> IF pc[w] = "run" THEN cown[w] ELSE None]

(***************************************************************************)
(* The dispatcher implements the abstract cown life cycle: only a ready    *)
(* cown is dispatched, no step loses, duplicates into running, or revives  *)
(* a cown outside a wake or the end of a run.                              *)
(***************************************************************************)
Refinement == Abstract!Spec

====
