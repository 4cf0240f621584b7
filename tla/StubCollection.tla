---------------------------- MODULE StubCollection ----------------------------
(***************************************************************************)
(* Cown stub collection and teardown of src/rt/sched/schedulerthread.h:    *)
(* the loop-top guard of run_inner, collect_cown_stubs (normal and         *)
(* during_teardown), and the two teardown phases of run_inner with the     *)
(* barrier, the epoch advance and the destruction of the core's queue.     *)
(* Each thread's LD protocol is the one of LeakDetector, composed here,    *)
(* because collect_cown_stubs reads the thread's LD state.                 *)
(*                                                                         *)
(* Not under src/ and modelled from the specification: GlobalEpoch         *)
(* (advance, is_outdated, as standard epoch-based reclamation), a thread   *)
(* popping and running a cown (which records epoch_when_popped), and the   *)
(* release of a cown's last weak reference (which counts it in             *)
(* free_cowns).                                                            *)
(***************************************************************************)
EXTENDS Integers, FiniteSets

CONSTANTS
  W,           \* number of scheduler threads, one per core
  MaxEnv,      \* LeakDetector's bound on unscanned schedules and sends
  Cowns,       \* the cowns (model values)
  HomeOf,      \* HomeOf[a]: the core whose registry holds cown a
  None,        \* no cown
  MaxEpoch,    \* bound on GlobalEpoch::advance calls outside teardown
  DetectLeaks  \* Scheduler::get_detect_leaks()

VARIABLES gstate, t, pc, inflight, env_left

LD == INSTANCE LeakDetector

Workers == LD!Workers
\* T::NO_EPOCH_SET, a value no epoch takes.
NO_EPOCH == -1

VARIABLES
  running,            \* running[w]: SchedulerThread::running
  phase,              \* phase[w]: "loop", "barrier", "phase2" or "done"
  registry,           \* registry[c]: the cown stubs on core c's list
  total_cowns,        \* total_cowns[c]
  free_cowns,         \* free_cowns[c]
  weak_count,         \* weak_count[a], 1 until its last weak reference goes
  epoch_when_popped,  \* epoch_when_popped[a]
  freed,              \* freed[a]: the stub has been deallocated
  holding,            \* holding[w]: the cown thread w popped and still uses
  local_epoch,        \* local_epoch[w]: the epoch thread w popped it in
  epoch,              \* the global epoch
  collecting,         \* collecting[w]: "no", "loop" or "teardown"
  drained,            \* drained[w]: the list taken by core->drain()
  destroyed           \* destroyed[c]: core c's queue has been destroyed

ldvars == <<gstate, t, pc, inflight, env_left>>
scvars == <<running, phase, registry, total_cowns, free_cowns, weak_count,
            epoch_when_popped, freed, holding, local_epoch, epoch,
            collecting, drained, destroyed>>
vars == <<ldvars, scvars>>

Init ==
  /\ LD!Init
  /\ running = [w \in Workers |-> TRUE]
  /\ phase = [w \in Workers |-> "loop"]
  /\ registry = [c \in Workers |-> {a \in Cowns : HomeOf[a] = c}]
  /\ total_cowns = [c \in Workers |-> Cardinality(registry[c])]
  /\ free_cowns = [c \in Workers |-> 0]
  /\ weak_count = [a \in Cowns |-> 1]
  /\ epoch_when_popped = [a \in Cowns |-> NO_EPOCH]
  /\ freed = [a \in Cowns |-> FALSE]
  /\ holding = [w \in Workers |-> None]
  /\ local_epoch = [w \in Workers |-> 0]
  /\ epoch = 0
  /\ collecting = [w \in Workers |-> "no"]
  /\ drained = [w \in Workers |-> {}]
  /\ destroyed = [c \in Workers |-> FALSE]

-----------------------------------------------------------------------------
(* GlobalEpoch, from its specification.                                   *)

\* An epoch is outdated two advances after it.
is_outdated(e) == e + 2 <= epoch

\* advance() cannot pass a thread that still uses a cown popped in an
\* older epoch.
EpochCanAdvance == \A w \in Workers : holding[w] # None => local_epoch[w] = epoch

-----------------------------------------------------------------------------
(* collect_cown_stubs.                                                     *)

\* The LD states in which collect_cown_stubs returns at once, because
\* another thread could be sweeping.
Inhibited(w) == t[w].state \in {"ReallyDone_Confirm", "Finished"}

\* core->drain(): the list leaves the core for the traversal; mode tells
\* whether this is the during_teardown instantiation.
Drain(w, mode) ==
  /\ collecting' = [collecting EXCEPT ![w] = mode]
  /\ drained' = [drained EXCEPT ![w] = registry[w]]
  /\ registry' = [registry EXCEPT ![w] = {}]

\* The traversal's decisions for a cown a of the drained list.
Eligible(a, td) == weak_count[a] = 0 \/ td
Leaked(a, td) == Eligible(a, td) /\ weak_count[a] # 0 /\ DetectLeaks
\* Fault model: the NO_EPOCH_SET test inverted.
OutdatedInverted(a) ==
  epoch_when_popped[a] # NO_EPOCH \/ is_outdated(epoch_when_popped[a])
Outdated(a) ==
  epoch_when_popped[a] = NO_EPOCH \/ is_outdated(epoch_when_popped[a])
Removed(L, td) == {a \in L : Eligible(a, td) /\ ~Leaked(a, td) /\ Outdated(a)}
Kept(L, td) == L \ (Removed(L, td) \cup {a \in L : Leaked(a, td)})

\* The loop top of run_inner calls collect_cown_stubs when the registry is
\* sparse; unless the thread's LD state inhibits it, it drains the list.
StubCollectBegin(w) ==
  /\ phase[w] = "loop" /\ pc[w] = "loop" /\ collecting[w] = "no"
  /\ total_cowns[w] < 2 * free_cowns[w]
  /\ ~Inhibited(w)
  /\ Drain(w, "loop")
  /\ UNCHANGED <<ldvars, running, phase, total_cowns, free_cowns, weak_count,
                 epoch_when_popped, freed, holding, local_epoch, epoch,
                 destroyed>>

\* Fault model: free_cowns is not decremented by the stubs removed.
StubCollectEndKeepFree(w) ==
  LET L == drained[w]
      td == collecting[w] = "teardown"
      rem == Removed(L, td)
  IN /\ collecting[w] # "no"
     /\ registry' = [registry EXCEPT ![w] = @ \cup Kept(L, td)]
     /\ freed' = [a \in Cowns |-> freed[a] \/ a \in rem]
          /\ total_cowns' = [total_cowns EXCEPT ![w] = @ - Cardinality(rem)]
     /\ collecting' = [collecting EXCEPT ![w] = "no"]
     /\ drained' = [drained EXCEPT ![w] = {}]
     /\ phase' = IF td THEN [phase EXCEPT ![w] = "done"] ELSE phase
     /\ destroyed' = IF td THEN [destroyed EXCEPT ![w] = TRUE] ELSE destroyed
     /\ UNCHANGED <<ldvars, running, free_cowns, weak_count, epoch_when_popped, holding,
                    local_epoch, epoch>>

(***************************************************************************)
(* The traversal deallocates the removed stubs, leaks (unlinks) the ones   *)
(* with weak references during teardown when leaks are detected, puts the  *)
(* rest back with add_cowns and adjusts the counters.  At the end of       *)
(* teardown phase 2 the thread leaves servicing_threads; as the only       *)
(* thread of its core it destroys the core's queue.                        *)
(***************************************************************************)
StubCollectEnd(w) ==
  LET L == drained[w]
      td == collecting[w] = "teardown"
      rem == Removed(L, td)
  IN /\ collecting[w] # "no"
     /\ registry' = [registry EXCEPT ![w] = @ \cup Kept(L, td)]
     /\ freed' = [a \in Cowns |-> freed[a] \/ a \in rem]
     /\ free_cowns' = [free_cowns EXCEPT ![w] = @ - Cardinality(rem)]
     /\ total_cowns' = [total_cowns EXCEPT ![w] = @ - Cardinality(rem)]
     /\ collecting' = [collecting EXCEPT ![w] = "no"]
     /\ drained' = [drained EXCEPT ![w] = {}]
     /\ phase' = IF td THEN [phase EXCEPT ![w] = "done"] ELSE phase
     /\ destroyed' = IF td THEN [destroyed EXCEPT ![w] = TRUE] ELSE destroyed
     /\ UNCHANGED <<ldvars, running, weak_count, epoch_when_popped, holding,
                    local_epoch, epoch>>

-----------------------------------------------------------------------------
(* Teardown.                                                               *)

\* stop(): running is cleared; a parked thread's pause() returns false.
Stop(w) ==
  /\ running[w]
  /\ running' = [running EXCEPT ![w] = FALSE]
  /\ UNCHANGED <<ldvars, phase, registry, total_cowns, free_cowns, weak_count,
                 epoch_when_popped, freed, holding, local_epoch, epoch,
                 collecting, drained, destroyed>>

\* The steal loop sees running false (after ld_protocol, or woken from
\* pause) and run_inner leaves its loop; phase 1 (core->collect, flushing
\* the local epoch) ends at enter_barrier.
Exit(w) ==
  /\ phase[w] = "loop" /\ ~running[w]
  /\ pc[w] \in {"after", "paused"}
  /\ holding[w] = None /\ collecting[w] = "no"
  /\ phase' = [phase EXCEPT ![w] = "barrier"]
  /\ UNCHANGED <<ldvars, running, registry, total_cowns, free_cowns,
                 weak_count, epoch_when_popped, freed, holding, local_epoch,
                 epoch, collecting, drained, destroyed>>

\* Past the barrier: GlobalEpoch::advance, then collect_cown_stubs<true>,
\* which returns at once in an inhibiting LD state.
Phase2(w) ==
  /\ phase[w] = "barrier"
  /\ \A v \in Workers : phase[v] # "loop"
  /\ epoch' = epoch + 1
  /\ IF Inhibited(w)
     THEN /\ phase' = [phase EXCEPT ![w] = "done"]
          /\ destroyed' = [destroyed EXCEPT ![w] = TRUE]
          /\ UNCHANGED <<collecting, drained, registry>>
     ELSE /\ phase' = [phase EXCEPT ![w] = "phase2"]
          /\ Drain(w, "teardown")
          /\ UNCHANGED destroyed
  /\ UNCHANGED <<ldvars, running, total_cowns, free_cowns, weak_count,
                 epoch_when_popped, freed, holding, local_epoch>>

-----------------------------------------------------------------------------
(* Cown life cycle outside this file, from the specification.              *)

\* A thread pops a live cown from a run queue and runs it; the pop records
\* the global epoch in epoch_when_popped.
Pop(w, a) ==
  /\ phase[w] = "loop" /\ pc[w] = "loop" /\ collecting[w] = "no"
  /\ holding[w] = None
  /\ weak_count[a] = 1 /\ ~freed[a]
  /\ holding' = [holding EXCEPT ![w] = a]
  /\ local_epoch' = [local_epoch EXCEPT ![w] = epoch]
  /\ epoch_when_popped' = [epoch_when_popped EXCEPT ![a] = epoch]
  /\ UNCHANGED <<ldvars, running, phase, registry, total_cowns, free_cowns,
                 weak_count, freed, epoch, collecting, drained, destroyed>>

\* The run ends and the thread no longer uses the cown (nor an epoch).
Finish(w) ==
  /\ holding[w] # None /\ collecting[w] = "no"
  /\ holding' = [holding EXCEPT ![w] = None]
  /\ local_epoch' = [local_epoch EXCEPT ![w] = 0]
  /\ UNCHANGED <<ldvars, running, phase, registry, total_cowns, free_cowns,
                 weak_count, epoch_when_popped, freed, epoch,
                 collecting, drained, destroyed>>

\* The last weak reference to a goes (possibly while a thread still uses
\* it); its core counts one more free cown.
Release(a) ==
  /\ weak_count[a] = 1 /\ ~freed[a]
  /\ weak_count' = [weak_count EXCEPT ![a] = 0]
  /\ free_cowns' = [free_cowns EXCEPT ![HomeOf[a]] = @ + 1]
  /\ UNCHANGED <<ldvars, running, phase, registry, total_cowns, epoch_when_popped,
                 freed, holding, local_epoch, epoch, collecting, drained,
                 destroyed>>

\* GlobalEpoch::advance outside teardown.
Advance ==
  /\ epoch < MaxEpoch /\ EpochCanAdvance
  /\ epoch' = epoch + 1
  /\ UNCHANGED <<ldvars, running, phase, registry, total_cowns, free_cowns,
                 weak_count, epoch_when_popped, freed, holding, local_epoch,
                 collecting, drained, destroyed>>

-----------------------------------------------------------------------------
(* The composition.                                                        *)

\* A step of thread w's LD protocol and loop, as LeakDetector has it, while
\* it is in its loop and not inside collect_cown_stubs.
LDWorker(w) ==
  /\ phase[w] = "loop" /\ collecting[w] = "no"
  /\ LD!Worker(w)
  /\ UNCHANGED scvars

LDEnvironment ==
  /\ \/ LD!Send
     \/ LD!Deliver
     \/ \E w \in Workers : phase[w] = "loop" /\ LD!ExternalWake(w)
  /\ UNCHANGED scvars

\* Every thread has finished teardown; the process goes on without them.
Terminated ==
  /\ \A w \in Workers : phase[w] = "done"
  /\ UNCHANGED vars

Next ==
  \/ \E w \in Workers :
       \/ LDWorker(w) \/ StubCollectBegin(w) \/ StubCollectEnd(w)
       \/ Exit(w) \/ Phase2(w) \/ Stop(w) \/ Finish(w)
       \/ \E a \in Cowns : Pop(w, a)
  \/ \E a \in Cowns : Release(a)
  \/ Advance
  \/ LDEnvironment
  \/ Terminated

Spec == Init /\ [][Next]_vars

-----------------------------------------------------------------------------
(***************************************************************************)
(* Epoch safety (spec property 6): no thread still uses a cown whose stub  *)
(* has been deallocated.  The traversal of collect_cown_stubs frees a stub *)
(* with no weak references only once its epoch_when_popped is outdated,   *)
(* and the epoch cannot become outdated while the popping thread uses it. *)
(***************************************************************************)
EpochSafety ==
  \A w \in Workers : holding[w] # None => ~freed[holding[w]]

(***************************************************************************)
(* Registry accounting: while a thread is in its loop, total_cowns counts  *)
(* the stubs on its core's list (or drained from it), so the assertion     *)
(* total_cowns == count of collect_cown_stubs holds, and free_cowns counts *)
(* those of them with no weak references, which the loop-top guard reads. *)
(***************************************************************************)
RegistryAccounting ==
  \A c \in Workers : phase[c] = "loop" =>
    LET stubs == registry[c] \cup drained[c] IN
    /\ total_cowns[c] = Cardinality(stubs)
    /\ free_cowns[c] = Cardinality({a \in stubs : weak_count[a] = 0})
    /\ collecting[c] # "no" => total_cowns[c] = Cardinality(drained[c])

(***************************************************************************)
(* The claim of the comment in collect_cown_stubs: stub collection does    *)
(* not run while another thread is sweeping (inside collect_cowns).        *)
(***************************************************************************)
NoStubCollectionWhileSweeping ==
  \A u, v \in Workers :
    u # v => ~(collecting[u] # "no" /\ pc[v] = "sweep")

(***************************************************************************)
(* The specification: collect_cown_stubs is run unconditionally during     *)
(* teardown.  A stub whose epoch_when_popped was never set is deallocated  *)
(* by that pass whatever the global epoch, so no thread finishes teardown  *)
(* leaving one on its core's list.                                         *)
(***************************************************************************)
TeardownCollectsStubs ==
  \A c \in Workers : phase[c] = "done" =>
    \A a \in registry[c] : epoch_when_popped[a] # NO_EPOCH

(***************************************************************************)
(* The specification: free_cowns is the number of a core's stubs that are  *)
(* eligible for stub collection (no weak references), so as a size_t it    *)
(* stays between 0 and total_cowns in every phase.  collect_cown_stubs     *)
(* subtracts removed_count from it, and during teardown without leak       *)
(* detection removed_count includes stubs that still have a weak           *)
(* reference and were never counted in free_cowns.                         *)
(***************************************************************************)
FreeCownsCounted ==
  \A c \in Workers : 0 <= free_cowns[c] /\ free_cowns[c] <= total_cowns[c]

====
