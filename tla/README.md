# TLA+ models of the Verona per-core work-stealing scheduler

This directory models `SchedulerThread<T>` in `src/src/rt/sched/schedulerthread.h`.
That file is the only source under `src/`. The collaborators it calls are
described in `spec.md` but are not under `src/`: the `ThreadPool` coordinator,
`Core`, the MPMC run queue and `GlobalEpoch`. Definitions that model them are
marked `spec_modelled` in `PROJECT.json`.

## 1. Inventory

### Components

| Component | Where | State | Operations |
|---|---|---|---|
| SchedulerThread (dispatcher) | `schedulerthread.h` 156-509 | `core`, `victim`, `running`, `should_steal_for_fairness`, the local `cown` slot | `run_inner` loop, `fast_steal`, `steal`, `prerun`, `schedule_fifo`, `schedule_lifo`, `stop` |
| Token fairness | `schedulerthread.h` 85-90, 366-371, 462-495 | one token per core (pointer with the thread bit), `n_ld_tokens` | token pop, put-back to its owner, fairness flag, LD countdown |
| LD protocol, worker side | `schedulerthread.h` 511-686 | `state`, `send_epoch`, `prev_epoch`, `scheduled_unscanned_cown`, `n_ld_tokens` | `want_ld`, `ld_protocol`, `enter_prescan`, `enter_scan`, `collect_cowns` |
| Stub collection | `schedulerthread.h` 688-771 | registry, `total_cowns`, `free_cowns`, per cown `weak_count` and `epoch_when_popped` | `collect_cown_stubs` (normal and teardown) |
| Teardown | `schedulerthread.h` 303-337 | `servicing_threads` | drain, barrier, epoch advance, final stub collection, queue destroy |
| ThreadPool (spec only) | spec §4.2, §4.3, §6 | global LD state and votes, paused threads, `fair` | `pause`, `unpause`, `next_state`, `no_inflight_messages`, `enter_barrier` |
| Core and MPMCQ (spec only) | spec §3, §6 | `q`, `cowns`, `token_cown`, counters | `enqueue`, `enqueue_front`, `dequeue`, `nothing_old`, `scan`, `try_collect` |
| GlobalEpoch (spec only) | spec §6 | the global epoch | `advance`, `is_outdated` |

### How they interact

- There is one scheduler thread per core. Each core has one MPMC queue.
- A thread dequeues from its own queue. It steals from `victim`'s queue in two cases:
  - a fairness steal, after its own token came back;
  - the empty-queue reschedule path, when the pool is fair;
  - and in `steal()`, the blocking steal loop.
- Tokens travel through the same queues as cowns. `prerun` recognises a token by its
  thread bit and puts it back on its owning core's queue.
- Every enqueue made through `schedule_fifo` or `schedule_lifo` is followed by
  `ThreadPool::unpause`. An idle thread whose quiescence timeout has elapsed calls
  `pause`.
- The LD protocol is shared state behind `ThreadPool::next_state`. Each worker calls
  `ld_protocol` on every dispatch and in every steal iteration. `ld_protocol`
  changes `send_epoch` and asks the Core to scan or sweep.
- Stub collection reads the LD state of its own thread: it must not run in
  `ReallyDone_Confirm` or `Finished`. It also reads the global epoch.

### What is hard

- Concurrent dequeues of one MPMC queue: the owner's pop and reschedule swap race
  with thieves.
- The lost wake-up between an `unpause` and a later `pause`.
- Token theft and its return.
- Registering a cown on whichever core first dequeues it.
- The LD vote machine, its epoch flips and its retract path.
- Freeing a stub while another thread may still hold the cown.
- Teardown ordering.

`PROJECT.json` lists each hazard at its source line.

### Properties that make each component correct

- **Dispatcher**
  - A scheduled cown is held in exactly one place, and a sleeping cown in none.
  - No token is run.
  - Every scheduled cown is eventually run.
  - The dispatcher refines the abstract cown life cycle.
- **Tokens**
  - Each token exists once and is queued only on its own core.
  - A dispatching core's token keeps cycling.
  - At an LD checkpoint, two token pops have happened since the scan.
- **LD protocol**
  - `send_epoch` follows A → NONE → B → NONE → A.
  - All workers sweep with the same `send_epoch`.
  - No worker sweeps while another can still observe an unscanned cown.
  - The protocol reaches `Sweep` and `Finished` once messages stop.
- **Stub collection**
  - No stub is freed unless its `epoch_when_popped` is outdated.
  - No collection runs during a concurrent sweep.
  - `total_cowns` matches the registry.
- **Teardown**
  - Every thread exits after `stop`.
  - No queue is used after `destroy`.

## 2. Plan

Modules, in order of importance:

1. **`WorkStealing`** (done). The dispatcher, modelled with the LD idle and no
   stub freed (see §3). Its abstract specification is **`CownScheduling`**, checked
   by refinement.
2. **`LeakDetector`** (done, section 4 below). The worker side of the LD protocol, with the
   `ThreadPool` vote machine `next_state` modelled from spec §4.3 (spec_modelled).
3. **`StubCollection`** (done, section 5). `collect_cown_stubs` with weak counts,
   `epoch_when_popped` and `GlobalEpoch` (spec_modelled), composed with
   `LeakDetector`, with the loop-top guard and the whole of teardown.
4. **`LDCheckpoint`** (done, section 6). The dispatcher of `WorkStealing`,
   extended with the `n_ld_tokens` countdown and its `nothing_old` resets, and
   pausing only in `NotInLD`.

A single `Scheduler` module composing all of them was planned. Section 7
explains why it was not built.

Runs use two cores (the smallest ring where stealing and token theft happen) and
two or three cowns.

## 3. `WorkStealing`: the dispatcher

Threads and cores share the index set `Cores = 1..W`, with one thread per core,
as spec §2 and the `TODO` at line 761 say. Variables:

| Variable | Code |
|---|---|
| `q[c]` | `Core::q`, a sequence of cowns and tokens `[token |-> c]` |
| `cown[w]` | the local `cown` of `run_inner` |
| `n[w]` | the local `n` of the reschedule pop (262), held between the pop and `schedule_fifo(cown)` |
| `pc[w]` | the point in `run_inner`/`steal` the thread is at |
| `victim`, `should_steal_for_fairness`, `running` | the fields of the same name |
| `sleeping[a]` | `a->queue.is_sleeping()` |
| `owning_core`, `cowns`, `total_cowns` | cown binding and the core registry (`prerun`) |
| `lifo_left` | environment budget of external `schedule_lifo` wakes |

Each action is one atomic access to a shared queue, together with the local code
around it:

| Action | Code |
|---|---|
| `FairnessSteal` | 181-188 |
| `Dequeue` | 190-205 |
| `StealLocal` | 373-395 |
| `StealVictim` | 396-430 |
| `Pause` | 431-438 and `ThreadPool::pause` |
| `PrerunToken` | 466-495 |
| `PrerunCown` | 497-509 |
| `Run` | 214-254 and 294-298 |
| `Resched` | 255-263: the pop into `n` |
| `ReschedPush` | 264-268: `schedule_fifo(cown)`, then `cown = n` |
| `ReschedSteal` | 271-292 |
| `ScheduleLifo` (environment) | 127-141 |
| `Stop` (the pool) | 104-107 |

`Run` models `cown->run()`: the behaviour may wake one sleeping cown, which
`schedule_fifo` puts on this core, and the run returns reschedule or not.

Modelling choices:

- **Core construction enqueues the token.** The MPMCQ and `Core` constructor are
  not in `src/`. The only code here that enqueues a token is the put-back in
  `prerun`. So `Init` puts each core's token in its queue, and it circulates from
  then on.
- **LD idle, no stub freed.** No thread calls `want_ld`, so `next_state` keeps every
  thread in `NotInLD`, and `ld_protocol`, the scan hint and `n_ld_tokens` change
  nothing. No cown's weak count reaches zero, so `free_cowns = 0` and the loop-top
  guard `total_cowns < free_cowns << 1` is false. These are exact sub-behaviours
  of the program. The `Scheduler` module of the plan lifts both restrictions.
- **`nothing_old`** holds when only tokens precede the core's token in its queue.
  If the token is not in the queue, the whole queue is inspected.
- **`unpause`** wakes every paused thread. `pause` parks unless `running` is false.
  A wake that happens before `pause` is lost, as with a condition variable
  (spec §5).
- **The quiescence timeout** is a nondeterministic choice after each failed steal
  iteration: spin again or pause.
- **Split reschedule.** The pop at 262 and the `schedule_fifo(cown)` at 266 are
  two steps (`Resched`, `ReschedPush`). Between them the popped item is in `n` and
  the cown just run is in the thread's slot, and thieves may take from the queue.
  The mutant `WorkerFifoFirst` swaps the two accesses (push first, then pop). A
  thief can then take the cown while its thread still holds it, which breaks
  `CownPlacement`. In `ReschedSteal` the `fast_steal` and the `schedule_fifo` are
  still one step. The stolen item is in the thread's hands and the cown is in its
  slot, so no other thread can observe it between them.
- **Left out:** statistics, `progress_counter`, `last_worker` and logging. The
  scheduler never reads them.

### Runs

All runs use `MCWorkStealing`: `W = 2`, cowns `{c1, c2}`, `Fair = TRUE`,
`MaxLifo = 2`. This gives 257,616 distinct states. Every action
and branch fires.

| Run | Properties | Shows |
|---|---|---|
| `ws_safety` | `TypeOK`, `CownPlacement`, `TokenConservation`, `Refinement` | No interleaving of steals, swaps, token returns and wakes duplicates or loses a cown or token (every item is in exactly one queue position or thread slot, `cown` or `n`). The dispatcher refines `CownScheduling`: asleep / ready / executing, with dispatch only from ready. |
| `ws_liveness` | `EveryScheduledCownRuns`, `TokenRoundTrip` | Every scheduled cown runs (unless the pool is stopping), even one left in a paused thread's queue by a lost wake-up. A core that keeps dispatching has its token dequeued infinitely often. |
| `ws_termination` (expected violation) | `Termination` | After `stop()` on every thread, the threads never leave `run_inner`'s loop (see below). |

**Fairness.** Each scheduler thread is an OS thread pinned to its own CPU, so it
gets weak fairness on its steps (`WF_vars(Worker(w))`). External wakes and `stop`
get no fairness. External LIFO wakes push to the front of a queue, so an
unbounded stream of them can overtake a queued cown forever. This is LIFO by
design, and it is why the environment makes at most `MaxLifo` of them.

**Bounds.** Two cores are the smallest ring in which a thread steals from another
and a token is stolen. Two cowns let one cown wait in a queue while the other
runs, wakes it, or is stolen.

### Observations from building the model

- **The fairness-flag branch after `run` (lines 250-254) is unreachable.**
  `should_steal_for_fairness` is only set when a token is popped, which empties the
  slot. The next loop iteration clears the flag before any cown is dequeued.
  TLC confirms the branch never fires: a fault model that drops the cown in that
  branch violates nothing.
- **Stealing only happens on a fair pool.** With `fair` false and tokens
  circulating, no thread ever reaches `steal()` or `pause()`, because each local
  queue always yields its own token. A probe run with `Fair = FALSE` found no
  paused state. Starvation freedom still held there, because every cown is run by
  the core it was scheduled on.
- **A thief can starve the owner's fairness period.** The stronger form of the
  token property ("the owning thread itself pops its token infinitely often")
  fails. The other thread can steal the token on every cycle and hand it back.
  The owner never sets `should_steal_for_fairness` for a stolen token (line 471),
  so it keeps running its cowns without fairness steals. The spec's property 7
  only asks that the token be dequeued, which holds.

- **The pool never shuts down under the spec's queue contract.** This is
  finding `ws_termination`.
  - `prerun` puts every popped token back on its owner's queue, with no
    condition (line 493).
  - By spec §6, `dequeue` pops the head of any non-empty queue.
  - So a thread's local dequeue at line 192 never fails. Its queue always holds
    at least its token.
  - `run_inner` leaves its loop only when `steal()` returns null (lines
    198-204). After `stop()`, the threads therefore cycle their tokens forever.
    They never reach teardown, and they never reach `pause()`.

  TLC's counterexample is a lasso in which both threads pop and put back their
  own tokens. The spec says three things that contradict this:
  - an idle worker pauses (§4.2);
  - a token is enqueued only "when a worker has outgoing work but no token
    currently circulating" (§4.3);
  - in S1 the queue ends empty.

  So either the real queue refuses to hand out a lone token, or the put-back
  should depend on that condition. Neither is in `src/`.

## 4. `LeakDetector`: the LD protocol, worker side

`LeakDetector.tla` models lines 65-74, 215-230, 366-390, 431-439 and 511-686 of
`schedulerthread.h`. Each worker's LD fields form one record `t[w]`: `state`,
`send_epoch`, `prev_epoch`, `n_ld_tokens` and `scheduled_unscanned_cown`. The
functions `enter_prescan`, `enter_scan` and `ld_checkpoint_reached` translate the
methods of the same names over that record.

| Action | Code |
|---|---|
| `Enter(w, ev)` | One pass of the run or steal loop up to the entry check of `ld_protocol` (540-555). `ev` is what happened since the last call: the worker popped its own token (`prerun`, 479-482, guarded by `n_ld_tokens > 0`), its queue held nothing old (275, 384), the scan hint fired (224-228, bounded by `MaxEnv`), or nothing. |
| `LDStep(w)` | One iteration of the `while` loop (557-640). It calls `next_state(sprev)`. On `PreScan → PreScan` it unpauses. If nothing changed it returns. Otherwise it runs the `switch`: `Entry` applies the state's entry actions; `PreScan`, `Scan` and `AllInScan` return and the other cases continue. |
| `WantLD(w)` | `want_ld` (511-526). |
| `Pause(w)`, `Park(w)` | The steal loop's `pause()` when idle and in `NotInLD` (431-439), split into deciding to pause and parking. An unpause between the two is lost. |
| `Proceed(w)` | The loop goes round again. |
| `Send`, `Deliver` | `no_inflight_messages()` turning false and true again. |
| `ExternalWake(w)` | External work (`schedule_lifo`) unparks a worker. |

**Coordinator (spec_modelled).**
- `GlobalNext` is a barrier. The global state advances when every worker is in
  the state the current phase waits for. After all workers have confirmed or
  retracted, it goes to `Scan` if any worker retracted and to
  `ReallyDone_Confirm` otherwise.
- `Permitted` is the state `next_state` hands back to the calling worker.
- `unpause` wakes every parked worker.

**Fairness.**
- Each worker thread keeps running its loop: weak fairness on `Worker(w)`, and
  nothing else. No loop pass is assumed to be taken: `ldc_checkpoint_reached`
  (section 6) shows a fair schedule in which a worker never pops its own token,
  so strong fairness on the token pass would not be justified by the code.
- Message delivery, `want_ld`, pausing, sends and external wakes are not fair.

**Runs.** Both runs use `MaxEnv = 2`. That allows one unscanned schedule
together with one in-flight message, or two of either. It is enough for a
rescan at the checkpoint followed by a retraction in the same round.
- `ld_safety` uses `W = 3`: 431,354 states, depth 116, about 15 s. Three
  workers let one worker retract while two confirm, and let a slow worker
  reach `Scan` without `PreScan` while the other two are already past it.
- `ld_progress` uses `W = 2`: 17,476 states. The same check at `W = 3` takes
  about 8 minutes, which is too slow to keep.

- `ld_safety`:
  - `EpochAgreement`: every worker past the scan barrier (`AllInScan` to
    `Finished`) has the same `send_epoch`, and it is not `EPOCH_NONE`. Its mutant
    computes `enter_scan` from `send_epoch` instead of `prev_epoch`. The next
    rescan at the checkpoint flips that worker a second time, and the two sweeps
    then use different marks.
  - `TypeOK`: its mutant drops the `n_ld_tokens > 0` check of line 479, which
    underflows the `uint8_t`.
- `ld_progress`: `ScanBarrierReached`, that once the coordinator is in
  `PreScan` the round reaches `AllInScan`. No worker needs the checkpoint or
  a delivered message for this, so weak fairness suffices. Its mutant drops the unpause on the `PreScan → PreScan`
  self-transition (568-573). TLC then finds the lost wake-up that the comment at
  567 describes:
  1. Worker 1 enters `PreScan` and unpauses.
  2. Worker 2 has already decided to pause and parks after that unpause.
  3. Worker 1 loops in `PreScan` forever, and the barrier is never reached.

  The rest of the round (the vote and the sweep) is not claimed to complete:
  it waits on every worker's checkpoint, which `ldc_checkpoint_reached` shows
  the code does not guarantee.

**Not covered by this module.**
- `collect_cowns` is the step `Swept` (pc `"sweep"`). Its effect on the
  registry is not modelled, because `try_collect` is not under `src/`.
- Cown epoch marks are not modelled. The scan hint can therefore fire on any
  loop pass.
- The composition with `WorkStealing`, where token pops come from the queues, is
  still to do (plan item 4).

## 5. `StubCollection`: stub collection and teardown

`StubCollection.tla` composes `LeakDetector` (via `LD == INSTANCE LeakDetector`,
over the same variables). `collect_cown_stubs` reads the thread's LD state, so
the two cannot be checked apart. Each core has a `registry` of cown stubs. Its
counters are `total_cowns` and `free_cowns`. Each cown has a `weak_count`
(abstracted to 1 or 0) and an `epoch_when_popped`. `NO_EPOCH` stands for
`T::NO_EPOCH_SET`. `phase[w]` is where thread `w` is in `run_inner`: `"loop"`,
`"barrier"`, `"phase2"` or `"done"`.

| Action | Code |
|---|---|
| `StubCollectBegin(w)` | The loop-top guard (172-179): `total_cowns < 2 * free_cowns`. It continues into `collect_cown_stubs`: it returns early in `ReallyDone_Confirm`/`Finished` (`Inhibited`, 695-702), otherwise it drains the registry (`Drain`, 704-711). |
| `StubCollectEnd(w)` | The traversal (713-751). Each stub is tested by `Eligible`, `Leaked` and `Outdated`. The removed ones are freed (`Removed`) and the rest are put back (`Kept`, `add_cowns`). Then the assertion and the counter updates (760-765). In teardown it continues to the `servicing_threads` decrement and the queue destroy (323-331). |
| `Stop(w)` | `stop()` (104-107). |
| `Exit(w)` | Leaving the loop once `running` is false, and teardown phase 1 up to `enter_barrier` (298-314). |
| `Phase2(w)` | Past the barrier: `GlobalEpoch::advance()` and `collect_cown_stubs<true>()` (316-331). |
| `LDWorker(w)`, `LDEnvironment` | `LeakDetector`'s actions, taken while the thread is in its loop. A thread entering `Sweep` is at pc `"sweep"` until `Swept` (`collect_cowns`, 682-686) returns. |
| `Terminated` | Every thread has finished `run_inner`. |

**Modelled from the spec (spec_modelled).** These are not under `src/`:
- `GlobalEpoch`, as epoch-based reclamation. `Advance` moves the epoch only
  when every thread that holds a cown has seen the current epoch.
  `is_outdated(e)` is `e + 2 <= epoch`.
- `Pop(w, a)`: a thread dequeues a cown and records `epoch_when_popped`.
- `Finish(w)`: the thread is done with the cown.
- `Release(a)`: the last weak reference is dropped, which counts the cown in
  its home core's `free_cowns`.

**Bounds** (`MCStubCollection.cfg`): `W = 2`, one cown homed on core 1,
`MaxEpoch = 2`, `MaxEnv = 0`, `DetectLeaks = FALSE`. TLC finds 535,776 states,
depth 87, in about 30 s.
- One cown is enough for the stub's races: it can be popped by either thread,
  released, and collected by its home core's thread. A second cown multiplies
  the state space by about 25 and adds no new interleaving of a single stub.
- `MaxEpoch = 2` is the smallest bound at which `is_outdated` turns true in the
  loop. The teardown advance adds one more.
- `MaxEnv = 0` turns off LD sends and scan hints. `LeakDetector`'s own runs
  cover those, and they do not touch stubs.

**Runs.**
- `sc_safety` (pass) checks two properties:
  - `EpochSafety`: no cown a thread holds is freed. Its mutant inverts the
    outdated test at 731-733.
  - `RegistryAccounting`: while a core's thread is in its loop, `total_cowns`
    is the number of its stubs and `free_cowns` the number with weak count 0.
    While it is collecting, the drained list has `total_cowns` entries, which is
    the assertion at 763. Its mutant drops the `free_cowns` decrement at 764.
- `sc_sweep_exclusion` (violation): `NoStubCollectionWhileSweeping`, what the
  comment at 691-694 promises. TLC violates it:
  1. Both threads are in `ReallyDone_Confirm`, and the coordinator moves to
     `Sweep`.
  2. Thread 1 takes `Sweep` and runs `collect_cowns`. Its `ld_protocol`
     returns, and it stays in `Sweep` until every thread has entered it.
  3. At its next loop top thread 1 passes the stub-collection guard. The
     switch at 695 does not inhibit `Sweep`, so it drains and frees stubs.
  4. Meanwhile thread 2 is only now entering `Sweep` and running
     `collect_cowns`.

  This is recorded as a `code_bug`. It rests on the modelled coordinator,
  but any `next_state` that hands `Sweep` to threads one at a time allows it.

- `sc_teardown_collects` (violation): `TeardownCollectsStubs`, from the
  spec's statement that `collect_cown_stubs` runs unconditionally during
  teardown. A stub whose `epoch_when_popped` was never set is freed by that
  pass whatever the epoch, so none should survive teardown. TLC violates it:
  1. An LD round reaches `ReallyDone_Confirm`.
  2. `stop()` arrives. The `steal()` loop checks `running`, not the LD state,
     so thread 1 leaves its loop in `ReallyDone_Confirm`.
  3. After the barrier, its `collect_cown_stubs<true>` returns at the
     LD-state switch (697).
  4. Thread 1 finishes teardown with `c1` still registered.

  This is recorded as a `spec_code_divergence`. The property is restricted
  to never-popped stubs on purpose. A stub popped in the last epoch also
  survives, because each thread collects right after its own single
  `advance`. But that follows from the spec's two-advance rule, and the spec
  does not promise that such a stub is freed.

- `sc_free_cowns` (violation): `FreeCownsCounted`, from the spec's
  definition of `free_cowns` as the number of stubs eligible for collection.
  It should stay between 0 and `total_cowns` in every phase. TLC violates it
  in 11 steps:
  1. `c1` keeps its weak reference. Both threads stop and pass the barrier.
  2. Thread 1's `collect_cown_stubs<true>` runs with `DetectLeaks = FALSE`.
     It deallocates `c1`, whose `weak_count` is 1, and counts it in
     `removed_count`.
  3. `free_cowns -= removed_count` (764) takes `free_cowns` from 0 to -1.
     As a `size_t` it wraps.

  This is recorded as a `spec_code_divergence`. This file does not read the
  counter after teardown. With `DetectLeaks = TRUE` the same configuration
  passes (538,200 states): leaked stubs are unlinked, not counted.

**Not covered.** Teardown phase 1 (`core->collect`, the local epoch flush)
is not under `src/` and is a no-op here. `DetectLeaks = TRUE` is checked only for `FreeCownsCounted`, as noted above, and is not a kept run.

## 6. `LDCheckpoint`: the two-token LD checkpoint over real queue traffic

`LDCheckpoint.tla` extends `WorkStealing` with `n_ld_tokens`. Every
dispatcher step is taken together with its effect on the countdown:

| Action | Code |
|---|---|
| `EnterScan(w)` | `enter_scan` (667-680): `n_ld_tokens = 2`. The coordinator may move `w` into `Scan` at any `ld_protocol` call (`LDProtocol`), at most `MaxScans` times. This is a superset of what `next_state` permits, so it is sound for safety. |
| `StealLocalLD(w)` | `steal()` while running (378-392): `nothing_old()` resets the countdown to 0, then `ld_protocol`, then the local dequeue. |
| `StealVictimLD(w)` | `steal()` over victims (396-439). It pauses only in `NotInLD` (432-439), and an armed countdown means the worker is in LD. |
| `PrerunTokenLD(w)` | `prerun` on a token (462-483): only the owning core's worker counts down, and only while `n_ld_tokens > 0`. |
| `PrerunCownLD(w)` | `prerun` on a cown, then `ld_protocol` before `run` (207-228). |
| `ReschedPush(w)` | The second reschedule step (264-268), with no effect on the countdown. |
| `ReschedLD(w)`, `ReschedStealLD(w)` | The empty-queue reschedule path: `nothing_old()` resets the countdown (271-276), then the fair `fast_steal`. |

Two ghost variables record what the checkpoint is about:
- `pending[c]` holds the cowns that were in `q[c]` at `c`'s last scan and have
  not been dequeued since.
- `once[c]` holds those that have been dequeued exactly once.

A cown leaves a queue only by being dequeued, so both follow from `q` and `q'`
(`PoppedNow`).

**Run `ldc_checkpoint`** (pass). `W = 2`, two cowns, `Fair = TRUE`,
`MaxLifo = 1`, `MaxScans = 1`: 997,344 states, depth 75, about 1 min. One wake
gets a cown queued behind a token. The cown can then be woken again by another
cown's run, and the token stolen by the other core.
- `CheckpointDrained`: at `n_ld_tokens = 0`, every cown of the worker's queue
  at its last scan has been dequeued since. It has two mutants:
  - `enter_scan` arms only one sighting. The token sits ahead of a cown at
    scan time.
  - `prerun` counts any token, including one stolen from another core.

**Run `ldc_popped_twice`** (violation). This checks `CheckpointPoppedTwice`,
the invariant of spec section 2 that such cowns have been popped at least
twice. The code guarantees only once:
1. Worker 1 fast-steals worker 2's token and holds it.
2. Worker 2 scans with only `c1` queued.
3. Worker 2 pops `c1` and runs it, and `c1` sleeps.
4. Worker 2's queue is now empty, so `steal()` sees `nothing_old` and sets
   `n_ld_tokens = 0`, with `c1` popped once.

Recorded as a `spec_gap`.

**Run `ldc_checkpoint_reached`** (violation). `MCLDCheckpointLive.cfg` is
the `ldc_checkpoint` instance under `LDLiveSpec`, which adds weak fairness on
each worker's loop. It checks `CheckpointReached`: an armed countdown
eventually reaches 0, unless the pool is stopping (some worker's `running` is
false). TLC finds a fair lasso in about 1 min. No worker is stopped in it,
and `n_ld_tokens = <<1, 0>>` throughout the cycle:
1. Worker 1 runs `c1` and `c2` in turn. Each run wakes the other cown and
   sleeps. Worker 1 then always takes the loop-top dequeue (192), which does
   not check `nothing_old`.
2. Worker 2 has only its own token queued. Each time it pops that token it
   sets `should_steal_for_fairness`. Its `fast_steal` then takes worker 1's
   token whenever it is at the head of `q1`, and puts it back behind the
   cowns.
3. Worker 1 never pops its own token, so its checkpoint, and with it the LD
   vote, never comes.

Recorded as a `spec_gap`: neither the spec nor the code promises the
checkpoint under fair scheduling. It is also why `LeakDetector` assumes only
weak fairness and claims progress only up to the scan barrier (section 4).

**Not covered.**
- The `Fair = FALSE` reschedule reset (`ReschedLD`'s `~Fair` branch) is not run.
- The LD vote itself is `LeakDetector`'s.
- The scan hint is not modelled here.

## 7. Not modelled, and why

- **One composed `Scheduler` module.** `LeakDetector`'s vote runs on abstract
  token events, and `LDCheckpoint` drives `n_ld_tokens` from the real queues
  under a coordinator that may scan at any `ld_protocol` call. Composing the
  two would add nothing that is checked:
  - For safety, the combination follows from `CheckpointDrained`, which holds
    over a superset of what `next_state` allows, together with the vote's
    guard `ld_checkpoint_reached` in `PreCheck`. That the vote itself is right
    (no reachable cown is swept) depends on reachability from the roots,
    which neither module models.
  - For liveness, the combination already fails at the checkpoint
    (`ldc_checkpoint_reached`).

  The product of the dispatcher and the vote barrier is also far beyond
  TLC's reach at the sizes that make either interesting. Stub collection
  uses its own abstract pops for the same reason.
- **The scan hint's comparison (224) and `schedule_fifo`'s `scanned` test
  (115).** Both read cown epoch marks. The comparison also reads
  `Scheduler::should_scan()`. Marks and `should_scan` are defined in the cown
  and the ThreadPool, outside `src/`, and `spec.md` says only "a scan phase".
  `LeakDetector` lets either set `scheduled_unscanned_cown` on any loop
  pass. That over-approximates both for the vote.
- **`Core::scan` and `Core::try_collect`** (what `enter_scan` and
  `collect_cowns` do to the registry). They are not under `src/`, and the
  spec gives no rules precise enough to model which cowns are freed.
- **Larger dispatcher instances.** `ws_safety` at `W = 3` with two cowns
  does not finish in 7 minutes. With one cown and `MaxLifo = 1` it passes
  (1.86M states, about 1 min), but the wake path needs two cowns.
  `ws_liveness` at `W = 3` takes about 8 minutes. Victim rotation over three
  or more cores is therefore unchecked and is listed as a hazard.
- **Statistics, `progress_counter`, `last_worker`, `in_sweep_state`.** They
  are diagnostics, or read only outside this file. Lines 234-243 are mapped
  to `Run`, which leaves their effect out.
- **User behaviour inside `run`, the allocator, logging, noticeboards and
  systematic-testing hooks.** These are outside the spec. `run` is an
  environment step that may wake one sleeping cown and returns whether to
  reschedule.
