# Verification of Magic Context: shared state between processes

Magic Context keeps a long coding session usable after its transcript no longer
fits the model's window. Old raw messages are summarised by a *historian* model
into *compartments*; every later prompt carries the compartments instead of the
messages they stand for. Losing a compartment, covering a message twice, or
skipping one silently corrupts what the model remembers of the session. Several
host processes (OpenCode instances, Pi, desktop and TUI) may have the same
session open and share one SQLite file, `context.db`. The modules here are about
that shared state: who may write compartments, when, and what is true afterwards;
and, around it, the protocols with which processes share a budget, a nudge, a
marker in the host's database, a background lease and schedule, and the
shared-memory ring that carries frames between the plugin and the Rust host.

## 1. Inventory

Paths are relative to `src/packages/plugin/src` unless they start with `src/`.

| Component | State it keeps | Operations | Talks to | What makes it correct |
|---|---|---|---|---|
| Compartment lease (`features/magic-context/compartment-lease.ts`) | one row per session: holder id, expiry | acquire, renew, release, held? | every writer of compartments | at most one run that can still publish; nothing left behind by a living process |
| Historian starter (`hooks/magic-context/compartment-runner.ts`, `transform-compartment-phase.ts`) | `activeRuns` (per process), `compartment_in_progress` flag | start, refuse, renew timer, finally | lease, wrapup marker, run | every exit gives the lease back; runs end |
| Incremental run (`compartment-runner-incremental.ts`) | offset, sequence number, chunk, draft across a model call | validate, cut chunk, call model, publish, finish | lease, storage, boundary, quota | published history is contiguous and append-only |
| Output validation (`compartment-runner-validation.ts`, `-historian.ts`) | none | parse, heal, validate, retry | run | accepted ranges are adjacent and inside the chunk |
| `/ctx-wrapup` (`wrapup-orchestrator.ts`) | durable marker with expiry | wait, loop over chunks, release | lease, run, session_meta | owns publication while its marker lives; ends; keeps at least one message |
| session_meta (`features/magic-context/storage-meta-persisted.ts`) | publication floor, pending marker, wrapup marker, emergency recovery, drain reservations | get/set inside transactions | all of the above | floor and marker move with the compartments |
| Recomp (`compartment-runner-recomp.ts`, `-partial-recomp.ts`) | staging rows, partial range | read or resume, pass, finish, promote, clean up | lease, storage, upgrade reminder | what is promoted was validated; a partial recomp touches only its range |
| Compartment storage (`features/magic-context/compartment-storage.ts`) | compartments, `recomp_compartments` | append, stage, promote, clear | session_meta | replaced atomically |
| Trigger and protected tail (`compartment-trigger.ts`, `protected-tail-boundary.ts`) | none (reads tokens and messages) | decide, resolve boundary | host database | the live tail is never compacted |
| Drain quota (`storage-meta-persisted.ts`, `compartment-runner-incremental.ts`) | tokens reserved in a window, emergency latch, failure time | reserve, roll back, record failure, clear | incremental run | the counter is what the window has cost; a lost run does not starve the next window |
| Compaction marker (`compaction-marker-manager.ts`, `features/magic-context/compaction-marker.ts`, `inject-compartments.ts`) | owned marker, deferred target, degraded count; rows in the host's database | drain, move after a recomp, remove, reconcile a fork, check at start | both databases, publication, undo | the host hides only what a compartment summarises; a crash between two writes is repaired |
| Channel-2 nudges (`channel2-delivery.ts`, `channel2-cycle.ts`, `storage-db.ts`) | state, claim token and claim time | arm, claim, verify, send, confirm, restore, heal | host, transform pass | one message per cycle; no claim is stuck |
| Dreamer (`features/magic-context/dreamer/lease.ts`, `task-scheduler.ts`, `storage-task-schedule.ts`) | domain leases with generations; due time and retries per task | plan, acquire, heartbeat, guarded write, record | context.db | no write under another generation; a due slot is served and retried a bounded number of times |
| Memory claims, embeddings, smart notes, indexes | claims with revisions, FTS rows | propose, merge, search | kernel | revisions are monotone |
| Shared-memory ring (`src/crates/mc-shm-transport/src/backend/ring.rs`, `arena.rs`) | descriptor slots, byte arena, cursors, wake epochs, doorbells | reserve, write, commit, abort, receive, release, reclaim, park, signal | plugin and mc-host | frames arrive once, in order and intact; nobody sleeps through a signal |
| Rest of the Rust side (mc-host, mc-kernel, mc-store, mc-module) | supervisor, job table, claim store | see PROJECT.json | plugin over the ring | compare-and-swap |
| Adapters, CLI, TUI, Pi plugin, tokenizer, secret scanner | mostly none | | | not about shared state |

`PROJECT.json` lists every component with its status, and under `hazards` the
places where the code could go wrong in a way that tests hardly reach.

What is hard in the core:

* a model call of minutes lies between reading the last compartment and
  publishing after it, and the lease may expire meanwhile (suspended laptop,
  blocked event loop);
* expiry is compared against wall-clock time, which may step back;
* a process may die between any two statements and leave lease, marker, flag,
  staging rows or range behind;
* `/ctx-wrapup` writes its marker while an incremental run of another process
  is between its first look at the marker and its lease;
* staging rows of a recomp outlive the run that wrote them and are resumed by a
  later run, perhaps of another kind, range or process;
* two databases (context.db and the host's) are written without a common
  transaction, by processes that fail and die between the writes;
* a nudge is claimed, sent through a host call that may stall or lose its reply,
  and confirmed, while another process may heal the claim;
* a background task outlives its lease, and schedule rows are read and written
  outside any transaction;
* the two sides of the ring park and signal through shared words, without a lock.

## 2. Modules

| Module | Models | Uses |
|---|---|---|
| `CompartmentRanges` | a compartment list and its validation, `MAX(sequence)+1`, the split of a chunk into adjacent ranges | |
| `LeaseRow` | an expiring row: `compartment_state_lease` and the wrapup marker | |
| `CompactedHistory` | the abstract specification: an append-only list of adjacent ranges whose floor moves with it | `CompartmentRanges` |
| `Historian` | starter, incremental run, publication, `/ctx-wrapup`, crashes and clocks of any number of processes | all of the above |
| `Recomp` | full and partial recomp, staging, range, resume, promotion, upgrade reminder | `CompartmentRanges`, `LeaseRow` |
| `DrainQuota` | reservation, rollback, window, latch and failure backoff of the historian's token budget | |
| `CompactionMarker` | the marker of one session across the two databases: deferred drain, recomp, undo, fork hygiene, restart | |
| `Channel2` | the channel-2 nudge of one session: arming, claim, send, confirm, restore, heal | |
| `FencedWriter` | abstract specification: grants in increasing order, and writes of the newest grant only | |
| `DreamLease` | a domain lease with generation, heartbeat and guarded writes | `FencedWriter` |
| `DreamSchedule` | the task rows of one domain: seeding, reconciliation, planning, running, recording | |
| `FrameChannel` | abstract specification: a FIFO queue of frames, leased in order and completed in any order | |
| `ShmRing` | one direction of the ring: slots, arena, page removal, parking and doorbells | `FrameChannel` |
| `MC*` | the modules TLC is run on | |
| `HistorianProofs`, `RecompProofs`, `DrainQuotaProofs`, `CompactionMarkerProofs`, `Channel2Proofs`, `DreamLeaseProofs`, `DreamScheduleProofs`, `ShmRingProofs` | lemmas and theorems, each about the module it is named after | |

Three detailed modules are shown to implement an abstract one
(`INSTANCE ... WITH`, the abstract specification as a property):

| Detailed | Abstract | Mapping | Property |
|---|---|---|---|
| `Historian` | `CompactedHistory` | compartments and floor | `HistoryRefined` (also proved) |
| `DreamLease` | `FencedWriter` | `granted` is the generation row, `written` the generation of the last fenced write | `OnlyNewestWrites` (also proved) |
| `ShmRing` | `FrameChannel` | the queue is the payloads of the frames between `consumed` and `published`, 0 for one whose bytes are damaged | `DeliversFrames` (also proved) |

Definitions whose comment begins with *Variant:* are deliberately wrong versions
of the definition that follows. No specification uses them; they show that a
property notices the mistake.

### Historian

One action is what a process does up to a point where another process could
come between: a statement against `context.db`, or an await.

`run[p].pc` follows a compartment run: `idle` → `starting` (first look at the
wrapup marker passed) → `leased` (row written) → `granted` (second look passed,
`runCompartmentAgent` entered) → `drafting` (compartments read, chunk cut,
awaiting the model) → `drafted` (validated output) → `committed` (transaction
done) → `settling` (`finally`: lease about to be released). `wrap[p].pc` follows
`runManagedWrapup`: `waiting` for an incremental run of its own process, the
chunk `loop`, `leasing`, `running` one chunk, `iterated`, `closing`.

`lease` and `marker` are rows of `LeaseRow`: a holder and the ticks that are left.
Holder ids are fresh UUIDs, so after a crash the row belongs to `Orphan`, an id
nobody presents again. `Tick` ages both rows; `ClockStepsBack` makes expired ones
live again. A process that is not `Punctual` may sleep through any number of
ticks, which stands for a renewal timer that fires late.

Choices that look free in the model and are decided by data in the code: where a
chunk ends below the eligible end, how the model splits it, whether the
provisional last compartment is dropped because a tool arc would be cut, whether
the quota refuses, whether a run fails. The conditions around them are the code's.

Some points of correspondence:

* `Publish` leaves `marker` alone. The wrapup check inside the transaction opens
  a nested `BEGIN IMMEDIATE` to reap an expired marker; SQLite refuses it and the
  error is caught (`storage-meta-persisted.ts:501-506`), so nothing is reaped.
* `emergency` keeps its value at `Publish` only while a wrapup's marker is live.
* A transaction that throws is rolled back and ends the run (`RunFails`).
* `getLastCompartmentEndMessage` gives -1 for an empty list and the model 0;
  every comparison in which it is used comes out the same.
* `activeRuns` is emptied a little before the lease is released when a run ends
  without work; the model keeps the process busy until the release. A start in
  that window would only be refused by the lease.
* The wrapup's target is computed once; the code recomputes it from the same
  anchor message.
* The paths "no forward progress" and UNIQUE clash are left out: validation and
  the lease make them unreachable, and `PublishIsFresh` is the reason.

### Recomp

A row's position is its sequence number and `gen` says which kind of run wrote
it. `Save` is `INSERT OR REPLACE` by sequence: rows beyond the new list stay.
Incremental publication is one step, which `Historian` justifies. `Snapped` is
`snapRangeToCompartments`; `PartialSeeds` and `PartialMarksRange` are the two
statements that set up a fresh partial recomp; `FinishPartial` is `promoteFinal`;
`Cleanup` is the `finally` that drops staging rows without a range.

### DrainQuota

`tokens`, `window`, `latch` and `failure` are columns of `session_meta`; `run[r]`
is a historian run between its reservation and its end. `Reserve` is one
transaction: new window or not, latch, remaining quota, cap, bypass.
`ReserveNothing` is a run that needs no tokens or is exempt (a wrapup's): it goes
on without looking at window or latch. Each exit of `runCompartmentAgent` after the
reservation is an action that gives it back or, where the code keeps it as a retry
throttle, does not. The publication forgets the reservation inside its transaction
(`compartment-runner-incremental.ts:610`) before its last statements
(`:611-626`): `PublicationFailsLate` is a failure in those, which rolls the
transaction back but loses the reservation to the window. The budget of a window
has the three bands of `storage-meta-persisted.ts:716-726`. Times are ages in ticks.
`spent`, `bypassed`, `stray` and `failures` are history: what the current window
really cost, what the latch let through, what a run of an earlier window gave
back into this one, and failed passes. Exits "no forward progress" give the
reservation back and record no failure, so they are not throttled.

### CompactionMarker

A message is its place in the host's order, its ordinal its place among those
present. A lineage is the pair of rows `injectCompactionMarker` writes, a part
and a summary message, named by boundary and target because their ids are a
function of both. `run[p].pc` is how far a marker operation is: `removing`,
`forgetting` (a recomp records that the old one is gone), `injecting`,
`persisting`, `clearing`; `dropping` (the rows of a marker that is given up go)
and `dropped` (context.db still names it), for a removed message, for the host's own
compaction and for the check at startup; `reconciling` and `deleting` belong to the
fork hygiene. Each step is one transaction of one of the databases, and `StepFails`
and `Crash` may come before any of them. `Window` is where the host's
`filterCompacted` starts, modelled from how the plugin relies on it.

A revert deletes messages and summaries in the host's database and leaves the
events about them in `removed`; they are handled one at a time, before or after any
other step, and an event whose clean-up fails is gone. `baseline` is the end at
which the process's cached history was cut: a pass that may not change the prompt
trims at it (`TrimEnd`, `inject-compartments.ts:450-465`), and only what is shown
after that counts as a degraded rebuild. `pendingMarkerCoveredByConsumedBoundary`, a
gate before the drain that only delays it, is left out.

### Channel2

`state` and `claim` are the nudge columns, `pc[s]` a delivery attempt. `Cas` and
`CasClaim` are the compare-and-swap updates. Faults are counted by kind: a crash,
a stall past the heal's age, a lost reply, a busy row, compaction switched off.
What arms a nudge is a free choice.

### DreamLease and DreamSchedule

`DreamLease` has the three rows of a domain (holder, expiry, generation) and the
runs that want it. A beat is `Renew`, then `Compare` and `Reclaim` when the lease
is not its own or has lapsed, each a statement; a run sleeps through any number of
ticks between them. `Fenced` are the runs whose tasks pass the generation to
`runLeaseGuardedWrite`. The tasks that do not are the ones at `classify.ts:681`,
`map-memories.ts:374`, `verify.ts:119` and `:712`, `promote-primers.ts:215` and
`refresh-primers.ts:290`; for them `WriterIsCurrentOrTold` is what is left.

`DreamSchedule` takes the lease as a holder that may lapse. A pass is one call of
`runDueTasksForProject` or `runManualDream`; rows are read and written where the
code does it, outside the lease, and every read and every write is a step: the loop
of `planDueTasks` seeds a row (`Seed`), reads it (`ReadStored`), writes it back for a
changed schedule (`Rewrite`, `task-scheduler.ts:112-130`) and reads it again to see
whether it is due (`Look`), and each gate reads it once more. A rewrite that puts an
old count over a newer one is counted among the `faults`. A cron expression is a free next slot, and all
passes have the same one: processes configured with different crons recompute
each other's due time on every tick, and the code does not say what they should
converge to.

### ShmRing

A step is one access to a word the other side writes. Bytes hold the number of
the frame they were written for, so that a payload is intact exactly if its bytes
still carry its number. `TryReserve` includes `reclaim_completed` with its page
removal. The waits of both sides go through the same places (`generation`,
`park`, two looks, `drain`, a third look, `blocked`), and `signal_wake` is the
three steps `Bump`, `SwapPark`, `Ring`. A `drain` that fails ends the wait with an
error (`failed`), after which the channel is retired; the producer takes its park
back first, the consumer does not. A blocked side is woken by its doorbell or by an
event that is not about the ring (`OtherEvent`, another branch of the host's
`select!`); `GivesUp` is the deadline of `wait_for_data` and `reserve_until`, which
not every wait has. Steps are sequentially consistent: the code uses `SeqCst` for the wake words and acquire/release pairs elsewhere, and
reorderings weaker than that are not modelled.

## 3. Runs

Distinct states are in brackets.

| Run | Checks | Instance |
|---|---|---|
| `historian` [222,644] | `TypeOK`, `ContiguousHistory`, `PublishIsFresh`, `FloorTracksHistory`, `TailProtected`, `LeaseHasOwner`, `MarkerHasOwner`, refinement `HistoryRefined`, `WrapupOwnsPublication` | 2 processes, one of which wraps up, 3 messages, both may crash, no punctual timers, clock steps back |
| `liveness` [26,702] | `WrapupsEnd`, `EventuallyCompacted` | 2 processes, 2 messages; one wraps up and crashes |
| `recomp` [409,903] | `RecompContiguous`, `PromotedIsCandidate`, `PartialPreserves`, `PartialKeepsCoverage` | 2 processes, 3 messages, both kinds, crashes, upgrade reminder, renewals in time |
| `channel2` [38,360] | `SentOncePerCycle`, `InFlightKeepsClaim`, `DeliveredWasSent`, `ClaimsEnd` | 3 attempts, 2 faults of every kind |
| `dream_lease` [3,499,948] | `WriterIsCurrentOrTold`, refinement `OnlyNewestWrites` | 3 runs of two tasks each, two of them fenced, validity 2, one clock step back |
| `dream_schedule` [234,937] | `RetriesBounded`, `SlotNotWasted`, `DueIsServed` | 2 passes, 1 task, 1 retry, 2 faults |
| `drain_quota` [471,744] | `QuotaIsHonest`, `WindowBudget`, `FailuresThrottled`, `QuotaComesBack` | 2 runs, budgets 1, 2 and 3, window and backoff of one tick, up to 4 tokens in a window |
| `marker` [1,093,061] | `OneLineagePerBoundary`, `HiddenIsSummarised`, `PendingNotLost` | 1 process that drains and recomps, 3 messages, undo, failures, crashes |
| `marker_fork` [250,392] | `PendingIsSettled`, `FirstMissIsRepaired` | a fork of 3 messages; a process that drains, renders and crashes, and a second one that recomps |
| `ring` [436,353] | `SharedStateIsValid`, `BytesConserved`, refinement `DeliversFrames` | 2 slots, 4 bytes in 2 pages, 2 leases, 4 frames of 1 or 3 bytes, failing system calls |
| `ring_wake` [76,032] | `ParkedIsCalled`, `ParkedIsWoken` | 1 slot, 2 frames, blocking waits, failing system calls |
| `ring_sleep` | violation of `SleeperIsCalled` | 1 slot, 2 frames, blocking waits |

**Bounds.** `MaxRaw` bounds the raw messages. Three are needed for two
publications with a provisional last compartment between them, and for a prior
part, a range and a tail in a partial recomp. Two processes are enough for
everything about lease and wrapup marker, which know only their owner and the
others; the theorems are about any number. A validity of one tick is enough for
safety where the code compares expiry with `now` and nothing else: live and
expired are the only cases. The `liveness` run gives the marker two, so that
time can pass between two renewals of a wrapup that would go on for ever without
its progress check. `Slack = 0` is the strict end of the discard-last rule; with
the small chunks of the model a larger slack only makes the rule apply always.
`ProtectedTail = 1` in `historian`: a wrapup keeps at least one message and has no
other minimum, so `TailProtected` is promised to it only up to 1.

In `recomp` both processes are `Punctual`, because without it the property fails
in the code too (below). Symmetry over processes is used there, where no liveness
property is checked. `channel2`: two faults let a claim be healed
under its owner and taken by a second sender that is struck as well; with one
fault more the reachable cases repeat. `dream_lease`: three runs give a stalled
holder, its successor and the successor's; a validity of two lets a heartbeat find
its lease old and still live; one step back is enough because ages saturate at the
validity. Symmetry is over the two fenced runs. `dream_schedule` has one task: with
two, manual passes that keep the lease busy with the other task postpone a due one
for ever, which the code allows; one retry is the first at which a count can be
overwritten by an older one. `drain_quota`: a window of one tick lets every run
outlive it; with budgets of one, two and three each band has room for one
reservation more than the one below, and the fourth token is one that the latch
lets through. What `FailuresThrottled` says of the budget can be broken there (a
failure that gave its reservation back would repeat for ever); its other part, the
backoff between passes over the budget, takes eight tokens to break and rests on
the theorem.
`marker`: three messages with users at 1 and 3 separate the target from the
boundary before it and from the message after it. One process is enough for what a
crash or a failure leaves behind; the theorems about `OneLineagePerBoundary` and
`HiddenIsSummarised` are about any number. `marker_fork` has no undo, which takes
two processes to tens of millions of states (with `Procs = {p1}`, `MayCrash = {}` and
`Reverts = TRUE` its properties hold too), and no failing calls, because a failed
hygiene pass is not repaired (below). `ring`: four bytes with frames
of one and three wrap, fill and share pages; four frames use each slot twice.
Counters that only grow (`generation`, cursors) are bounded by the frames or runs
of the instance.

`CHECK_DEADLOCK FALSE` in the `Historian` runs (a session without new messages,
clock steps or users is at rest) and in `ring` and `ring_wake` (all frames are
sent, or the ring is quarantined).

**Fairness.** *Historian* (`FairSpec`). Weak fairness of a living process's own steps
(`RunProgress`, `WrapupProgress`): JavaScript continues after an await, model
calls and the wrapup's waits have timeouts, and `RunFails` and `WrapupTimesOut`
are among those steps. Weak fairness of `Tick`: time passes. For processes that
do not crash also `Persistent`: passes keep coming while something is eligible
(weak, `StartAgent`), and a lease that is free again and again is got, a quota
window that reopens again and again is used, a model that is asked again and
again answers, and a transaction that is tried again and again commits (strong).
`WrapupsEnd` does not need `Persistent`; `EventuallyCompacted`,
which is about progress and not just about ending, does. In this run the clock
does not step back and the surviving process renews in time: a lease that
expires before every publication starves compaction in the code too.

*Channel2*: time passes, some process opens the database and heals, and an
attempt goes on while its process lives. *DreamSchedule*: the timer ticks in every
process (strong, since a pass may be in the way), a pass goes on, because the
executor has a deadline, and an orphaned lease runs out. *DrainQuota*: time
passes, runs end and the trigger asks again (strong: usage may forbid it for a
while). *CompactionMarker*: passes keep coming (strong, `DrainReads` and `Rebuild`,
since an operation may be in the way), among them some that may change the prompt;
a process finishes what it began unless it is struck down, one that is down comes
back, and crashes and failures, as many as they are, come to an end: between two
passes hours may go by, and nobody is struck in each of them for ever. *ShmRing*: a
side that is awake goes on with its wait, or with the signal it has begun. No
deadline is assumed and no poll: the host's own loop (`ring_transport.rs:437-485`)
waits without one, and nothing but the signal, the bell it rings or another event
ends its wait.

### What the runs show

The lease, checked again inside the publication transaction, is enough for
incremental and wrapup runs: stalled runs, expired leases, late renewals and
clock steps never produce a gap, an overlap or a duplicate sequence number, and
floor and deferred marker move with the compartments. The reason is that a lease
row is never brought back for a run once another run took it, so an id that is
still in the row means that nobody published since the offset was read.

The nudge's claim token does what it is there for: only a fault between claim and
confirmation can cost a second message, a fresh claim is never taken over, and no
claim stays for ever. Fenced dreamer tasks never write under or after a successor's
generation; unfenced ones can, after a clock step back, but not without having
been told. A drain budget is overspent only by what the latch lets through and by
rollbacks that arrive after their window (a run that outlives its window gives its
tokens back to the next one, which is then undercounted); a publication that fails
late costs its window a reservation for nothing, and the next window starts afresh. A crash between any two
writes of a marker move leaves rows that the next drain, restart or injection puts
right. The ring is a FIFO channel of intact frames although slots, arena and pages
are reclaimed independently.

### Where the code and its documentation disagree

`ring_sleep` is the one with a run. `signal_wake` increments the generation and
only then takes `parked`. A side that parks between the two has read the new
generation, so both of its comparisons succeed; the signal takes its park and
rings for the old cause; `drain` swallows that ring; and the side blocks with
`parked = 0`. The next signal sees nobody parked and rings nobody: the side sleeps
until its deadline, or, in the host's loop, until some other event.
`ParkedIsCalled` says that this is the only way, a park that still stands is
always answered, and `ParkedIsWoken` that such a side wakes without the help of a
deadline.

The following are stated as properties of the modules as well. TLC refutes each
of them in seconds with the constants given (the others as in the component's
run); no run is kept for them.

| Property | Constants | The code | The documentation |
|---|---|---|---|
| `Historian!FlagCoversRun` | two processes | a process that is refused the lease clears `compartment_in_progress` while the holder's run is active (`compartment-runner.ts:126`); the lease keeps it harmless | "`compartmentInProgress` remains true while a background run is active" (`transform-compartment-phase.ts:129`) |
| `Recomp!FullReplacesAll` | `Procs = {p1}` | a full recomp resumes the staging of an unfinished partial one (`compartment-runner-recomp.ts:171`) | "Full recompilation replaces all compartments" (`compartment-runner.ts:187`) |
| `Recomp!PartialPreserves` without its second conjunct | `Procs = {p1}`, `Punctual = {}` | a range left by a crash after the promotion lets a partial recomp adopt a full one's rows and replace compartments before its range (`compartment-runner-partial-recomp.ts:283`) | "Partial recompilation preserves compartments before and after the selected range" (`compartment-runner.ts:183`) |
| `Recomp!RangeIsRebuilt` | `Procs = {p1}`, `Kinds = {"partial"}` | prior rows and range are two statements; after a crash between them rows are resumed under an older range (`:209`) | "Rebuilt compartments covering messages" (`:443`) |
| `Recomp!RecompContiguous` | `Punctual = {}` | `saveRecompStagingPass` does not look at the lease, so a recomp that outlived its lease mixes its rows into the new holder's (`compartment-runner-recomp.ts:425`) | `src/docs/AUDIT-KNOWN-ISSUES.md:462` |
| `Recomp!StagedFullSurvives` | `Procs = {p1}` | a partial recomp that is refused because a full one is staged deletes that staging in its `finally` (`compartment-runner-partial-recomp.ts:460`) | "Resume it by running `/ctx-recomp` without arguments" (`:175`) |
| `Channel2!StaleClaimIsPendingAgain` | | the heal empties the state (`storage-db.ts:553`) | "stale/legacy claims rewind to `'pending'`" (`src/docs/AUDIT-KNOWN-ISSUES.md:599`) |
| `DreamLease!LiveLeaseIsNotLost` | | the heartbeat of a group's second task counts from the group's acquisition, so one busy renewal gives up a live lease (`lease.ts:216`, `:262`) | "A transient `SQLITE_BUSY` renewal failure does not abort the task" (`lease.ts:192`) |
| `DreamSchedule!DisabledNeverFires` | `Disabling = {p1}` | `recordTransientFailure` reads and writes in two statements and brings a due time back after another pass disabled the task (`task-scheduler.ts:223`) | "An empty `schedule` disables the task, so it is never due" (`:35`) |
| `DrainQuota!LatchSelfExpires` | | at or above the force band the latch's age is not looked at (`storage-meta-persisted.ts:797`) | "The system expires the latch after its maximum active duration" (`:741`) |
| `CompactionMarker!HiddenIsSummarised` | `Shorter = TRUE`, `MaxMessage = 4` | a recomp that ends short of the recorded target leaves the marker, and the host hides messages of no compartment (`compaction-marker-manager.ts:175`) | "`filterCompacted` stops at the historian's last compartment" (`src/ARCHITECTURE.md:156`) |
| `CompactionMarker!MovesForward` | two transforming processes | a drain stalled before its record overwrites a newer marker (`:273`) | "The manager only moves the boundary forward" (`:305`) |
| `CompactionMarker!OwnedSurvivesReconcile` | two transforming processes, one of them rendering, `Forked = TRUE`, `Shorter = TRUE`, `MaxMessage = 4` | re-read and deletion are on two databases (`:510`) | "to avoid deleting a marker that became owned after the scan" (`:504`) |
| `CompactionMarker!OutrankingIsRemoved` | `Forked = TRUE` | hygiene runs at a degraded count of exactly 1 and its result is dropped (`inject-compartments.ts:507`) | "`failed` causes the caller to retry during the next degraded pass" (`:441`) |
| `ShmRing!ReservationIsOwned` | `Nested = TRUE` | reclaim takes the first page for empty when only a reservation uses it (`ring.rs:1556`) | "active reservation owns range" (`ring.rs:1675`) |
| `ShmRing!RefusedIsNotReceived` | as `ring_wake` | a commit whose doorbell fails has already published its frame (`ring.rs:1646`) | "Any failure aborts the reservation before returning an error" (`ring.rs:1796`) |

## 4. Proofs

Each theorem holds for every value of the constants that satisfies the assumptions
of its component's module (naturals are naturals, sets are subsets, special ids
are not processes) and the hypotheses named here, where it has any. Except for the
last one in the list below the table, a hypothesis is there because TLC refutes the
statement without it; the list says what behaviour it excludes.

| Module | Theorem | States | Hypothesis |
|---|---|---|---|
| `HistorianProofs` | `TypeCorrect` | `Spec => []TypeOK` | |
| | `HistoryIsContiguous` | `Spec => []ContiguousHistory` | |
| | `LeasedRunIsFresh` | `Spec => []PublishIsFresh` | |
| | `FloorFollows` | `Spec => []FloorTracksHistory` | |
| | `HistorianRefinesHistory` | `Spec => HistoryRefined` | |
| | `LeaseIsOwned` | `Spec => []LeaseHasOwner` | |
| | `MarkerIsOwned` | `Spec => []MarkerHasOwner` | |
| | `TailStaysRaw` | `Spec => []TailProtected` | no wrapup, or `ProtectedTail <= 1` |
| | `WrapupPublishesAlone` | `Spec => WrapupOwnsPublication` | at most one process wraps up |
| `RecompProofs` | `RecompTypeCorrect` | `Spec => []TypeOK` | `Procs \subseteq Punctual` |
| | `RecompKeepsContiguous` | `Spec => []RecompContiguous` | the same |
| | `PromotesItsCandidate` | `Spec => []PromotedIsCandidate` | the same |
| | `PartialKeepsReach` | `Spec => PartialKeepsCoverage` | the same |
| | `PartialKeepsOutside` | `Spec => PartialPreserves` | the same |
| `DrainQuotaProofs` | `QuotaTypeCorrect` | `Spec => []TypeOK` | |
| | `CounterIsHonest` | `Spec => []QuotaIsHonest` | |
| | `WindowKeepsBudget` | `Spec => []WindowBudget` | |
| | `FailuresAreThrottled` | `Spec => []FailuresThrottled` | finitely many `Runs` |
| `CompactionMarkerProofs` | `MarkerTypeCorrect` | `Spec => []TypeOK` | |
| | `LineageIsUnique` | `Spec => []OneLineagePerBoundary` | |
| | `HiddenIsCovered` | `Spec => []HiddenIsSummarised` | `~Shorter` |
| `Channel2Proofs` | `NudgeTypeCorrect` | `Spec => []TypeOK` | |
| | `OnlySentIsDelivered` | `Spec => []DeliveredWasSent` | |
| | `InFlightHasClaim` | `Spec => []InFlightKeepsClaim` | |
| | `OneMessagePerCycle` | `Spec => []SentOncePerCycle` | |
| `DreamLeaseProofs` | `LeaseTypeCorrect` | `Spec => []TypeOK` | |
| | `LeaseIsFencedWriter` | `Spec => OnlyNewestWrites` | |
| | `UnfencedWriterIsTold` | `Spec => []WriterIsCurrentOrTold` | |
| | `GenerationNamesItsRun` | `Spec => []OneRunPerGeneration` | |
| `DreamScheduleProofs` | `ScheduleTypeCorrect` | `Spec => []TypeOK` | |
| | `RetriesAreBounded` | `Spec => []RetriesBounded` | |
| | `SlotIsUsed` | `Spec => SlotNotWasted` | |
| `ShmRingProofs` | `RingTypeCorrect` | `Spec => []TypeOK` | |
| | `RingStateIsValid` | `Spec => []SharedStateIsValid` | |
| | `StandingParkIsCalled` | `Spec => []ParkedIsCalled` | |
| | `RingIsChannel` | `Spec => DeliversFrames` | `~Nested` |
| | `BytesAreConserved` | `Spec => []BytesConserved` | |

What the hypotheses exclude:

* `TailStaysRaw`: `/ctx-wrapup` is meant to compact the tail and keeps one message.
* `WrapupPublishesAlone`: with two wrappers, a wrapup whose marker expires between
  the check of its loop and its lease acquires the lease without looking at the
  marker again, which is then the other wrapup's.
* `RecompProofs`: a recomp that outlived its lease goes on writing staging rows
  next to those of the new holder (`Recomp!RecompContiguous` in the table of
  section 3).
* `HiddenIsCovered`: a recomp that ends short of the marker (same table).
* `RingIsChannel`: a caller that reserves again while it holds a written
  reservation may have the first page of it removed by the reclaim of the second
  call (`ShmRing!ReservationIsOwned` in the table of section 3), and then commits a
  damaged frame. `BytesAreConserved` covers such callers too: the second
  reservation takes the place of the first, in the slot's charge as in the arena.
* `FailuresAreThrottled`: nothing; the bound it states is a multiple of the number
  of runs.

### The arguments

*Historian.* `ContiguousHistory` is not inductive: `Publish` appends a draft
made minutes earlier. What carries it is `PublishIsFresh` (a run whose id is
still in the lease row, live or not, holds the current offset and sequence
number) together with `DraftWellFormed` (a draft is the split of a non-empty end
list within its chunk, numbered from its sequence number). So
`IInv == TypeOK /\ ContiguousHistory /\ PublishIsFresh /\ FloorTracksHistory /\
DraftWellFormed`. `PublishIsFresh` is preserved by `AcquireLease` and
`WrapupAcquiresLease` because they put the id of a run that has read nothing yet
into the row; by `BeginRun` because it reads the current values; and by another
run's `Publish` because that run holds the row. Steps that leave compartments
and drafts alone share one lemma (*quiet* steps). The first section of
`HistorianProofs` has the facts about lists: what `LastEnd` and `NextSequence` are after an append, and
that appending a split keeps a list contiguous and numbered. The refinement
follows from the same invariant: `Publish` is a `CompactedHistory` publication of
the draft's end list, and every other step leaves both variables alone.
`LeaseHasOwner` and `MarkerHasOwner` are inductive together (`RowOwners`).
`TailProtected` needs `HeadOnly`: chunks, drafts and history end before the
messages that are kept, and raw messages only arrive. `WrapupOwnsPublication`
needs `WrapupRuns` (a run of kind wrapup is the one its wrapup waits for) and
`WrapupAlone` (once the wrapup that owns the marker had the lease, another run
has it only to look at the marker and give it back).

*Recomp.* A punctual recomp holds the lease from its first step to its last
(`Alone`), so one is under way at most; what is staged is then its candidate or
nothing (`Staged`), a candidate about to be promoted has been validated, and a
partial candidate ends where the compartments do (`Reaches`).
`RecompInv == TypeOK /\ Alone /\ RecompContiguous /\ Staged /\ Reaches`. A crash
leaves rows behind that are no list of a run; the next run validates what it
resumes, which is why nothing has to be said about them. `PartialPreserves` does
say something about them: `KeepInv` is that the rows staged under a range, and
those of a run that resumed them, are compartments as far as they start before that
range, except for what a full recomp staged (`Kept`), and that a partial recomp
knows every compartment behind its range (`Tailed`) and no other row there
(`Among`). Incremental runs only append and a promotion ends the run, so both
survive what happens in between. A list that covers every message, reaches as far
as the compartments and agrees with them on both sides of the range then has every
row outside of it, because two rows of one list do not overlap (`InOrder`,
`CoversAll`, `OutsideIsKept`).

*DrainQuota.* The counter is compared with what runs have reserved, and a run may
give back what it reserved. To count without sums, a reservation is the set of
pairs `<<run, token>>` up to its size (`Units`), and `Covered` says that the units
of current runs are among the tokens spent, and those of runs past the budget
among the tokens that the latch let through.
`QuotaInv == TypeOK /\ Covered /\ QuotaIsHonest /\ WindowBudget`.
`FailuresThrottled` bounds failures by two different things, and `Throttled` keeps
them apart: of the failures, `v` were paid for by the budget of the window, as the
reservations of its runs still are (`Paying`), and `u` were not, because their runs
reserved under the latch or in an earlier window. Those come in rounds of at most
all runs, and between two rounds a backoff passes (`Spread`, and `Apart` for the
rounds before the last failure), so the window has time for few of them.

*CompactionMarker.* `MarkerInv` says that compartment ends are numbered and in
order and that the recorded marker, and a marker that is being written, is
`Sound`: at a user message, not behind its target, which exists.
`HiddenIsSummarised` adds `RowsBehind` (rows, and those about to be written, are
behind the last compartment). Both are about any number of processes, undo, crashes
and failures included.

*Channel2.* `ClaimIsLive` ties the row's token to an attempt that is under way,
past the host only if the cycle has its message; with it `Confirm` cannot deliver
what was not sent. `InFlightKeepsClaim` adds that without a stall an aged claim is
nobody's (`OnlyFaultsTakeClaims`). `SentOncePerCycle` is an account
(`Ledger`): messages sent, attempts that can still send and a clearing under way
are together at most the cycle's own message, when it is still owed, and the
faults so far.

*DreamLease.* For the refinement `HolderHasGeneration` (a holder row implies a
generation above 0) is enough: a step takes the lease, under
the old generation for its old holder and under the next one for anybody else,
or lets a holder write, or releases it, or leaves holder, generation and the last
write alone (`StepKinds`); and a fenced write compares generations in its
own transaction. `WriterIsCurrentOrTold` is about unfenced tasks, that only look
at the holder: `LeaseInv == TypeOK /\ TaskKnows /\ OneRunPerGeneration`, where
`TaskKnows` says it for every place of a task, not only for those before a write.

*DreamSchedule.* `RetriesBounded` is an account again. An execution is in the
retry count of the row, in progress under the lease (`Turn`), or lost: a pass that
went on after its lease lapsed may write an old count over a newer one. So
`Accounts` charges every such pass (`Strays`) with `MaxRetries` beforehand and
gives each crash or lapse the credit of a slot's executions; there are never more
strays than faults. `Records` says the same of the count a pass has read and is
about to write back. `ScheduleInv == TypeInv /\ Accounts /\ Records`, where
`TypeInv` adds to `TypeOK` that a pass at work is at work on a task (`AtTask`) and
that a disabled row is not due (`RowsSound`). Steps that leave rows, lease and
workers alone share one lemma (*calm* steps). `SlotNotWasted` needs only `TypeInv`:
seeding and reconciling never move a due row to its next slot (a disabled task's
row has none), and what else moves it is a pass that has run the task or found
nothing to do.

*ShmRing.* `SharedStateIsValid` is about the completed run at the head of the
ring, which a `Max` over slots defines (`LastIs` and `LastIsUnique` replace it by
its two properties). Slots are found by remainder, so the arithmetic comes first:
frames of a window of `Depth` numbers have slots of their own (`SlotsDiffer`),
and every slot belongs to one of them (`SlotsCover`). The invariant `SpaceInv` is
`SpaceType`, `Spans` (the live frames lie one behind the other between the arena
cursors), `SlotsInUse` (what a slot says of completion is not ahead of
`consumed`), `HeldFits` (a reservation is for the next frame and fits) and
`Handshake` (until a failure, the state of a slot follows from the cursors, and
`activeLeases` is the number of frames that were received and not completed).
All but `Handshake` also hold after a failure. For the signals `Answered` says of a side at its last
comparison what `ParkedIsCalled` says of a side asleep. It is inductive because a
look that finds no capacity leaves none to find (`MissIsFinal`: reclaiming again
frees nothing), because receiving makes no room (`ReceiveMakesNoRoom`), and
because everything else that makes room or data signals. `DeliversFrames` takes two
more invariants: `Contents` (a live frame that is not completed, and a reservation
that was written, have their bytes in the arena) and `OneAtATime` (a caller that
waits for capacity holds no reservation). Spans that follow each other within an
arena's length share no byte (`BytesApart`), so a write damages no live frame, and
page removal stays between the completed run and the next live frame
(`RemovalSpares`). Every step is then one of the four kinds of `StepKind`, in terms
of cursors and leased frame numbers, and these are the steps of `FrameChannel`
because the queue is `RunOf(consumed, published)` (`FramesAreIntact`).
`BytesConserved` counts bytes as pairs of a slot and a place in it, not with a sum,
which would take an induction. `Charges` says what each slot is charged with until
a failure: a live frame's slot with its length, the reservation's slot with the
reservation's, every other with nothing. The live frames and the reservation are
blocks that lie one behind the other, and such blocks have together as many places
as lie between the first start and the last end (`Tiling`, a bijection with an
interval); slots and frames of the window correspond one to one, so the charged
bytes are as many (`ChargedCount`).

### Only model-checked

* Liveness (`WrapupsEnd`, `EventuallyCompacted`, `ClaimsEnd`, `DueIsServed`,
  `QuotaComesBack`, `PendingIsSettled`, `FirstMissIsRepaired`, `ParkedIsWoken`),
  which is outside the prover's reach together with `ENABLED`.
* `PendingNotLost`, for the one process of `marker`. With two, a recomp may give up
  an end that is then published again, and a drain stalled since before clears the
  new target for the old one, which is equal to it; the compare in the clear cannot
  tell them apart (`transform-postprocess-phase.ts:516`).

Every other property of a passing run is a theorem, some under a hypothesis (the
table above).

## 5. What is left out

* Contents: titles, tiers, facts, memory promotion, telemetry, prompts.
* Token counts. In `Historian` the eligible end is a number of protected
  messages, and the drain quota, which `DrainQuota` models, a free refusal.
* Deleting or reverting raw messages, except in `CompactionMarker`.
* In `Historian` the compaction marker after it is pending (`DrainPendingMarker`
  is one step; `CompactionMarker` has the rest).
* The drop queue and the events written in the publication transaction, and the
  post-commit work, beyond the fact that they happen before the lease is released.
* In `Recomp`: the wrapup check at the start and the busy exits, and the work
  after promotion (drops, compaction marker, embedding, compression depth).
  Recomp does not touch the floor, so `FloorTracksHistory` is about incremental
  and wrapup runs.
* A statement that fails outside the publication transaction (`SQLITE_BUSY` for
  longer than its timeout) is covered as a crash at that point.
* In `CompactionMarker`: session deletion, dropped summary tags, the Pi marker.
* In `ShmRing`: creation and attachment of the mapping, grants, wire headers, the
  bookkeeping of quarantine across rings, overflow of 64-bit cursors.
* Not modelled at all (with the reason in `PROJECT.json`): the rust-mode transform,
  tagging, embeddings, search indexes, smart notes, adapters, tools, TUI, Pi
  plugin, CLI, and on the Rust side supervisor, kernel, store, tokenizer and
  secret scanner. Most of this is data transformation (rendering, tokenising,
  floating-point ranking, file and network access) without state that several
  actors share; it is also most of the repository's lines, so the modules map a
  small share of them.

## 6. Plan

Done: the modules of section 2, the runs of section 3 and the theorems of section 4.

Further modules, should the project grow: the historian's output validation as
operators, the protected-tail boundary on small message lists, the job table of
`mc-host`, and compare-and-swap of the claim kernel.
