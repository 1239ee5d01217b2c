-------------------------------- MODULE Historian --------------------------------
(***************************************************************************)
(* Publication of compartments by the historian of one session.            *)
(*                                                                         *)
(* Several host processes share context.db.  A process runs at most one    *)
(* compartment run of the session at a time (activeRuns); a row of         *)
(* compartment_state_lease decides between processes.  A run takes the     *)
(* lease, reads the stored compartments, waits for a model for minutes and *)
(* publishes in one IMMEDIATE transaction that checks the lease again.     *)
(* /ctx-wrapup drives a series of such runs under a durable marker.        *)
(*                                                                         *)
(* Every statement against context.db is a step; what a process does       *)
(* between two awaits is split wherever another process could come between *)
(* two statements and notice.  A process may die between any two steps, or *)
(* be suspended for longer than a lease lasts.                             *)
(***************************************************************************)
EXTENDS CompartmentRanges, LeaseRow

CONSTANTS
    Procs,             \* processes that have the session open
    MaxRaw,            \* bound: raw messages of the session
    MayCrash,          \* processes that may die, any number of times
    Wrappers,          \* processes whose user runs /ctx-wrapup
    LeaseTTL,          \* COMPARTMENT_LEASE_TTL_MS, in clock ticks
    MarkerTTL,         \* WRAPUP_IN_PROGRESS_TTL_MS, in clock ticks
    ProtectedTail,     \* fewest raw messages that a boundary snapshot protects
    Slack,             \* HISTORIAN_BOUNDARY_HEALING_SLACK
    Punctual,          \* processes whose renewal timers fire in time
    ClockMayStepBack   \* whether Date.now() may go backwards

ASSUME ProcsAssumption == Nobody \notin Procs /\ Orphan \notin Procs /\ Nobody # Orphan
ASSUME BoundAssumption ==
    /\ MaxRaw \in Nat /\ ProtectedTail \in Nat /\ Slack \in Nat
    /\ LeaseTTL \in Nat \ {0} /\ MarkerTTL \in Nat \ {0}
    /\ Punctual \subseteq Procs /\ MayCrash \subseteq Procs /\ Wrappers \subseteq Procs
    /\ ClockMayStepBack \in BOOLEAN

VARIABLES
    raw,           \* raw messages 1..raw exist in the host's database
    compartments,  \* the compartments rows, by sequence
    floor,         \* session_meta.prior_boundary_ordinal
    pending,       \* ordinal of pending_compaction_marker_state; 0 is NULL
    flag,          \* session_meta.compartment_in_progress
    emergency,     \* needs_emergency_recovery
    lease,         \* the compartment_state_lease row
    marker,        \* session_meta.wrapup_in_progress_state
    run,           \* the compartment run of each process
    wrap           \* the /ctx-wrapup command of each process

store == <<compartments, floor, pending, emergency>>
vars  == <<raw, store, flag, lease, marker, run, wrap>>

----------------------------------------------------------------------------
(* State *)

Holders == Procs \cup {Nobody, Orphan}

IdleRun == [pc |-> "idle", kind |-> "incremental", offset |-> 0,
            sequenceOffset |-> 0, chunkEnd |-> 0, draft |-> <<>>]

\* idle, starting: before acquireCompartmentLease; leased: lease row written;
\* granted: runCompartmentAgent entered; drafting: awaiting the model;
\* drafted: validated output in hand; committed: published; settling: the
\* runner returned, the lease is about to be released.
RunStates == {"idle", "starting", "leased", "granted", "drafting", "drafted",
              "committed", "settling"}

NoWrapup == [pc |-> "off", target |-> 0, before |-> 0, lost |-> FALSE]

\* waiting: for an incremental run of its own process; loop: top of the chunk
\* loop; leasing: waiting for the lease; running: a run of kind wrapup is in
\* flight; iterated: that run is over; closing: the marker is released.
WrapStates == {"off", "waiting", "loop", "leasing", "running", "iterated", "closing"}

TypeOK ==
    /\ raw \in 0..MaxRaw
    /\ compartments \in Seq(Compartment)
    /\ floor \in Nat
    /\ pending \in Nat
    /\ flag \in BOOLEAN /\ emergency \in BOOLEAN
    /\ lease \in [holder : Holders, ttl : 0..LeaseTTL]
    /\ marker \in [holder : Holders, ttl : 0..MarkerTTL]
    /\ run \in [Procs -> [pc : RunStates, kind : {"incremental", "wrapup"}, offset : Nat,
                          sequenceOffset : Nat, chunkEnd : 0..MaxRaw, draft : Seq(Compartment)]]
    /\ wrap \in [Procs -> [pc : WrapStates, target : 0..MaxRaw, before : Nat, lost : BOOLEAN]]

Init ==
    /\ raw \in 0..MaxRaw
    /\ compartments = <<>> /\ floor = 1 /\ pending = 0
    /\ flag = FALSE /\ emergency = FALSE
    /\ lease = NoRow /\ marker = NoRow
    /\ run = [p \in Procs |-> IdleRun]
    /\ wrap = [p \in Procs |-> NoWrapup]

----------------------------------------------------------------------------
(* Helpers *)

\* First ordinal after the eligible head: the protected tail stays raw.
EligibleEnd == IF raw >= ProtectedTail THEN raw + 1 - ProtectedTail ELSE 1

\* hasRunnableCompartmentWindow
RunnableWindow == LastEnd(compartments) + 1 < EligibleEnd

\* isWrapupInProgress, and the row that it leaves: an expired marker is reaped.
WrapupInProgress == marker.ttl > 0
ReapedMarker == IF marker.ttl > 0 THEN marker ELSE NoRow

MoveRun(p, pc) == run' = [run EXCEPT ![p].pc = pc]

\* The run gives up or is done: what it read and drafted is forgotten.
EndRun(p, pc) == run' = [run EXCEPT ![p] = [IdleRun EXCEPT !.pc = pc, !.kind = run[p].kind]]

----------------------------------------------------------------------------
(* The session and its clock *)

MessageArrives ==
    /\ raw < MaxRaw
    /\ raw' = raw + 1
    /\ UNCHANGED <<store, flag, lease, marker, run, wrap>>

\* recordOverflowDetected: the provider rejected a request.
OverflowDetected ==
    /\ ~emergency
    /\ emergency' = TRUE
    /\ UNCHANGED <<raw, compartments, floor, pending, flag, lease, marker, run, wrap>>

\* The postprocess phase consumes the pending marker blob.
DrainPendingMarker ==
    /\ pending # 0
    /\ pending' = 0
    /\ UNCHANGED <<raw, compartments, floor, emergency, flag, lease, marker, run, wrap>>

\* Time passes.  The rows of a punctual process are renewed before they expire.
Tick ==
    /\ lease.ttl > 0 \/ marker.ttl > 0
    /\ lease.holder \in Punctual => lease.ttl # 1
    /\ marker.holder \in Punctual => marker.ttl # 1
    /\ lease' = Older(lease) /\ marker' = Older(marker)
    /\ UNCHANGED <<raw, store, flag, run, wrap>>

\* Date.now() is wall-clock time: a step back makes expired rows live again.
ClockStepsBack ==
    /\ ClockMayStepBack
    /\ lease' = IF lease.holder # Nobody THEN [lease EXCEPT !.ttl = LeaseTTL] ELSE lease
    /\ marker' = IF marker.holder # Nobody THEN [marker EXCEPT !.ttl = MarkerTTL] ELSE marker
    /\ UNCHANGED <<raw, store, flag, run, wrap>>

\* A process dies.  Rows it wrote stay; nobody will present their ids again.
Crash(p) ==
    /\ p \in MayCrash
    /\ run[p].pc # "idle" \/ wrap[p].pc # "off"
    /\ run' = [run EXCEPT ![p] = IdleRun]
    /\ wrap' = [wrap EXCEPT ![p] = NoWrapup]
    /\ lease' = Abandoned(lease, p)
    /\ marker' = Abandoned(marker, p)
    /\ UNCHANGED <<raw, store, flag>>

----------------------------------------------------------------------------
(* A transform pass starts a run: checkCompartmentTrigger,                 *)
(* runCompartmentPhase and startCompartmentAgent                           *)

\* The trigger fires only while nobody is known to be at work.
TriggerFires(p) ==
    /\ ~flag /\ RunnableWindow
    /\ flag' = TRUE
    /\ UNCHANGED <<raw, store, lease, marker, run, wrap>>

\* A pass that finds the flag set, no run of its own and nothing eligible.
ClearStaleFlag(p) ==
    /\ flag /\ run[p].pc = "idle" /\ ~RunnableWindow
    /\ flag' = FALSE
    /\ UNCHANGED <<raw, store, lease, marker, run, wrap>>

\* startCompartmentAgent up to its first look at the wrapup marker.  The flag
\* sends a pass here; so does usage of 95% or more, whatever the flag says.
StartAgent(p) ==
    /\ run[p].pc = "idle" /\ RunnableWindow
    /\ marker' = ReapedMarker
    /\ IF WrapupInProgress THEN flag' = FALSE /\ UNCHANGED run
                           ELSE MoveRun(p, "starting") /\ UNCHANGED flag
    /\ UNCHANGED <<raw, store, lease, wrap>>

AcquireLease(p) ==
    /\ run[p].pc = "starting"
    /\ IsFree(lease)
    /\ lease' = Acquired(p, LeaseTTL)
    /\ MoveRun(p, "leased")
    /\ UNCHANGED <<raw, store, flag, marker, wrap>>

\* Another run holds the lease.  The flag is cleared whoever set it.
LeaseRefused(p) ==
    /\ run[p].pc = "starting"
    /\ ~IsFree(lease)
    /\ flag' = FALSE
    /\ MoveRun(p, "idle")
    /\ UNCHANGED <<raw, store, lease, marker, wrap>>

\* Variant: the lease is taken without a second look at the marker.
RecheckSkipped(p) ==
    /\ run[p].pc = "leased"
    /\ MoveRun(p, "granted")
    /\ UNCHANGED <<raw, store, flag, lease, marker, wrap>>

\* Variant: the early return forgets to give the lease back.
RecheckKeepsLease(p) ==
    /\ run[p].pc = "leased"
    /\ marker' = ReapedMarker
    /\ IF WrapupInProgress THEN flag' = FALSE /\ MoveRun(p, "idle")
                           ELSE MoveRun(p, "granted") /\ UNCHANGED flag
    /\ UNCHANGED <<raw, store, lease, wrap>>

\* The second look at the wrapup marker, with the lease in hand.
RecheckWrapup(p) ==
    /\ run[p].pc = "leased"
    /\ marker' = ReapedMarker
    /\ IF WrapupInProgress
       THEN /\ lease' = Released(lease, p)
            /\ flag' = FALSE
            /\ MoveRun(p, "idle")
       ELSE MoveRun(p, "granted") /\ UNCHANGED <<lease, flag>>
    /\ UNCHANGED <<raw, store, wrap>>

----------------------------------------------------------------------------
(* runCompartmentAgent *)

\* The head this run may compact: a wrapup stops at its target.
RunEligibleEnd(p) == IF run[p].kind = "wrapup" THEN wrap[p].target ELSE EligibleEnd

\* Variant: the chunk reaches one message into the protected tail.
BeginRunOffByOne(p) ==
    LET offset == LastEnd(compartments) + 1 IN
    /\ run[p].pc = "granted"
    /\ validateStoredCompartments(compartments)
    /\ offset < RunEligibleEnd(p)
    /\ flag' = TRUE
    /\ \E last \in offset..RunEligibleEnd(p) :
          run' = [run EXCEPT ![p] = [@ EXCEPT !.pc = "drafting", !.offset = offset,
                                     !.sequenceOffset = NextSequence(compartments),
                                     !.chunkEnd = last]]
    /\ UNCHANGED <<raw, store, lease, marker, wrap>>

\* From entry to the first await: compartments read, chunk cut.
BeginRun(p) ==
    LET offset == LastEnd(compartments) + 1 IN
    /\ run[p].pc = "granted"
    /\ validateStoredCompartments(compartments)
    /\ offset < RunEligibleEnd(p)
    /\ flag' = TRUE
    /\ \E last \in offset..(RunEligibleEnd(p) - 1) :
          run' = [run EXCEPT ![p] = [@ EXCEPT !.pc = "drafting", !.offset = offset,
                                     !.sequenceOffset = NextSequence(compartments),
                                     !.chunkEnd = last]]
    /\ UNCHANGED <<raw, store, lease, marker, wrap>>

\* Nothing before the protected tail, or a chunk that filtering emptied.
\* Emergency recovery is disarmed at low usage unless a wrapup is under way.
BeginNoOp(p) ==
    /\ run[p].pc = "granted"
    /\ validateStoredCompartments(compartments)
    /\ flag' = FALSE
    /\ \E lowUsage \in BOOLEAN :
          /\ emergency' = (emergency /\ (~lowUsage \/ WrapupInProgress))
          /\ marker' = IF lowUsage THEN ReapedMarker ELSE marker
    /\ EndRun(p, "settling")
    /\ UNCHANGED <<raw, compartments, floor, pending, lease, wrap>>

\* The drain quota of the window is used up.  A wrapup does not ask for it.
QuotaExhausted(p) ==
    /\ run[p].pc = "granted" /\ run[p].kind = "incremental"
    /\ validateStoredCompartments(compartments)
    /\ flag' = FALSE
    /\ EndRun(p, "settling")
    /\ UNCHANGED <<raw, store, lease, marker, wrap>>

\* Stored compartments do not validate, the boundary snapshot is stale, the
\* chunk does not cover its range, (drafting) no model produced output that
\* validates, or (drafted) a statement of the publication transaction throws
\* and all of it is rolled back.
RunFails(p) ==
    /\ run[p].pc \in {"granted", "drafting", "drafted"}
    /\ flag' = FALSE
    /\ EndRun(p, "settling")
    /\ UNCHANGED <<raw, store, lease, marker, wrap>>

\* forceKeepLastCompartmentForChunk: the final chunk of a wrapup.
KeepsLast(p) == run[p].kind = "wrapup" /\ run[p].chunkEnd + 1 = wrap[p].target

\* shouldDiscardLastHistorianCompartment; splitsArc stands for
\* boundarySplitsCompletedToolArc.
ShouldDiscardLast(block, chunkEnd, splitsArc) ==
    /\ Len(block) >= 2
    /\ chunkEnd <= LastEnd(block) + Slack
    /\ ~splitsArc

WithoutLast(block) == SubSeq(block, 1, Len(block) - 1)

\* The model answers and validateHistorianOutput accepts: adjacent ranges
\* from the chunk's first message.  The provisional last one may be dropped.
HistorianReturns(p) ==
    /\ run[p].pc = "drafting"
    /\ \E ends \in EndLists(run[p].offset, run[p].chunkEnd), splitsArc \in BOOLEAN :
          LET block == Split(run[p].offset, ends, run[p].sequenceOffset)
              kept  == IF ~emergency /\ ~KeepsLast(p)
                            /\ ShouldDiscardLast(block, run[p].chunkEnd, splitsArc)
                       THEN WithoutLast(block) ELSE block
          IN run' = [run EXCEPT ![p] = [@ EXCEPT !.pc = "drafted", !.draft = kept]]
    /\ UNCHANGED <<raw, store, flag, lease, marker, wrap>>

\* Variant: the floor is left to a later statement.
PublishWithoutFloor(p) ==
    /\ run[p].pc = "drafted"
    /\ IsHeldBy(lease, p)
    /\ compartments' = compartments \o run[p].draft
    /\ pending' = LastEnd(run[p].draft)
    /\ emergency' = (emergency /\ WrapupInProgress)
    /\ EndRun(p, "committed")
    /\ UNCHANGED <<raw, floor, flag, lease, marker, wrap>>

\* Variant: a marker that is still pending is not replaced.
PublishKeepsPending(p) ==
    /\ run[p].pc = "drafted"
    /\ IsHeldBy(lease, p)
    /\ compartments' = compartments \o run[p].draft
    /\ floor' = LastEnd(run[p].draft) + 1
    /\ pending' = IF pending = 0 THEN LastEnd(run[p].draft) ELSE pending
    /\ emergency' = (emergency /\ WrapupInProgress)
    /\ EndRun(p, "committed")
    /\ UNCHANGED <<raw, flag, lease, marker, wrap>>

\* The publication transaction: lease check, append, failure state cleared,
\* floor raised, emergency recovery disarmed outside a wrapup, marker pending.
\* The marker is deferred in every run: all three callers ask for it, and the
\* last compartment's end is a line of the chunk, so it has a message id.
Publish(p) ==
    /\ run[p].pc = "drafted"
    /\ IsHeldBy(lease, p)
    /\ compartments' = compartments \o run[p].draft
    /\ LET last == LastEnd(run[p].draft) IN
          /\ floor' = IF floor < last + 1 THEN last + 1 ELSE floor
          /\ pending' = last
    /\ emergency' = (emergency /\ WrapupInProgress)
    /\ EndRun(p, "committed")
    /\ UNCHANGED <<raw, flag, lease, marker, wrap>>

\* The same transaction when the lease is gone: rolled back, draft dropped.
PublishRefused(p) ==
    /\ run[p].pc = "drafted"
    /\ ~IsHeldBy(lease, p)
    /\ flag' = FALSE
    /\ EndRun(p, "settling")
    /\ UNCHANGED <<raw, store, lease, marker, wrap>>

\* Kernel promotion and the rest of the post-commit work is over.
FinishRun(p) ==
    /\ run[p].pc = "committed"
    /\ flag' = FALSE
    /\ EndRun(p, "settling")
    /\ UNCHANGED <<raw, store, lease, marker, wrap>>

\* The finally of startCompartmentAgent and of runOneWrapupIteration.
ReleaseLease(p) ==
    /\ run[p].pc = "settling"
    /\ lease' = Released(lease, p)
    /\ run' = [run EXCEPT ![p] = IdleRun]
    /\ wrap' = IF run[p].kind = "wrapup" THEN [wrap EXCEPT ![p].pc = "iterated"] ELSE wrap
    /\ UNCHANGED <<raw, store, flag, marker>>

\* Variant: renewal writes the row whatever it holds.
RenewByUpsert(p) ==
    /\ run[p].pc \in RunStates \ {"idle", "starting", "leased"}
    /\ lease' = Acquired(p, LeaseTTL)
    /\ UNCHANGED <<raw, store, flag, marker, run, wrap>>

\* The renewal interval of a run.  A row that expired is not brought back.
RenewLease(p) ==
    /\ run[p].pc \in RunStates \ {"idle", "starting", "leased"}
    /\ IsHeldBy(lease, p)
    /\ lease' = [lease EXCEPT !.ttl = LeaseTTL]
    /\ UNCHANGED <<raw, store, flag, marker, run, wrap>>

----------------------------------------------------------------------------
(* /ctx-wrapup: runManagedWrapup                                           *)

\* Variant: only a wrapup that reached its target gives the marker back.
EndWrapupKeepsMarker(p, success) ==
    /\ marker' = IF success THEN Released(marker, p) ELSE marker
    /\ wrap' = [wrap EXCEPT ![p] = IF success THEN [NoWrapup EXCEPT !.pc = "closing"]
                                             ELSE NoWrapup]

\* releaseWrapupInProgress; a wrapup that reached its target has one more
\* statement to go.
EndWrapup(p, success) ==
    /\ marker' = Released(marker, p)
    /\ wrap' = [wrap EXCEPT ![p] = IF success THEN [NoWrapup EXCEPT !.pc = "closing"]
                                             ELSE NoWrapup]

\* updateWrapupInProgress restarts the marker's validity.
RenewedMarker == [marker EXCEPT !.ttl = MarkerTTL]

\* At least one raw message is kept, so the target is at most raw.
StartWrapup(p) ==
    /\ p \in Wrappers /\ wrap[p].pc = "off"
    /\ ~WrapupInProgress
    /\ \E target \in (LastEnd(compartments) + 2)..raw :
          wrap' = [wrap EXCEPT ![p] = [NoWrapup EXCEPT !.pc = "waiting", !.target = target]]
    /\ marker' = Acquired(p, MarkerTTL)
    /\ UNCHANGED <<raw, store, flag, lease, run>>

\* The marker renewal interval; a lost marker is remembered.
RenewMarker(p) ==
    /\ wrap[p].pc \notin {"off", "closing"}
    /\ IF IsHeldBy(marker, p) THEN marker' = RenewedMarker /\ UNCHANGED wrap
                        ELSE wrap' = [wrap EXCEPT ![p].lost = TRUE] /\ UNCHANGED marker
    /\ UNCHANGED <<raw, store, flag, lease, run>>

\* waitForExistingIncrementalRun
WrapupEnters(p) ==
    /\ wrap[p].pc = "waiting" /\ run[p].pc = "idle"
    /\ wrap' = [wrap EXCEPT ![p].pc = "loop"]
    /\ UNCHANGED <<raw, store, flag, lease, marker, run>>

\* Top of the chunk loop.
WrapupLoop(p) ==
    LET owns == ~wrap[p].lost /\ IsHeldBy(marker, p)
        done == LastEnd(compartments) + 1 >= wrap[p].target IN
    /\ wrap[p].pc = "loop"
    /\ IF owns /\ ~done
       THEN /\ wrap' = [wrap EXCEPT ![p].pc = "leasing", ![p].before = LastEnd(compartments)]
            /\ marker' = RenewedMarker
       ELSE EndWrapup(p, owns)
    /\ UNCHANGED <<raw, store, flag, lease, run>>

\* acquireCompartmentLeaseForWrapup succeeds; the run needs no second check.
WrapupAcquiresLease(p) ==
    /\ wrap[p].pc = "leasing" /\ run[p].pc = "idle"
    /\ IsFree(lease)
    /\ lease' = Acquired(p, LeaseTTL)
    /\ run' = [run EXCEPT ![p] = [IdleRun EXCEPT !.pc = "granted", !.kind = "wrapup"]]
    /\ wrap' = [wrap EXCEPT ![p].pc = "running"]
    /\ UNCHANGED <<raw, store, flag, marker>>

\* The lease is taken: renew the marker and sleep, or give the wrapup up.
WrapupWaitsForLease(p) ==
    /\ wrap[p].pc = "leasing" /\ run[p].pc = "idle"
    /\ ~IsFree(lease)
    /\ IF IsHeldBy(marker, p) THEN marker' = RenewedMarker /\ UNCHANGED wrap
                        ELSE EndWrapup(p, FALSE)
    /\ UNCHANGED <<raw, store, flag, lease, run>>

\* The wait for this process's own run or for the lease exceeds its limit.
WrapupTimesOut(p) ==
    /\ \/ wrap[p].pc = "waiting" /\ run[p].pc # "idle"
       \/ wrap[p].pc = "leasing"
    /\ EndWrapup(p, FALSE)
    /\ UNCHANGED <<raw, store, flag, lease, run>>

\* Variant: the next iteration starts whether or not this one made progress.
WrapupIteratesAnyway(p) ==
    /\ wrap[p].pc = "iterated"
    /\ wrap' = [wrap EXCEPT ![p].pc = "loop"]
    /\ UNCHANGED <<raw, store, flag, lease, marker, run>>

\* An iteration that did not move the last compartment ends the wrapup.
WrapupIterationDone(p) ==
    /\ wrap[p].pc = "iterated"
    /\ IF LastEnd(compartments) > wrap[p].before
       THEN wrap' = [wrap EXCEPT ![p].pc = "loop"] /\ UNCHANGED marker
       ELSE EndWrapup(p, FALSE)
    /\ UNCHANGED <<raw, store, flag, lease, run>>

\* clearEmergencyRecovery after a wrapup that reached its target.
WrapupCloses(p) ==
    /\ wrap[p].pc = "closing"
    /\ emergency' = FALSE
    /\ wrap' = [wrap EXCEPT ![p] = NoWrapup]
    /\ UNCHANGED <<raw, compartments, floor, pending, flag, lease, marker, run>>

----------------------------------------------------------------------------

Environment == MessageArrives \/ OverflowDetected \/ DrainPendingMarker
               \/ Tick \/ ClockStepsBack

StartStep(p) == \/ TriggerFires(p) \/ ClearStaleFlag(p) \/ StartAgent(p)
                \/ AcquireLease(p) \/ LeaseRefused(p) \/ RecheckWrapup(p)

RunStep(p) == \/ BeginRun(p) \/ BeginNoOp(p) \/ QuotaExhausted(p) \/ RunFails(p)
              \/ HistorianReturns(p) \/ Publish(p) \/ PublishRefused(p)
              \/ FinishRun(p) \/ ReleaseLease(p) \/ RenewLease(p)

WrapupStep(p) == \/ StartWrapup(p) \/ RenewMarker(p) \/ WrapupEnters(p) \/ WrapupLoop(p)
                 \/ WrapupAcquiresLease(p) \/ WrapupWaitsForLease(p)
                 \/ WrapupTimesOut(p) \/ WrapupIterationDone(p)
                 \/ WrapupCloses(p)

Next == \/ Environment
        \/ \E p \in Procs : Crash(p) \/ StartStep(p) \/ RunStep(p) \/ WrapupStep(p)

Spec == Init /\ [][Next]_vars

----------------------------------------------------------------------------
(* Fairness.  A living process executes the statements between two awaits, *)
(* an awaited model call ends (answer, error or timeout), time passes and  *)
(* a wrapup's waits have deadlines.                                        *)

RunProgress(p) == \/ AcquireLease(p) \/ LeaseRefused(p) \/ RecheckWrapup(p)
                  \/ BeginRun(p) \/ BeginNoOp(p) \/ QuotaExhausted(p) \/ RunFails(p)
                  \/ HistorianReturns(p) \/ Publish(p) \/ PublishRefused(p)
                  \/ FinishRun(p) \/ ReleaseLease(p)

WrapupProgress(p) == \/ WrapupEnters(p) \/ WrapupLoop(p) \/ WrapupAcquiresLease(p) \/ WrapupTimesOut(p)
                     \/ WrapupIterationDone(p) \/ WrapupCloses(p)

Fairness ==
    /\ WF_vars(Tick)
    /\ \A p \in Procs : WF_vars(RunProgress(p)) /\ WF_vars(WrapupProgress(p))

\* The session stays in use in process p (passes keep coming), the quota
\* window reopens, a model that is asked again and again answers, and a
\* transaction that is tried again and again commits.
Persistent(p) ==
    /\ WF_vars(StartAgent(p))
    /\ SF_vars(AcquireLease(p)) /\ SF_vars(BeginRun(p))
    /\ SF_vars(HistorianReturns(p)) /\ SF_vars(Publish(p))

FairSpec == Spec /\ Fairness /\ \A p \in Procs \ MayCrash : Persistent(p)

----------------------------------------------------------------------------
(* Properties *)

\* The published compartments cover 1..LastEnd without gap or overlap and
\* their rows are numbered from 0 without a gap: whatever order runs of
\* several processes start, stall, outlive their lease and publish in.
ContiguousHistory == validateStoredCompartments(compartments) /\ NumberedFrom(compartments, 0)

\* The check-then-act across the model call: a run whose id is still in the
\* lease row holds the offset and the sequence number that its transaction
\* will need, so an accepted publication never meets UNIQUE(session, sequence).
PublishIsFresh ==
    \A p \in Procs :
        lease.holder = p /\ run[p].pc \in {"drafting", "drafted"} =>
            /\ run[p].offset = LastEnd(compartments) + 1
            /\ run[p].sequenceOffset = NextSequence(compartments)

\* Compartments, publication floor and deferred marker move in one
\* transaction: no crash leaves the floor or the marker at another message.
FloorTracksHistory ==
    /\ floor = LastEnd(compartments) + 1
    /\ pending \in {0, LastEnd(compartments)}

\* Every way out of a run gives the lease row back: a row that names a run of
\* a living process names one that is still past acquireCompartmentLease.
LeaseHasOwner ==
    lease.holder \in Procs => run[lease.holder].pc \notin {"idle", "starting"}

\* "/ctx-wrapup owns compartment-state publication while this marker is live":
\* once a wrapup has had the lease, only its own runs publish as long as its
\* marker lasts, even after its lease expired and with runs of other processes
\* that had passed their first look at the marker before it was written.
WrapupOwnsPublication ==
    [][\A p \in Procs :
          /\ wrap[p].pc \in {"running", "iterated"} /\ IsHeldBy(marker, p)
          /\ compartments' # compartments
          => run[p].pc = "drafted" /\ run[p].kind = "wrapup" /\ run'[p].pc = "committed"]_vars

\* Every way out of /ctx-wrapup gives the marker back.
MarkerHasOwner ==
    marker.holder \in Procs => wrap[marker.holder].pc \notin {"off", "closing"}

\* No run, however stale its snapshot, compacts a message of the protected
\* tail: messages that arrive later only move the tail forward.
TailProtected == compartments # <<>> => LastEnd(compartments) + ProtectedTail <= raw

History == INSTANCE CompactedHistory

\* The historian implements the append-only history its readers rely on.
HistoryRefined == History!Spec

\* "compartmentInProgress remains true while a background run is active."
FlagCoversRun == \A p \in Procs : run[p].pc \in {"drafting", "drafted"} => flag

\* Every /ctx-wrapup ends, although it waits for the lease of others and
\* starts a new run after each one that made progress.
WrapupsEnd == \A p \in Procs : wrap[p].pc # "off" ~> wrap[p].pc = "off"

\* Once the unreliable processes are gone, the others compact everything
\* eligible, whatever lease, marker and flag were left behind.
EventuallyCompacted ==
    (\A q \in MayCrash : <>[](run[q].pc = "idle" /\ wrap[q].pc = "off"))
        => <>[](~RunnableWindow)

=============================================================================
