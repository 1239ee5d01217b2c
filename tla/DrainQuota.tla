-------------------------------- MODULE DrainQuota --------------------------------
(***************************************************************************)
(* The drain quota of one session: how many raw tokens historian runs may  *)
(* take out of the tail per window, the emergency latch that lets them     *)
(* take more, and the backoff after a failure.                             *)
(*                                                                         *)
(* A run reserves tokens before it calls the historian.  Some of its exits *)
(* give the reservation back, others keep it as a throttle on retries, and *)
(* a publication that fails after it has forgotten the reservation loses   *)
(* it to the window.                                                       *)
(* Times are ages in ticks, relative to now.                               *)
(***************************************************************************)
EXTENDS Naturals, FiniteSets, FiniteSetsExt

CONSTANTS
    Runs,         \* historian runs that may overlap
    Window,       \* DRAIN_WINDOW_MS
    MaxLatch,     \* EMERGENCY_DRAIN_MAX_LATCH_MS
    Backoff,      \* EMERGENCY_DRAIN_FAILURE_BACKOFF_MS
    Cap,          \* perRunCap
    Budget,       \* protectedTailWindowBudget below 80 % usage,
    HighBudget,   \* from 80 %
    TopBudget,    \* and from 95 %
    Usages,       \* usagePercentage: the values it takes
    ExitAt,       \* emergencyDrainExitThreshold
    ForceAt,      \* forceMaterializationPercentage
    MaxTokens     \* bound: tokens reserved in a window

ASSUME QuotaAssumption ==
    /\ {Window, MaxLatch, Backoff, Cap, Budget, HighBudget, TopBudget, MaxTokens} \subseteq Nat \ {0}
    /\ Cap <= Budget /\ Budget <= HighBudget /\ HighBudget <= TopBudget /\ TopBudget <= MaxTokens
    /\ Usages \subseteq Nat /\ {ExitAt, ForceAt} \subseteq Nat

VARIABLES
    tokens,    \* protected_tail_drain_tokens
    window,    \* age of protected_tail_drain_window_started_at; Window + 1: over
    latch,     \* age of emergency_drain_active plus 1; 0: off
    failure,   \* age of historian_drain_failure_at plus 1; 0: none
    usage,     \* usagePercentage of the boundary snapshot
    run,       \* per run: pc, reserved (tokens), over (the budget), late (its
               \* window is over)
    spent,     \* history: tokens of this window's reservations that were kept
    stray,     \* history: tokens given back to a later window
    bypassed,  \* history: tokens of this window reserved over its budget
    failures   \* history: passes with a reservation that failed since the window
               \* began or the last publication

history == <<spent, stray, bypassed, failures>>
vars == <<tokens, window, latch, failure, usage, run, history>>

\* reserved: before the historian is called; awaiting: it is at work;
\* validated: its answer is good.
IdleRun == [pc |-> "idle", reserved |-> 0, over |-> FALSE, late |-> FALSE]

TypeOK ==
    /\ tokens \in 0..MaxTokens /\ window \in 0..(Window + 1)
    /\ latch \in 0..(MaxLatch + 2) /\ failure \in 0..(Backoff + 1)
    /\ usage \in Usages
    /\ run \in [Runs -> [pc : {"idle", "reserved", "awaiting", "validated"},
                         reserved : 0..Cap, over : BOOLEAN, late : BOOLEAN]]
    /\ spent \in Nat /\ stray \in Nat /\ bypassed \in Nat /\ failures \in Nat

Init ==
    /\ tokens = 0 /\ window = Window + 1 /\ latch = 0 /\ failure = 0
    /\ usage \in Usages
    /\ run = [r \in Runs |-> IdleRun]
    /\ spent = 0 /\ stray = 0 /\ bypassed = 0 /\ failures = 0

----------------------------------------------------------------------------

\* protectedTailWindowBudget
BudgetFor(u) == IF u >= 95 THEN TopBudget ELSE IF u >= 80 THEN HighBudget ELSE Budget

\* The window that a reservation falls into.
WindowOver == window > Window

\* The latch as a reservation leaves it.
NextLatch ==
    IF usage >= ForceAt THEN IF latch = 0 THEN 1 ELSE latch
    ELSE IF usage < ExitAt \/ latch > MaxLatch + 1 THEN 0 ELSE latch

InFailureBackoff == failure > 0 /\ failure - 1 < Backoff

\* Variant: what the window has cost is not counted.
RemainingOfBudget == BudgetFor(usage)

Remaining == LET used == IF WindowOver THEN 0 ELSE tokens
             IN  IF used < BudgetFor(usage) THEN BudgetFor(usage) - used ELSE 0

\* How much a request gets, and whether over the budget.
Granted(requested) ==
    IF Remaining > 0 THEN Min({requested, Cap, Remaining})
    ELSE IF NextLatch > 0 /\ ~InFailureBackoff THEN Min({requested, Cap}) ELSE 0

SetRun(r, new) == run' = [run EXCEPT ![r] = new]

\* Reservations of other runs are late once the window is reset.
RunsAfterReserve(r, n) ==
    [s \in Runs |-> IF s = r /\ n = 0 THEN IdleRun
                    ELSE IF s = r THEN [pc |-> "reserved", reserved |-> n, over |-> Remaining = 0, late |-> FALSE]
                    ELSE IF WindowOver /\ run[s].pc # "idle" THEN [run[s] EXCEPT !.late = TRUE]
                    ELSE run[s]]

\* Variant: the window is moved on, its tokens are not.
ReserveKeepsTokens(r, requested) ==
    LET n == Granted(requested) IN
    /\ run[r].pc = "idle"
    /\ tokens + n <= MaxTokens
    /\ tokens' = tokens + n
    /\ window' = IF WindowOver THEN 0 ELSE window
    /\ latch' = NextLatch
    /\ run' = RunsAfterReserve(r, n)
    /\ spent' = IF WindowOver THEN n ELSE spent + n
    /\ bypassed' = (IF WindowOver THEN 0 ELSE bypassed) + (IF Remaining = 0 THEN n ELSE 0)
    /\ stray' = IF WindowOver THEN 0 ELSE stray
    /\ failures' = IF WindowOver THEN 0 ELSE failures
    /\ UNCHANGED <<failure, usage>>

\* reserveProtectedTailDrainTokens of some tokens: window and latch are brought
\* up to date even when the request is refused, and the run is over then.
Reserve(r, requested) ==
    LET n == Granted(requested)
        used == IF WindowOver THEN 0 ELSE tokens
    IN  /\ run[r].pc = "idle"
        /\ used + n <= MaxTokens
        /\ tokens' = used + n
        /\ window' = IF WindowOver THEN 0 ELSE window
        /\ latch' = NextLatch
        /\ run' = RunsAfterReserve(r, n)
        /\ spent' = (IF WindowOver THEN 0 ELSE spent) + n
        /\ bypassed' = (IF WindowOver THEN 0 ELSE bypassed) + (IF Remaining = 0 THEN n ELSE 0)
        /\ stray' = IF WindowOver THEN 0 ELSE stray
        /\ failures' = IF WindowOver THEN 0 ELSE failures
        /\ UNCHANGED <<failure, usage>>

\* A range of no raw tokens, or a wrapup's run (forceDrainQuota): the run goes
\* on without a reservation, and neither window nor latch is looked at.
ReserveNothing(r) ==
    /\ run[r].pc = "idle"
    /\ SetRun(r, [pc |-> "reserved", reserved |-> 0, over |-> FALSE, late |-> FALSE])
    /\ UNCHANGED <<tokens, window, latch, failure, usage, history>>

\* History of a reservation that is given back.
Returned(r) ==
    IF run[r].late
    THEN stray' = stray + run[r].reserved /\ UNCHANGED <<spent, bypassed>>
    ELSE /\ spent' = spent - run[r].reserved
         /\ bypassed' = IF run[r].over THEN bypassed - run[r].reserved ELSE bypassed
         /\ UNCHANGED stray

\* Variant: an exit that forgets the reservation.
KeepTokens(r) == Returned(r) /\ UNCHANGED tokens

\* rollbackProtectedTailDrainReservation: never below zero.
GiveBack(r) ==
    /\ tokens' = IF tokens > run[r].reserved THEN tokens - run[r].reserved ELSE 0
    /\ Returned(r)

----------------------------------------------------------------------------
(* A run *)

\* A run that finds nothing before the protected tail asks for no tokens.
NoEligibleHead ==
    /\ latch > 0
    /\ latch' = 0
    /\ UNCHANGED <<tokens, window, failure, usage, run, history>>

\* The chunk has nothing to compact: the tail is exhausted.
EmptyChunk(r) ==
    /\ run[r].pc = "reserved"
    /\ GiveBack(r)
    /\ latch' = 0
    /\ SetRun(r, IdleRun)
    /\ UNCHANGED <<window, failure, usage, failures>>

\* Bad coverage, or an exception on the way to the historian.
FailEarly(r) ==
    /\ run[r].pc = "reserved"
    /\ GiveBack(r)
    /\ SetRun(r, IdleRun)
    /\ UNCHANGED <<window, latch, failure, usage, failures>>

CallHistorian(r) ==
    /\ run[r].pc = "reserved"
    /\ run' = [run EXCEPT ![r].pc = "awaiting"]
    /\ UNCHANGED <<tokens, window, latch, failure, usage, history>>

\* Variant: a failed pass gives back what it reserved, as the other exits do.
FailAndGiveBack(r) ==
    /\ run[r].pc = "awaiting"
    /\ failure' = 1
    /\ failures' = IF run[r].reserved > 0 THEN failures + 1 ELSE failures
    /\ GiveBack(r)
    /\ SetRun(r, IdleRun)
    /\ UNCHANGED <<window, latch, usage>>

\* The historian's answer is no good, or the call throws: the reservation is
\* kept as a throttle, and the time recorded.
PassFails(r) ==
    /\ run[r].pc = "awaiting"
    /\ failure' = 1
    /\ failures' = IF run[r].reserved > 0 THEN failures + 1 ELSE failures
    /\ SetRun(r, IdleRun)
    /\ UNCHANGED <<tokens, window, latch, usage, spent, stray, bypassed>>

PassReturns(r) ==
    /\ run[r].pc = "awaiting"
    /\ run' = [run EXCEPT ![r].pc = "validated"]
    /\ UNCHANGED <<tokens, window, latch, failure, usage, history>>

\* No forward progress, the lease is lost, or the transaction fails before the
\* reservation is forgotten.
NotPublished(r) ==
    /\ run[r].pc = "validated"
    /\ GiveBack(r)
    /\ SetRun(r, IdleRun)
    /\ UNCHANGED <<window, latch, failure, usage, failures>>

\* The transaction fails on the deferred marker, the import marker or the
\* commit: it is rolled back, the reservation is forgotten all the same.
PublicationFailsLate(r) ==
    /\ run[r].pc = "validated"
    /\ SetRun(r, IdleRun)
    /\ UNCHANGED <<tokens, window, latch, failure, usage, history>>

Publish(r) ==
    /\ run[r].pc = "validated"
    /\ failure' = 0 /\ failures' = 0
    /\ SetRun(r, IdleRun)
    /\ UNCHANGED <<tokens, window, latch, usage, spent, stray, bypassed>>

Crash(r) ==
    /\ run[r].pc # "idle"
    /\ SetRun(r, IdleRun)
    /\ UNCHANGED <<tokens, window, latch, failure, usage, history>>

----------------------------------------------------------------------------

UsageMoves ==
    /\ usage' \in Usages \ {usage}
    /\ UNCHANGED <<tokens, window, latch, failure, run, history>>

Tick ==
    /\ window' = IF window > Window THEN window ELSE window + 1
    /\ latch' = IF latch = 0 \/ latch > MaxLatch + 1 THEN latch ELSE latch + 1
    /\ failure' = IF failure = 0 \/ failure > Backoff THEN failure ELSE failure + 1
    /\ UNCHANGED <<tokens, usage, run, history>>

\* A run that needs tokens.
Ask == \E r \in Runs : \E requested \in 1..(Cap + 1) : Reserve(r, requested)

Go(r) == \/ EmptyChunk(r) \/ FailEarly(r) \/ CallHistorian(r) \/ PassFails(r)
         \/ PassReturns(r) \/ NotPublished(r) \/ PublicationFailsLate(r) \/ Publish(r)

Next == \/ Tick \/ UsageMoves \/ NoEligibleHead \/ Ask
        \/ \E r \in Runs : ReserveNothing(r) \/ Go(r) \/ Crash(r)

Spec == Init /\ [][Next]_vars

\* Time passes, runs end, and the trigger starts another one that needs tokens.
Fairness == WF_vars(Tick) /\ SF_vars(Ask) /\ \A r \in Runs : WF_vars(Go(r))

FairSpec == Spec /\ Fairness

----------------------------------------------------------------------------
(* Properties *)

\* The counter is what the window has cost, a cost being a reservation that was
\* not given back: every exit of a run gives its reservation back at most once
\* and never more than the counter holds of it, a reservation is lost to the
\* window only by a crash, a failed pass or a publication, also one that fails
\* late, and what is missing was given back by a run that outlived the window
\* it reserved in.
QuotaIsHonest == tokens <= spent /\ spent <= tokens + stray

\* However runs overlap, fail and give back, a window costs more than its
\* budget only by what the latch let through and what came back late.
WindowBudget == spent <= TopBudget + bypassed + stray

\* "Historian failure backoff disables the latch budget bypass to prevent
\* repeated retries": the passes of runs with a reservation that fail between
\* two publications of a window are paid for by its budget, or lie a backoff
\* apart; each run that was under way meanwhile may add one.
FailuresThrottled ==
    failures <= TopBudget + stray + Cardinality(Runs) * (1 + Window \div Backoff)

\* Nobody waits for ever: a window whose budget is used up gives way to the
\* next one, at any usage and however many runs ask.
QuotaComesBack == tokens >= TopBudget ~> tokens < TopBudget

\* "The system expires the latch after its maximum active duration if an
\* irreducible floor prevents usage from falling below the exit threshold":
\* no reservation leaves a latch behind that is older than that.
LatchSelfExpires == [][Ask => latch' <= MaxLatch + 1]_vars

=============================================================================
