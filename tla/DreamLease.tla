-------------------------------- MODULE DreamLease --------------------------------
(***************************************************************************)
(* The dreamer's lease of one conflict domain: acquisition with a          *)
(* generation, the heartbeat that renews, reclaims or gives it up, and the *)
(* guarded writes of the task that runs under it.                          *)
(*                                                                         *)
(* A run is one call of runDomainGroup with its own random holder id, each *)
(* in a process of its own.  Every lease operation is one IMMEDIATE        *)
(* transaction; a beat is up to three of them with other processes in      *)
(* between.  Time is counted in heartbeat intervals, relative to now.      *)
(***************************************************************************)
EXTENDS Naturals, Integers

CONSTANTS
    Runs,       \* holder ids
    Nobody,     \* no holder row
    TTL,        \* LEASE_DURATION_MS, in heartbeat intervals
    MaxBack,    \* bound: how often the clock steps back
    GroupSize,  \* tasks of the domain that are due together
    Fenced      \* runs whose tasks pass their generation to their guarded writes

ASSUME RunsAssumption == Nobody \notin Runs
ASSUME BoundsAssumption == TTL \in Nat \ {0} /\ MaxBack \in Nat /\ GroupSize \in Nat /\ Fenced \subseteq Runs

VARIABLES
    holder,       \* lease:<key>:holder
    left,         \* lease:<key>:expiry minus now; -1: in the past
    generation,   \* lease:<key>:generation
    run,          \* per run: pc, tasks (still to do), gen (acquisition.generation),
                  \* age and gap (now minus acquisition.acquiredAt and
                  \* lastConfirmedAt; TTL + 1: longer than the TTL), lost
    written,      \* generation of the fenced run that wrote last
    back          \* how often the clock has stepped back

lease == <<holder, left, generation>>
vars == <<lease, run, written, back>>

\* held: between two tasks; setup: executor not yet at work; task: at work;
\* renew: its first beat is due; compare, reclaim: inside a beat.
Steps == {"idle", "held", "setup", "task", "renew", "compare", "reclaim", "over"}

TypeOK ==
    /\ holder \in Runs \cup {Nobody}
    /\ left \in -1..(TTL + MaxBack)
    /\ generation \in Nat /\ written \in Nat
    /\ run \in [Runs -> [pc : Steps, tasks : 0..GroupSize, gen : Nat, lost : BOOLEAN,
                         age : (-MaxBack)..(TTL + 1), gap : (-MaxBack)..(TTL + 1)]]
    /\ back \in 0..MaxBack

NewRun == [pc |-> "idle", tasks |-> GroupSize, gen |-> 0, lost |-> FALSE, age |-> 0, gap |-> 0]

Init ==
    /\ holder = Nobody /\ left = -1 /\ generation = 0 /\ written = 0 /\ back = 0
    /\ run = [r \in Runs |-> NewRun]

----------------------------------------------------------------------------
(* The four rows *)

isLeaseActive == left > 0

\* peekLeaseHolderAndExpiry: the last millisecond counts, unlike isLeaseActive.
peekLeaseHolderAndExpiry(r) == holder = r /\ left >= 0

\* leaseOwnershipMatches
OwnershipMatches(r) == generation = run[r].gen /\ peekLeaseHolderAndExpiry(r)

\* Who is refused by acquireLeaseWithAcquisition.
IsFree(r) == ~isLeaseActive \/ holder \in {Nobody, r}

\* A holder that comes back keeps its generation, everyone else gets the next.
GenerationFor(r) == IF holder = r THEN generation ELSE generation + 1

\* acquireLeaseWithAcquisition, when the lease is free for r.
Take(r) ==
    /\ holder' = r /\ left' = TTL
    /\ generation' = GenerationFor(r)

Goto(r, step) == run' = [run EXCEPT ![r].pc = step]

\* onLost aborts the task's signal; the timer beats no more.
DeclareLost(r) == run' = [run EXCEPT ![r].pc = "task", ![r].lost = TRUE]

\* Nothing of a run that is over is read again; its generation is kept for the record.
End(r) == run' = [run EXCEPT ![r] = [NewRun EXCEPT !.pc = "over", !.gen = run[r].gen]]

Confirmed(r) == run' = [run EXCEPT ![r].pc = "task", ![r].gap = 0]

----------------------------------------------------------------------------
(* Time and failure *)

Live(r) == run[r].pc \notin {"idle", "over"}

\* Values that are out of range stay there: only their side matters.
Later(d) == IF d = TTL + 1 THEN d ELSE d + 1

Tick ==
    /\ left' = IF left = -1 THEN -1 ELSE left - 1
    /\ run' = [r \in Runs |-> IF Live(r) THEN [run[r] EXCEPT !.age = Later(@), !.gap = Later(@)]
                                         ELSE run[r]]
    /\ UNCHANGED <<holder, generation, written, back>>

Sooner(d, out) == IF d = TTL + 1 /\ out THEN d ELSE d - 1

\* Date.now() is the wall clock of all processes.
ClockStepsBack ==
    /\ back < MaxBack /\ back' = back + 1
    /\ left' \in IF left = -1 THEN {-1, 0} ELSE {left + 1}
    /\ \E out \in BOOLEAN : run' =
          [r \in Runs |-> IF Live(r) THEN [run[r] EXCEPT !.age = Sooner(@, out), !.gap = Sooner(@, out)]
                                     ELSE run[r]]
    /\ UNCHANGED <<holder, generation, written>>

Crash(r) ==
    /\ Live(r)
    /\ End(r)
    /\ UNCHANGED <<lease, written, back>>

----------------------------------------------------------------------------
(* runDomainGroup *)

\* A refused run is over for a scheduled tick and polls for a manual one;
\* either way the domain asks again.
Acquire(r) ==
    /\ run[r].pc = "idle"
    /\ IsFree(r) /\ Take(r)
    /\ run' = [run EXCEPT ![r].pc = "held", ![r].gen = GenerationFor(r), ![r].age = 0, ![r].gap = 0]
    /\ UNCHANGED <<written, back>>

\* The check before each task of the group.
StartTask(r) ==
    /\ run[r].pc = "held" /\ run[r].tasks > 0 /\ OwnershipMatches(r)
    /\ run' = [run EXCEPT ![r].pc = "setup", ![r].tasks = @ - 1]
    /\ UNCHANGED <<lease, written, back>>

\* The executor looks again after its setup, then starts the heartbeat, which
\* beats once before anything else and counts from the acquisition; a run that
\* has lost the lease fails.
EnterTask(r) ==
    /\ run[r].pc = "setup"
    /\ run' = [run EXCEPT ![r].pc = IF OwnershipMatches(r) THEN "renew" ELSE "held",
                          ![r].gap = run[r].age, ![r].lost = FALSE]
    /\ UNCHANGED <<lease, written, back>>

\* Variant: a run writes as long as nobody else holds the lease.
WriteIfFree(r) ==
    /\ run[r].pc = "task"
    /\ IsFree(r)
    /\ written' = IF r \in Fenced THEN run[r].gen ELSE written
    /\ UNCHANGED <<lease, run, back>>

\* The check inside the transaction of runLeaseGuardedWrite.
MayWrite(r) ==
    /\ run[r].pc = "task"
    /\ peekLeaseHolderAndExpiry(r) /\ (r \in Fenced => generation = run[r].gen)

\* runLeaseGuardedWrite commits.  An aborted task may still get here: the
\* answer it awaits may be in before the abort is.
GuardedWrite(r) ==
    /\ MayWrite(r)
    /\ written' = IF r \in Fenced THEN run[r].gen ELSE written
    /\ UNCHANGED <<lease, run, back>>

\* The task completes, fails, is aborted, runs into its deadline, or throws
\* "Dream lease lost before guarded write".
TaskEnds(r) ==
    /\ run[r].pc = "task"
    /\ Goto(r, "held")
    /\ UNCHANGED <<lease, written, back>>

\* The group is done or stops; releaseLease deletes the rows of this holder
\* and leaves the generation.
Release(r) ==
    /\ run[r].pc = "held"
    /\ IF holder = r THEN holder' = Nobody /\ left' = -1 ELSE UNCHANGED <<holder, left>>
    /\ End(r)
    /\ UNCHANGED <<generation, written, back>>

----------------------------------------------------------------------------
(* startLeaseHeartbeat *)

Beating(r) == run[r].pc \in {"task", "renew"} /\ ~run[r].lost

\* renewLease
Renew(r) ==
    /\ Beating(r)
    /\ IF holder = r /\ isLeaseActive /\ generation = run[r].gen
       THEN left' = TTL /\ Confirmed(r)
       ELSE UNCHANGED left /\ Goto(r, "compare")
    /\ UNCHANGED <<holder, generation, written, back>>

\* The renewal failed: has somebody else had the lease, or could have?
Compare(r) ==
    /\ run[r].pc = "compare"
    /\ IF generation # run[r].gen \/ run[r].gap > TTL THEN DeclareLost(r) ELSE Goto(r, "reclaim")
    /\ UNCHANGED <<lease, written, back>>

\* Variant: a lease that is had again is good enough.
ReclaimAnyGeneration(r) ==
    /\ run[r].pc = "reclaim"
    /\ IF IsFree(r) THEN Take(r) /\ Confirmed(r) ELSE UNCHANGED lease /\ DeclareLost(r)
    /\ UNCHANGED <<written, back>>

\* A lapsed lease is taken again; under another generation the run is lost,
\* though its holder id is in the rows once more.
Reclaim(r) ==
    /\ run[r].pc = "reclaim"
    /\ IF IsFree(r)
       THEN Take(r) /\ IF GenerationFor(r) = run[r].gen THEN Confirmed(r) ELSE DeclareLost(r)
       ELSE UNCHANGED lease /\ DeclareLost(r)
    /\ UNCHANGED <<written, back>>

\* SQLITE_BUSY in any statement of a beat.
BeatFails(r) ==
    /\ Beating(r) \/ run[r].pc \in {"compare", "reclaim"}
    /\ IF run[r].gap > TTL THEN DeclareLost(r) ELSE Goto(r, "task")
    /\ UNCHANGED <<lease, written, back>>

----------------------------------------------------------------------------

Beat(r) == Renew(r) \/ Compare(r) \/ Reclaim(r) \/ BeatFails(r)

Work(r) == StartTask(r) \/ EnterTask(r) \/ GuardedWrite(r) \/ TaskEnds(r) \/ Release(r)

Next == Tick \/ ClockStepsBack \/ \E r \in Runs : Acquire(r) \/ Beat(r) \/ Work(r) \/ Crash(r)

Spec == Init /\ [][Next]_vars

----------------------------------------------------------------------------
(* Properties *)

\* "The holder must stop after a gap longer than LEASE_DURATION_MS": whoever
\* would pass the guard of runLeaseGuardedWrite without a generation is the
\* newest holder or has been told that its lease is lost.
WriterIsCurrentOrTold ==
    \A r \in Runs : MayWrite(r) => run[r].gen = generation \/ run[r].lost

\* "Renewal tolerates transient database contention ... A transient SQLITE_BUSY
\* renewal failure does not abort the task": a run whose lease is live, its
\* own and under its generation is never told that the lease is lost.
LiveLeaseIsNotLost ==
    [][\A r \in Runs : ~run[r].lost /\ run'[r].lost =>
           ~(holder = r /\ isLeaseActive /\ generation = run[r].gen)]_vars

\* A task that fences its writes never writes under the generation of its
\* successor, nor after it: the lease implements FencedWriter.
Writer == INSTANCE FencedWriter WITH granted <- generation, written <- written

OnlyNewestWrites == Writer!Spec

=============================================================================
