--------------------------------- MODULE Recomp ---------------------------------
(***************************************************************************)
(* /ctx-recomp: rebuilding the compartments of one session through staging *)
(* rows (recomp_compartments) that survive a crash.                        *)
(*                                                                         *)
(* A full recomp rebuilds from message 1; a partial recomp rebuilds a      *)
(* range snapped to compartment boundaries and records that range next to  *)
(* the staging rows.  Every historian pass is saved; when the last pass is *)
(* in, one transaction swaps the staging rows in for the compartments.     *)
(*                                                                         *)
(* A row's place in a list is its sequence number; gen says which kind of  *)
(* run wrote it.  Incremental publication is one step here: Historian      *)
(* shows that it appends at the end under the lease or does nothing.       *)
(***************************************************************************)
EXTENDS CompartmentRanges, LeaseRow, Functions

CONSTANTS
    Procs,       \* processes that have the session open
    MaxRaw,      \* bound: eligible raw messages of the session
    Kinds,       \* kinds of recomp the user runs
    MayCrash,    \* processes that may die
    Punctual,    \* processes whose lease renewals fire in time
    LeaseTTL,    \* COMPARTMENT_LEASE_TTL_MS, in clock ticks
    Reminder     \* whether the upgrade reminder finds a session without legacy rows

ASSUME ProcsAssumption == Nobody \notin Procs /\ Orphan \notin Procs /\ Nobody # Orphan
ASSUME BoundAssumption ==
    /\ MaxRaw \in Nat \ {0} /\ LeaseTTL \in Nat \ {0}
    /\ Kinds \subseteq {"full", "partial"}
    /\ MayCrash \subseteq Procs /\ Punctual \subseteq Procs
    /\ Reminder \in BOOLEAN

VARIABLES
    compartments,  \* the compartments rows
    staging,       \* the recomp_compartments rows
    stagedPass,    \* whether some staging row has a pass_number above 0
    range,         \* session_meta.recomp_partial_range; NoRange is 0, 0
    lease,         \* the compartment_state_lease row
    run            \* the recomp of each process

vars == <<compartments, staging, stagedPass, range, lease, run>>

----------------------------------------------------------------------------
(* State *)

Ranges  == [start : 0..MaxRaw, end : 0..MaxRaw]
NoRange == [start |-> 0, end |-> 0]

Row == [startMessage : 1..MaxRaw, endMessage : 1..MaxRaw, gen : {"incremental", "full", "partial"}]

\* The rows that split first .. ends[n] at the given ends.
Built(first, ends, gen) ==
    [i \in DOMAIN ends |-> [startMessage |-> IF i = 1 THEN first ELSE ends[i-1] + 1,
                            endMessage   |-> ends[i],
                            gen          |-> gen]]

IdleRun == [pc |-> "idle", kind |-> "full", range |-> NoRange, prior |-> <<>>, tail |-> <<>>,
            candidate |-> <<>>, passed |-> FALSE, resumed |-> FALSE]

\* reading: before the first await; seeding, marking: the two statements that
\* set a fresh partial recomp up; passing: historian passes; promoting: staged,
\* before the promotion transaction; unmarking: before setRecompPartialRange
\* (null); cleanup: the finally of a partial recomp; releasing: the finally of
\* executeContextRecompWithResult.
RunStates == {"idle", "reading", "seeding", "marking", "passing", "promoting",
              "unmarking", "cleanup", "releasing"}

TypeOK ==
    /\ compartments \in Seq(Row) /\ staging \in Seq(Row)
    /\ stagedPass \in BOOLEAN
    /\ range \in Ranges
    /\ lease \in [holder : Procs \cup {Nobody, Orphan}, ttl : 0..LeaseTTL]
    /\ run \in [Procs -> [pc : RunStates, kind : {"full", "partial"}, range : Ranges,
                          prior : Seq(Row), tail : Seq(Row), candidate : Seq(Row),
                          passed : BOOLEAN, resumed : BOOLEAN]]

Init ==
    /\ \E ends \in EndLists(1, MaxRaw) : compartments = Built(1, ends, "incremental")
    /\ staging = <<>> /\ stagedPass = FALSE /\ range = NoRange
    /\ lease = NoRow
    /\ run = [p \in Procs |-> IdleRun]

----------------------------------------------------------------------------
(* Storage *)

\* saveRecompStagingPass: INSERT OR REPLACE by sequence.  Rows beyond the
\* candidate's last stay.
Save(rows, passed) ==
    LET rest == SubSeq(staging, Len(rows) + 1, Len(staging)) IN
    /\ staging' = rows \o rest
    /\ stagedPass' = (passed \/ (rest # <<>> /\ stagedPass))

\* clearRecompStaging
ClearStaging == staging' = <<>> /\ stagedPass' = FALSE /\ range' = NoRange

Overlaps(c, start, end) == c.endMessage >= start /\ c.startMessage <= end

\* snapRangeToCompartments: the compartments that overlap start .. end, the
\* range they span, and the compartments before and after them.
Snapped(start, end) ==
    LET hit   == {i \in 1..Len(compartments) : Overlaps(compartments[i], start, end)}
        first == CHOOSE i \in hit : \A j \in hit : i <= j
        last  == CHOOSE i \in hit : \A j \in hit : j <= i
    IN [hit   |-> hit,
        range |-> IF hit = {} THEN NoRange
                  ELSE [start |-> compartments[first].startMessage,
                        end   |-> compartments[last].endMessage],
        prior |-> IF hit = {} THEN <<>> ELSE SubSeq(compartments, 1, first - 1),
        tail  |-> IF hit = {} THEN <<>> ELSE SubSeq(compartments, last + 1, Len(compartments))]

----------------------------------------------------------------------------
(* The surroundings of a recomp *)

\* An incremental historian run takes the lease, appends and releases it.
IncrementalPublishes ==
    /\ IsFree(lease)
    /\ validateStoredCompartments(compartments)
    /\ \E ends \in EndLists(LastEnd(compartments) + 1, MaxRaw) :
          compartments' = compartments \o Built(LastEnd(compartments) + 1, ends, "incremental")
    /\ lease' = NoRow
    /\ UNCHANGED <<staging, stagedPass, range, run>>

\* The upgrade reminder and /ctx-session-upgrade drop staging rows of a
\* session without legacy compartments, with no look at the lease.
UpgradeClearsStaging ==
    /\ Reminder /\ staging # <<>>
    /\ ClearStaging
    /\ UNCHANGED <<compartments, lease, run>>

Tick ==
    /\ lease.ttl > 0
    /\ lease.holder \in Punctual => lease.ttl # 1
    /\ lease' = Older(lease)
    /\ UNCHANGED <<compartments, staging, stagedPass, range, run>>

Crash(p) ==
    /\ p \in MayCrash /\ run[p].pc # "idle"
    /\ run' = [run EXCEPT ![p] = IdleRun]
    /\ lease' = Abandoned(lease, p)
    /\ UNCHANGED <<compartments, staging, stagedPass, range>>

RenewLease(p) ==
    /\ run[p].pc # "idle"
    /\ IsHeldBy(lease, p)
    /\ lease' = [lease EXCEPT !.ttl = LeaseTTL]
    /\ UNCHANGED <<compartments, staging, stagedPass, range, run>>

----------------------------------------------------------------------------
(* Starting and ending a recomp: executeContextRecompWithResult *)

MoveRun(p, pc) == run' = [run EXCEPT ![p].pc = pc]

\* The first control point after the body of the run.
Over(p) == IF run[p].kind = "partial" THEN "cleanup" ELSE "releasing"

\* Variant: a full recomp starts whoever holds the lease.
StartFullUnleased(p) ==
    /\ "full" \in Kinds /\ run[p].pc = "idle"
    /\ lease' = Acquired(p, LeaseTTL)
    /\ \E last \in 0..MaxRaw :
          run' = [run EXCEPT ![p] = [IdleRun EXCEPT !.pc = "reading",
                                                    !.range = [start |-> 1, end |-> last]]]
    /\ UNCHANGED <<compartments, staging, stagedPass, range>>

\* A full recomp rebuilds up to the protected tail of its snapshot, which may
\* leave nothing to rebuild.
StartFull(p) ==
    /\ "full" \in Kinds /\ run[p].pc = "idle"
    /\ IsFree(lease)
    /\ lease' = Acquired(p, LeaseTTL)
    /\ \E last \in 0..MaxRaw :
          run' = [run EXCEPT ![p] = [IdleRun EXCEPT !.pc = "reading",
                                                    !.range = [start |-> 1, end |-> last]]]
    /\ UNCHANGED <<compartments, staging, stagedPass, range>>

\* Variant: so does a partial one.
StartPartialUnleased(p) ==
    /\ "partial" \in Kinds /\ run[p].pc = "idle"
    /\ lease' = Acquired(p, LeaseTTL)
    /\ \E start \in 1..MaxRaw, end \in 1..MaxRaw :
          /\ start <= end
          /\ run' = [run EXCEPT ![p] = [IdleRun EXCEPT !.pc = "reading", !.kind = "partial",
                                           !.range = [start |-> start, end |-> end]]]
    /\ UNCHANGED <<compartments, staging, stagedPass, range>>

StartPartial(p) ==
    /\ "partial" \in Kinds /\ run[p].pc = "idle"
    /\ IsFree(lease)
    /\ lease' = Acquired(p, LeaseTTL)
    /\ \E start \in 1..MaxRaw, end \in 1..MaxRaw :
          /\ start <= end
          /\ run' = [run EXCEPT ![p] = [IdleRun EXCEPT !.pc = "reading", !.kind = "partial",
                                           !.range = [start |-> start, end |-> end]]]
    /\ UNCHANGED <<compartments, staging, stagedPass, range>>

\* The finally of a partial recomp, whichever way it ended.
Cleanup(p) ==
    /\ run[p].pc = "cleanup"
    /\ IF staging # <<>> /\ range = NoRange THEN ClearStaging
                                            ELSE UNCHANGED <<staging, stagedPass, range>>
    /\ MoveRun(p, "releasing")
    /\ UNCHANGED <<compartments, lease>>

ReleaseLease(p) ==
    /\ run[p].pc = "releasing"
    /\ lease' = Released(lease, p)
    /\ run' = [run EXCEPT ![p] = IdleRun]
    /\ UNCHANGED <<compartments, staging, stagedPass, range>>

----------------------------------------------------------------------------
(* Reading what is there *)

\* executeContextRecompInternal resumes whatever is staged.
FullReads(p) ==
    /\ run[p].pc = "reading" /\ run[p].kind = "full"
    /\ run' = [run EXCEPT ![p] = [@ EXCEPT !.pc = "passing", !.candidate = staging,
                                           !.passed = stagedPass]]
    /\ UNCHANGED <<compartments, staging, stagedPass, range, lease>>

\* Variant: staging rows of any range are resumed.
ResumesAny(snap) == TRUE

\* Staging rows are resumed only under the range they were staged for.
MayResume(snap) == staging # <<>> => range = snap

\* executePartialRecompInternal up to its first await: snap, then resume the
\* staging of the same range or start afresh.
PartialReads(p) ==
    LET s == Snapped(run[p].range.start, run[p].range.end) IN
    /\ run[p].pc = "reading" /\ run[p].kind = "partial"
    /\ s.hit # {} /\ MayResume(s.range)
    /\ run' = [run EXCEPT ![p] =
                 [pc |-> "seeding", kind |-> "partial", range |-> s.range, prior |-> s.prior, tail |-> s.tail,
                  candidate |-> IF staging # <<>> THEN staging ELSE s.prior,
                  passed |-> stagedPass, resumed |-> (staging # <<>>)]]
    /\ UNCHANGED <<compartments, staging, stagedPass, range, lease>>

\* Nothing to rebuild there, or staging rows of another recomp.
PartialRefused(p) ==
    LET s == Snapped(run[p].range.start, run[p].range.end) IN
    /\ run[p].pc = "reading" /\ run[p].kind = "partial"
    /\ s.hit # {} => ~MayResume(s.range)
    /\ MoveRun(p, "cleanup")
    /\ UNCHANGED <<compartments, staging, stagedPass, range, lease>>

\* After the await a fresh partial recomp stages the compartments before its
\* range (pass 0) and then, in a statement of its own, records the range.
PartialSeeds(p) ==
    /\ run[p].pc = "seeding"
    /\ IF run[p].resumed
       THEN MoveRun(p, "passing") /\ UNCHANGED <<staging, stagedPass>>
       ELSE MoveRun(p, "marking") /\ Save(run[p].candidate, FALSE)
    /\ UNCHANGED <<compartments, range, lease>>

PartialMarksRange(p) ==
    /\ run[p].pc = "marking"
    /\ range' = run[p].range
    /\ MoveRun(p, "passing")
    /\ UNCHANGED <<compartments, staging, stagedPass, lease>>

----------------------------------------------------------------------------
(* Passes and promotion *)

\* The first message that is not rebuilt yet.
Offset(r) == IF LastEnd(r.candidate) >= r.range.start THEN LastEnd(r.candidate) + 1 ELSE r.range.start

\* A validated historian pass is appended and saved, lease or no lease.
Pass(p) ==
    LET r == run[p] IN
    /\ r.pc = "passing" /\ Offset(r) <= r.range.end
    /\ \E ends \in EndLists(Offset(r), r.range.end) :
          LET candidate == r.candidate \o Built(Offset(r), ends, r.kind) IN
          /\ run' = [run EXCEPT ![p].candidate = candidate, ![p].passed = TRUE]
          /\ Save(candidate, TRUE)
    /\ UNCHANGED <<compartments, range, lease>>

\* A chunk cannot be cut, or no model validates.  A full recomp promotes what
\* it has (promoteAndFinalize); a partial one keeps its staging for a retry.
PassFails(p) ==
    LET r == run[p] IN
    /\ r.pc = "passing" /\ Offset(r) <= r.range.end
    /\ IF r.kind = "full" /\ r.passed /\ r.candidate # <<>> /\ validateStoredCompartments(r.candidate)
       THEN Save(r.candidate, TRUE) /\ MoveRun(p, "promoting")
       ELSE MoveRun(p, Over(p)) /\ UNCHANGED <<staging, stagedPass>>
    /\ UNCHANGED <<compartments, range, lease>>

\* An awaited call rejects: the catch of either runner.
RunThrows(p) ==
    /\ run[p].pc \in {"reading", "seeding", "passing"}
    /\ MoveRun(p, Over(p))
    /\ UNCHANGED <<compartments, staging, stagedPass, range, lease>>

\* A full recomp is through: validate the candidate, stage it once more.
FinishFull(p) ==
    LET r == run[p] IN
    /\ r.pc = "passing" /\ r.kind = "full" /\ Offset(r) > r.range.end
    /\ IF validateStoredCompartments(r.candidate)
       THEN Save(r.candidate, r.passed) /\ MoveRun(p, "promoting") /\ UNCHANGED range
       ELSE ClearStaging /\ MoveRun(p, "releasing")
    /\ UNCHANGED <<compartments, lease>>

\* Variant: the compartments after the range are forgotten.
FinishPartialWithoutTail(p) ==
    LET r        == run[p]
        newBuilt == SubSeq(r.candidate, Len(r.prior) + 1, Len(r.candidate))
        valid    == /\ newBuilt # <<>>
                    /\ ContiguousFrom(newBuilt, r.range.start) /\ LastEnd(newBuilt) = r.range.end
                    /\ validateStoredCompartments(r.candidate)
    IN
    /\ r.pc = "passing" /\ r.kind = "partial" /\ Offset(r) > r.range.end
    /\ IF valid
       THEN Save(r.candidate, TRUE) /\ MoveRun(p, "promoting")
       ELSE MoveRun(p, "cleanup") /\ UNCHANGED <<staging, stagedPass>>
    /\ UNCHANGED <<compartments, range, lease>>

\* promoteFinal: the rebuilt rows must fill the snapped range; they are staged
\* between the compartments before and after it.
FinishPartial(p) ==
    LET r        == run[p]
        newBuilt == SubSeq(r.candidate, Len(r.prior) + 1, Len(r.candidate))
        merged   == r.candidate \o r.tail
        valid    == /\ newBuilt # <<>>
                    /\ ContiguousFrom(newBuilt, r.range.start) /\ LastEnd(newBuilt) = r.range.end
                    /\ validateStoredCompartments(merged)
    IN
    /\ r.pc = "passing" /\ r.kind = "partial" /\ Offset(r) > r.range.end
    /\ IF valid
       THEN Save(merged, TRUE) /\ run' = [run EXCEPT ![p].pc = "promoting", ![p].candidate = merged]
       ELSE MoveRun(p, "cleanup") /\ UNCHANGED <<staging, stagedPass>>
    /\ UNCHANGED <<compartments, range, lease>>

\* promoteRecompStagingWithM0Mutation: what is staged replaces the compartments.
Promote(p) ==
    /\ run[p].pc = "promoting"
    /\ IsHeldBy(lease, p) /\ staging # <<>>
    /\ compartments' = staging
    /\ staging' = <<>> /\ stagedPass' = FALSE
    /\ MoveRun(p, IF run[p].kind = "partial" THEN "unmarking" ELSE "releasing")
    /\ UNCHANGED <<range, lease>>

PromoteRefused(p) ==
    /\ run[p].pc = "promoting"
    /\ ~IsHeldBy(lease, p) \/ staging = <<>>
    /\ MoveRun(p, Over(p))
    /\ UNCHANGED <<compartments, staging, stagedPass, range, lease>>

\* setRecompPartialRange(null), a statement of its own.
PartialUnmarksRange(p) ==
    /\ run[p].pc = "unmarking"
    /\ range' = NoRange
    /\ MoveRun(p, "cleanup")
    /\ UNCHANGED <<compartments, staging, stagedPass, lease>>

----------------------------------------------------------------------------

Environment == IncrementalPublishes \/ UpgradeClearsStaging \/ Tick

RunStep(p) == \/ StartFull(p) \/ StartPartial(p) \/ FullReads(p) \/ PartialReads(p)
              \/ PartialRefused(p) \/ PartialSeeds(p) \/ PartialMarksRange(p)
              \/ Pass(p) \/ PassFails(p) \/ RunThrows(p) \/ FinishFull(p) \/ FinishPartial(p)
              \/ Promote(p) \/ PromoteRefused(p) \/ PartialUnmarksRange(p)
              \/ Cleanup(p) \/ ReleaseLease(p) \/ RenewLease(p)

Next == Environment \/ \E p \in Procs : Crash(p) \/ RunStep(p)

Spec == Init /\ [][Next]_vars

----------------------------------------------------------------------------
(* Properties *)

\* After any sequence of recomps, crashes, resumes and incremental runs the
\* compartments validate, so that the next incremental run can start.
RecompContiguous == validateStoredCompartments(compartments)

\* The transaction promotes what is staged without validating it again: that
\* must be what this run validated, or nothing.
PromotedIsCandidate ==
    \A p \in Procs : run[p].pc = "promoting" /\ IsHeldBy(lease, p) =>
                        staging \in {<<>>, run[p].candidate}

\* A partial recomp promotes: this step swaps its staging in.
PartialPromotes(p) == run[p].kind = "partial" /\ run[p].pc = "promoting" /\ run'[p].pc = "unmarking"

\* A partial recomp rebuilds a range; it never changes how far the session is
\* compacted, although incremental runs may have published since it was staged.
PartialKeepsCoverage ==
    [][\A p \in Procs : PartialPromotes(p) => LastEnd(compartments') = LastEnd(compartments)]_vars

\* A partial recomp adopts rows that a full one staged.
AdoptsFull == \E i \in 1..Len(staging) : staging[i].gen = "full" /\ staging[i] \notin Range(compartments)

\* "Partial recompilation preserves compartments before and after the selected
\* range": every row that starts before or ends after it is there again, in
\* spite of crashes, resumes, failed passes and incremental runs in between,
\* unless a range left behind by a crash makes it adopt a full recomp's rows.
PartialPreserves ==
    [][\A p \in Procs : PartialPromotes(p) /\ ~AdoptsFull =>
          \A i \in 1..Len(compartments) :
              ~Overlaps(compartments[i], run[p].range.start, run[p].range.end) =>
                  compartments[i] \in Range(compartments')]_vars

\* "Rebuilt compartments covering messages ..": no row of the range survives.
RangeIsRebuilt ==
    [][\A p \in Procs : PartialPromotes(p) =>
          \A j \in 1..Len(compartments') :
              Overlaps(compartments'[j], run[p].range.start, run[p].range.end) =>
                  compartments'[j].gen = "partial"]_vars

\* "Full recompilation replaces all compartments": what a full recomp promotes
\* was built by full recomps.
FullReplacesAll ==
    [][\A p \in Procs :
          run[p].kind = "full" /\ run[p].pc = "promoting" /\ compartments' # compartments =>
              \A j \in 1..Len(compartments') : compartments'[j].gen = "full"]_vars

\* "An unfinished full recomp is already staged for this session. Resume it by
\* running /ctx-recomp without arguments": rows that full recomps staged go
\* away only when a full recomp promotes or rejects them.
StagedFullSurvives ==
    [][/\ staging # <<>> /\ staging' = <<>>
       /\ \A i \in 1..Len(staging) : staging[i].gen = "full"
       => \E p \in Procs : run[p].kind = "full" /\ run[p].pc \in {"passing", "promoting"}]_vars

=============================================================================
