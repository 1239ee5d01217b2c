---------------------------- MODULE CompactionMarker ----------------------------
(***************************************************************************)
(* The compaction marker of one session.                                   *)
(*                                                                         *)
(* The marker is a pair of rows in the host's database (a compaction part  *)
(* on a user message and a summary message) from which the host hides all  *)
(* older messages.  context.db records which marker the session owns and,  *)
(* after an incremental publication, which one a transform pass still has  *)
(* to apply.  No transaction spans the two databases: every write below is *)
(* a step of its own, a step may fail, and a process may die between two.  *)
(*                                                                         *)
(* A message is its place in the canonical order; its ordinal is its place *)
(* among the messages that are present.                                    *)
(***************************************************************************)
EXTENDS Integers, FiniteSets

CONSTANTS
    Procs,         \* processes that have the session open
    Transforming,  \* those that run transform passes for it
    Rendering,     \* those whose passes rebuild the history
    MayCrash,      \* those that may die
    MayFail,       \* those whose database calls may fail
    MaxMessage,    \* bound: messages the host ever creates
    Users,         \* the messages with role user
    Reverts,       \* whether the user reverts the session
    Shorter,       \* whether a recomp may cover less than was covered before
    Forked         \* whether the session is a fork that inherited a marker

ASSUME MarkerAssumption ==
    /\ {Transforming, Rendering, MayCrash, MayFail} \subseteq SUBSET Procs
    /\ MaxMessage \in Nat \ {0}
    /\ Users \subseteq 1..MaxMessage /\ 1 \in Users
    /\ {Reverts, Shorter, Forked} \subseteq BOOLEAN

VARIABLES
    present,    \* the host's messages
    last,       \* the newest message the host created
    ends,       \* the last messages of the published compartments
    parts,      \* the host's compaction parts
    summaries,  \* the host's summary messages of this plugin
    owned,      \* session_meta.compaction_marker_state
    pending,    \* session_meta.pending_compaction_marker_state
    baseline,   \* the end at which the cached history was cut, if one is cached
    removed,    \* message.removed events not yet handled
    degraded,   \* degradedRebuildCountBySession, per process
    run         \* the marker operation of each process

vars == <<present, last, ends, parts, summaries, owned, pending, baseline, removed, degraded, run>>
host == <<present, last, parts, summaries>>
context == <<ends, owned, pending, baseline>>

----------------------------------------------------------------------------
(* State *)

Messages == 1..MaxMessage

End      == [ordinal : 0..MaxMessage, id : 0..MaxMessage]
NoEnd    == [ordinal |-> 0, id |-> 0]
Lineage  == [boundary : Messages, target : Messages, foreign : BOOLEAN]
Owned    == [boundary : 0..MaxMessage, target : End]
NoMarker == [boundary |-> 0, target |-> NoEnd]

IdleRun == [pc |-> "idle", kind |-> "drain", target |-> NoEnd, existing |-> NoMarker,
            boundary |-> 0, foreign |-> {}]

RunStates == {"idle", "down", "removing", "forgetting", "injecting", "persisting", "clearing",
              "dropping", "dropped", "reconciling", "deleting"}
RunKinds  == {"drain", "recomp", "reconcile", "removal", "compacted", "startup"}

\* The removal of a message, or of the summary of one of this session's markers.
Removal        == [boundary : Messages, target : 0..MaxMessage]
MessageGone(m) == [boundary |-> m, target |-> 0]
SummaryGone(l) == [boundary |-> l.boundary, target |-> l.target]

TypeOK ==
    /\ present \subseteq 1..last /\ last \in Messages
    /\ ends \subseteq End
    /\ parts \subseteq Lineage /\ summaries \subseteq Lineage
    /\ owned \in Owned /\ pending \in End
    /\ baseline \subseteq 0..MaxMessage
    /\ removed \subseteq Removal
    /\ degraded \in [Procs -> 0..2]
    /\ run \in [Procs -> [pc : RunStates, kind : RunKinds, target : End,
                          existing : Owned, boundary : 0..MaxMessage, foreign : SUBSET Lineage]]

Maximum(S) == CHOOSE m \in S : \A k \in S : k <= m

Ordinal(m) == Cardinality({k \in present : k <= m})
EndAt(m)   == [ordinal |-> Ordinal(m), id |-> m]
LastEnd    == IF ends = {} THEN NoEnd ELSE CHOOSE e \in ends : \A f \in ends : f.ordinal <= e.ordinal

\* The rows of a recorded marker: their ids are a function of the boundary and
\* of the target.
RowsOf(marker) == [boundary |-> marker.boundary, target |-> marker.target.id, foreign |-> FALSE]

\* The parent's marker in a fork, or nothing.
Inherited == IF Forked THEN {[boundary |-> MaxMessage, target |-> MaxMessage, foreign |-> TRUE]} ELSE {}

Init ==
    /\ last = IF Forked THEN MaxMessage ELSE 1
    /\ present = 1..last
    /\ ends = {} /\ parts = Inherited /\ summaries = Inherited
    /\ owned = NoMarker /\ pending = NoEnd /\ baseline = {} /\ removed = {}
    /\ degraded = [p \in Procs |-> 0]
    /\ run = [p \in Procs |-> IdleRun]

----------------------------------------------------------------------------
(* The host *)

MessageArrives ==
    /\ last < MaxMessage
    /\ last' = last + 1 /\ present' = present \cup {last'}
    /\ UNCHANGED <<parts, summaries, context, removed, degraded, run>>

\* A revert deletes a suffix of the messages, injected summaries included; the
\* parts of a message go with it.
Revert(m) ==
    /\ Reverts /\ m \in present \ {1}
    /\ present' = {k \in present : k < m}
    /\ parts' = {l \in parts : l.boundary < m}
    /\ summaries' = {l \in summaries : l.boundary < m}
    /\ removed' = removed \cup {MessageGone(k) : k \in present \ present'}
                          \cup {SummaryGone(l) : l \in {s \in summaries \ summaries' : ~s.foreign}}
    /\ UNCHANGED <<last, context, degraded, run>>

\* The summary of a marker is deleted like any other message.
DeleteSummary(l) ==
    /\ Reverts /\ l \in summaries
    /\ summaries' = summaries \ {l}
    /\ removed' = IF l.foreign THEN removed ELSE removed \cup {SummaryGone(l)}
    /\ UNCHANGED <<present, last, parts, context, degraded, run>>

\* filterCompacted: the host shows the messages from the newest boundary that
\* has both its part and its summary.
Window == Maximum({0} \cup (present \cap {l.boundary : l \in parts \cap summaries}))

----------------------------------------------------------------------------
(* Rows in the host's database *)

\* Variant: the boundary may lie behind the target.
FindBoundaryAfter(target) ==
    IF target \in present THEN Maximum({0} \cup {m \in present \cap Users : m <= target + 2}) ELSE 0

\* findBoundaryUserMessage
FindBoundary(target) ==
    IF target \in present THEN Maximum({0} \cup {m \in present \cap Users : m <= target}) ELSE 0

\* removeCompactionMarker
RemoveRows(marker) ==
    /\ parts' = parts \ {RowsOf(marker)}
    /\ summaries' = summaries \ {RowsOf(marker)}

\* Variant: an older marker on the same boundary is left.
InjectRowsOnly(rows) ==
    /\ parts' = parts \cup {rows}
    /\ summaries' = summaries \cup {rows}

\* injectCompactionMarker: an upsert, after removeLegacyMarkerLineageRows has
\* deleted every other marker that sits on the same boundary.
InjectRows(rows) ==
    LET stale == {l \in summaries : l.boundary = rows.boundary /\ l # rows} IN
    /\ summaries' = (summaries \ stale) \cup {rows}
    /\ parts' = {l \in parts : stale # {} => l.boundary # rows.boundary} \cup {rows}

----------------------------------------------------------------------------
(* Deciding *)

\* validatePendingTarget
ValidTarget(target) ==
    /\ target.id \in present
    /\ {e \in ends : e.id = target.id} = {target}

\* existingMarkerAlreadyCoversTarget.  A message that is gone compares as null.
Covers(marker, target) ==
    /\ marker # NoMarker
    /\ marker.target.ordinal >= target.ordinal
    /\ IF marker.target.ordinal = target.ordinal
       THEN /\ {marker.boundary, target.id} \subseteq present
            /\ marker.boundary <= target.id
            /\ marker.target.id = target.id
       ELSE ~ (/\ {marker.target.id, target.id} \subseteq present
               /\ marker.target.id <= target.id)

Goto(p, pc) == run' = [run EXCEPT ![p].pc = pc]
Return(p)   == run' = [run EXCEPT ![p] = IdleRun]

\* What an update does after its reads: nothing is left to do, or the target
\* has no boundary, or the recorded marker goes first, or there is none.
Decide(p, kind, target) ==
    LET go(pc, b) == run' = [run EXCEPT ![p] = [IdleRun EXCEPT
            !.pc = pc, !.kind = kind, !.target = target, !.existing = owned, !.boundary = b]]
    IN \/ Covers(owned, target) /\ go("clearing", 0)
       \/ /\ ~Covers(owned, target) /\ FindBoundary(target.id) # 0
          /\ go(IF owned = NoMarker THEN "injecting" ELSE "removing", FindBoundary(target.id))
       \/ ~Covers(owned, target) /\ FindBoundary(target.id) = 0 /\ Return(p)

----------------------------------------------------------------------------
(* Publication *)

\* The lease: no publication while a recomp is between its own publication and
\* the end of its marker update.
LeaseFree == \A p \in Procs : run[p].pc \in {"idle", "down"} \/ run[p].kind # "recomp"

\* An incremental run publishes a compartment and leaves the marker to a later
\* transform pass, in one transaction.
Publish(m) ==
    /\ LeaseFree
    /\ m \in present /\ Ordinal(m) > LastEnd.ordinal
    /\ ends' = ends \cup {EndAt(m)}
    /\ pending' = EndAt(m)
    /\ UNCHANGED <<host, owned, baseline, removed, degraded, run>>

\* A recomp replaces the compartments, drops the cached history and goes on to
\* move the marker itself:
\* updateCompactionMarkerAfterPublication up to its first write.
RecompPublishes(p, S) ==
    /\ run[p].pc = "idle" /\ LeaseFree
    /\ S # {} /\ S \subseteq present
    /\ Shorter \/ {m \in present : m <= LastEnd.id} \subseteq 1..Maximum(S)
    /\ ends' = {EndAt(m) : m \in S}
    /\ baseline' = {}
    /\ Decide(p, "recomp", EndAt(Maximum(S)))
    /\ UNCHANGED <<host, owned, pending, removed, degraded>>

----------------------------------------------------------------------------
(* Moving the marker *)

\* Variant: a target that is gone stays pending.
DrainKeepsStale(p) ==
    /\ p \in Transforming /\ run[p].pc = "idle" /\ pending # NoEnd
    /\ ValidTarget(pending) /\ Decide(p, "drain", pending)
    /\ UNCHANGED <<host, context, removed, degraded>>

\* applyDeferredCompactionMarker up to its first write
DrainReads(p) ==
    /\ p \in Transforming /\ run[p].pc = "idle" /\ pending # NoEnd
    /\ \/ ValidTarget(pending) /\ Decide(p, "drain", pending)
       \/ /\ ~ValidTarget(pending)
          /\ run' = [run EXCEPT ![p] = [IdleRun EXCEPT !.pc = "clearing", !.target = pending]]
    /\ UNCHANGED <<host, context, removed, degraded>>

RemoveOld(p) ==
    /\ run[p].pc = "removing"
    /\ RemoveRows(run[p].existing)
    /\ Goto(p, IF run[p].kind = "drain" THEN "injecting" ELSE "forgetting")
    /\ UNCHANGED <<present, last, context, removed, degraded>>

\* A recomp records that the old marker is gone before it writes the new one.
Forget(p) ==
    /\ run[p].pc = "forgetting"
    /\ owned' = NoMarker
    /\ Goto(p, "injecting")
    /\ UNCHANGED <<host, ends, pending, baseline, removed, degraded>>

Replacement(p) == [boundary |-> run[p].boundary, target |-> run[p].target]

Inject(p) ==
    /\ run[p].pc = "injecting"
    /\ InjectRows(RowsOf(Replacement(p)))
    /\ Goto(p, "persisting")
    /\ UNCHANGED <<present, last, context, removed, degraded>>

Persist(p) ==
    /\ run[p].pc = "persisting"
    /\ owned' = Replacement(p)
    /\ Goto(p, "clearing")
    /\ UNCHANGED <<host, ends, pending, baseline, removed, degraded>>

\* Variant: whatever is pending is cleared.
ClearAny(p) ==
    /\ run[p].pc = "clearing"
    /\ pending' = NoEnd
    /\ Return(p)
    /\ UNCHANGED <<host, ends, owned, baseline, removed, degraded>>

\* clearPendingCompactionMarkerStateIf: a drain clears the blob it applied and
\* no other; a recomp, or a compaction of the host's own, the blob that it finds.
ClearPending(p) ==
    /\ run[p].pc = "clearing"
    /\ pending' = IF run[p].kind \in {"recomp", "compacted"} \/ pending = run[p].target THEN NoEnd ELSE pending
    /\ Return(p)
    /\ UNCHANGED <<host, ends, owned, baseline, removed, degraded>>

----------------------------------------------------------------------------
(* Dropping the marker *)

Dropping(kind) == [IdleRun EXCEPT !.pc = "dropping", !.kind = kind, !.existing = owned]

\* The message.removed handler: the marker is dropped with the message it sits
\* on and with its summary, each event on its own; the count of degraded
\* rebuilds starts over.  When a cleanup before that fails, the event is lost.
OnMessageRemoved(p) ==
    /\ run[p].pc = "idle"
    /\ \E e \in removed :
          /\ removed' = removed \ {e}
          /\ \/ /\ degraded' = [degraded EXCEPT ![p] = 0]
                /\ IF owned # NoMarker /\ e \in {MessageGone(owned.boundary), SummaryGone(RowsOf(owned))}
                   THEN run' = [run EXCEPT ![p] = Dropping("removal")]
                   ELSE UNCHANGED run
             \/ p \in MayFail /\ UNCHANGED <<degraded, run>>
    /\ UNCHANGED <<host, context>>

\* The session.compacted handler, after a compaction of the host's own: the
\* marker is dropped, and then the pending target.
OnCompacted(p) ==
    /\ run[p].pc = "idle"
    /\ \/ owned # NoMarker /\ run' = [run EXCEPT ![p] = Dropping("compacted")]
       \/ /\ owned = NoMarker \/ p \in MayFail
          /\ run' = [run EXCEPT ![p] = [IdleRun EXCEPT !.pc = "clearing", !.kind = "compacted"]]
    /\ degraded' = [degraded EXCEPT ![p] = 0]
    /\ UNCHANGED <<host, context, removed>>

Dangling == owned # NoMarker /\ (owned.boundary \notin present \/ RowsOf(owned) \notin parts \cap summaries)

\* checkCompactionMarkerConsistency at the next start: a marker that is not
\* whole is dropped.  A check that fails is skipped.
Restart(p) ==
    /\ run[p].pc = "down"
    /\ \/ Dangling /\ run' = [run EXCEPT ![p] = Dropping("startup")]
       \/ (~Dangling \/ p \in MayFail) /\ Return(p)
    /\ UNCHANGED <<host, context, removed, degraded>>

DropRows(p) ==
    /\ run[p].pc = "dropping"
    /\ RemoveRows(run[p].existing)
    /\ Goto(p, "dropped")
    /\ UNCHANGED <<present, last, context, removed, degraded>>

\* Whatever is recorded by now is forgotten.
DropRecord(p) ==
    /\ run[p].pc = "dropped"
    /\ owned' = NoMarker
    /\ \/ run[p].kind = "compacted" /\ Goto(p, "clearing")
       \/ run[p].kind # "compacted" /\ Return(p)
    /\ UNCHANGED <<host, ends, pending, baseline, removed, degraded>>

\* The handlers forget a marker whose rows they could not delete, and the
\* compaction's goes on to the pending target whatever failed before.
KeepsRecord(p) == run[p].pc = "dropping" /\ run[p].kind = "startup"
SkipsDrop(p)   == run[p].pc = "dropped" /\ run[p].kind = "compacted"

\* A database is busy or unreadable: the operation ends where it is.
StepFails(p) ==
    /\ p \in MayFail /\ run[p].pc \notin {"idle", "down"}
    /\ \/ run[p].pc = "dropping" /\ ~KeepsRecord(p) /\ Goto(p, "dropped")
       \/ SkipsDrop(p) /\ Goto(p, "clearing")
       \/ (run[p].pc # "dropping" \/ KeepsRecord(p)) /\ ~SkipsDrop(p) /\ Return(p)
    /\ UNCHANGED <<host, context, removed, degraded>>

----------------------------------------------------------------------------
(* Repair *)

\* The markers reconcileForkOrphanedCompactionMarkers means to delete: not the
\* recorded one, with a summary of this plugin, and on a newer boundary.
Outranking == {l \in parts : /\ owned # NoMarker /\ l # RowsOf(owned)
                             /\ \E s \in summaries : s.boundary = l.boundary
                             /\ {l.boundary, owned.boundary} \subseteq present
                             /\ l.boundary > owned.boundary}

\* A pass renders the history anew and caches it with the end it reaches to.
Materialize(p) ==
    /\ p \in Rendering /\ run[p].pc = "idle"
    /\ baseline' = {LastEnd.id}
    /\ UNCHANGED <<host, ends, owned, pending, removed, degraded, run>>

Shown(m) == m \in present /\ m >= Window

\* trimEndMessageId: a pass that may not change the prompt cuts where the cached
\* history was cut, every other at the end of the compartments.
TrimEnd(busting) == IF busting \/ baseline = {} THEN LastEnd.id ELSE CHOOSE m \in baseline : TRUE

Counted(p, m) == IF Shown(m) THEN 0 ELSE IF degraded[p] = 0 THEN 1 ELSE 2

\* A pass that rebuilds the history counts whether the message it cuts at is in
\* the window; the first miss starts the reconciliation.
Rebuild(p, busting) ==
    LET m == TrimEnd(busting) IN
    /\ p \in Rendering /\ run[p].pc = "idle" /\ ends # {} /\ m # 0
    /\ degraded' = [degraded EXCEPT ![p] = Counted(p, m)]
    /\ IF Counted(p, m) = 1 /\ Outranking # {}
       THEN run' = [run EXCEPT ![p] = [IdleRun EXCEPT !.pc = "reconciling", !.kind = "reconcile",
                                                      !.existing = owned, !.foreign = Outranking]]
       ELSE UNCHANGED run
    /\ UNCHANGED <<host, context, removed>>

\* clearInjectionCache, on an overflow of the model's window, a change of the
\* rendered memories or a publication: the count starts over.
ClearCache(p) ==
    /\ run[p].pc = "idle" /\ degraded[p] # 0
    /\ degraded' = [degraded EXCEPT ![p] = 0]
    /\ UNCHANGED <<host, context, removed, run>>

\* The recorded state is read again before each deletion.
RereadOwned(p, l) ==
    /\ run[p].pc = "reconciling" /\ l \in run[p].foreign
    /\ \/ /\ owned # NoMarker /\ l # RowsOf(owned)
          /\ run' = [run EXCEPT ![p].pc = "deleting", ![p].existing = owned,
                                ![p].boundary = l.boundary]
       \/ /\ owned = NoMarker \/ l = RowsOf(owned)
          /\ run' = [run EXCEPT ![p].foreign = @ \ {l}]
    /\ UNCHANGED <<host, context, removed, degraded>>

\* Variant: the session's own part is deleted, and the foreign marker stays.
DeleteOwn(p) ==
    LET doomed == {l \in run[p].foreign : l.boundary = run[p].boundary} IN
    /\ run[p].pc = "deleting"
    /\ parts' = parts \ {RowsOf(run[p].existing)}
    /\ summaries' = summaries
    /\ run' = [run EXCEPT ![p].pc = "reconciling", ![p].foreign = @ \ doomed]
    /\ UNCHANGED <<present, last, context, removed, degraded>>

\* removeForeignCompactionMarker: the part and the summaries on its boundary,
\* the recorded summary excepted.
DeleteForeign(p) ==
    LET doomed == {l \in run[p].foreign : l.boundary = run[p].boundary} IN
    /\ run[p].pc = "deleting"
    /\ parts' = parts \ doomed
    /\ summaries' = {s \in summaries : s.boundary # run[p].boundary \/ s = RowsOf(run[p].existing)}
    /\ run' = [run EXCEPT ![p].pc = "reconciling", ![p].foreign = @ \ doomed]
    /\ UNCHANGED <<present, last, context, removed, degraded>>

Reconciled(p) ==
    /\ run[p].pc = "reconciling" /\ run[p].foreign = {}
    /\ Return(p)
    /\ UNCHANGED <<host, context, removed, degraded>>

Crash(p) ==
    /\ p \in MayCrash /\ run[p].pc # "down"
    /\ run' = [run EXCEPT ![p] = [IdleRun EXCEPT !.pc = "down"]]
    /\ degraded' = [degraded EXCEPT ![p] = 0]
    /\ UNCHANGED <<host, context, removed>>

----------------------------------------------------------------------------

Move(p) == RemoveOld(p) \/ Forget(p) \/ Inject(p) \/ Persist(p) \/ ClearPending(p)
Drop(p) == DropRows(p) \/ DropRecord(p)
Reconcile(p) == (\E l \in run[p].foreign : RereadOwned(p, l)) \/ DeleteForeign(p) \/ Reconciled(p)

Next ==
    \/ MessageArrives
    \/ \E m \in Messages : Revert(m) \/ Publish(m)
    \/ \E l \in summaries : DeleteSummary(l)
    \/ \E p \in Procs :
          \/ \E S \in SUBSET Messages : RecompPublishes(p, S)
          \/ DrainReads(p) \/ Move(p) \/ Drop(p) \/ StepFails(p)
          \/ Materialize(p) \/ \E busting \in BOOLEAN : Rebuild(p, busting)
          \/ Reconcile(p) \/ ClearCache(p)
          \/ OnMessageRemoved(p) \/ OnCompacted(p) \/ Crash(p) \/ Restart(p)

Spec == Init /\ [][Next]_vars

\* Passes keep coming, a process finishes what it starts unless it is struck
\* down, one that is down comes back, and in the end nothing is struck any more.
DrainFairness ==
    /\ \A p \in Transforming :
          SF_vars(DrainReads(p)) /\ WF_vars(Move(p)) /\ WF_vars(Drop(p)) /\ WF_vars(Restart(p))
    /\ <>[][\A p \in Procs : ~Crash(p) /\ ~StepFails(p)]_vars

\* Among the passes are some that rebuild the history and may change the prompt.
RepairFairness ==
    \A p \in Rendering : SF_vars(Rebuild(p, TRUE)) /\ WF_vars(Reconcile(p))

FairSpec == Spec /\ DrainFairness /\ RepairFairness

----------------------------------------------------------------------------
(* Properties *)

\* A boundary carries one marker of this plugin at most, whatever failed
\* between writing the rows and recording them
\* (removeLegacyMarkerLineageRows, compaction-marker.ts).
OneLineagePerBoundary ==
    \A l, m \in summaries : l.boundary = m.boundary => l = m

\* What the host hides behind a marker of this session is in the compartments:
\* the window never starts after the message that follows the last compartment,
\* but for the marker a fork inherited from its parent.
HiddenIsSummarised ==
    \A l \in parts \cap summaries : \A m \in present :
        ~ l.foreign /\ l.boundary \in present /\ m < l.boundary => m <= LastEnd.id

\* The marker moves forward, unless the message it sits on is gone
\* (compaction-marker-manager.ts: "The manager only moves the boundary forward").
MovesForward ==
    [][owned.boundary \in present /\ owned' # NoMarker => owned'.boundary >= owned.boundary]_vars

\* The blob of a publication is dropped for a marker that reaches as far, for
\* a newer blob, for a target that is no longer published, or with the marker
\* itself after a compaction of the host's own.
PendingNotLost ==
    [][pending # NoEnd /\ pending' = NoEnd =>
          \/ owned'.target.ordinal >= pending.ordinal
          \/ ~ValidTarget(pending)
          \/ \E p \in Procs : run[p].kind = "compacted" /\ ClearPending(p)]_vars

\* A reconciliation never deletes the rows of the marker the session owns
\* (compaction-marker-manager.ts: the state is read again "to avoid deleting a
\* marker that became owned after the scan").
OwnedSurvivesReconcile ==
    [][(\E p \in Procs : DeleteForeign(p)) /\ RowsOf(owned) \in parts \cap summaries
       => RowsOf(owned) \in parts' \cap summaries']_vars

\* A publication's marker is applied, or found superseded, in the end.
PendingIsSettled == \A m \in Messages : (pending.id = m) ~> (pending.id # m)

\* A marker that hides the end of the compartments behind a newer boundary
\* than the session's own is removed, or overtaken, in the end.
OutrankingIsRemoved == (Outranking # {} /\ ~Shown(LastEnd.id)) ~> (Outranking = {} \/ Shown(LastEnd.id))

\* The same, of a process whose last rebuild still found the end of the
\* compartments and whose database calls succeed.
FirstMissIsRepaired ==
    \A p \in Rendering :
       (degraded[p] = 0 /\ Outranking # {} /\ ~Shown(LastEnd.id)) ~> (Outranking = {} \/ Shown(LastEnd.id))
=============================================================================
