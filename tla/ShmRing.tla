--------------------------------- MODULE ShmRing ---------------------------------
(***************************************************************************)
(* One direction of the shared-memory transport: descriptor slots and a    *)
(* byte arena in a mapping two processes share, and two eventfd doorbells  *)
(* with generation-bound parking, one per side.                            *)
(*                                                                         *)
(* Ring is neither Send nor Sync, so each side is one thread.  A step is   *)
(* one access to what the other side writes; the accesses around it that   *)
(* only the side itself can see belong to the same step.  Steps are        *)
(* sequentially consistent, which the code's SeqCst and Acquire/Release    *)
(* pairs are there to give.  A byte holds the sequence number of the frame *)
(* it was written for, 0 once its page is removed.                         *)
(***************************************************************************)
EXTENDS Integers, Sequences, FiniteSetsExt

CONSTANTS
    Depth,      \* grant.descriptor_depth
    Arena,      \* grant.arena_bytes
    PageSize,   \* system_page_size()
    MaxLeases,  \* grant.max_leases
    Sizes,      \* lengths callers reserve
    MaxFrames,  \* bound: frames published
    Blocking,   \* whether callers wait (reserve_until, arm_data_wait) or only try
    Nested,     \* whether a caller reserves again while it holds a reservation
    Fails       \* whether page removal and doorbells may fail

ASSUME RingAssumption ==
    /\ {Depth, PageSize, MaxLeases, MaxFrames} \subseteq Nat \ {0}
    /\ Arena \in {n * PageSize : n \in 1..Arena} /\ Sizes \subseteq 0..Arena
    /\ {Blocking, Nested, Fails} \subseteq BOOLEAN

VARIABLES
    slot,         \* descriptor slots: state, descriptor, reservation_len, completion_sequence
    published, arenaWrite,   \* ProducerPage
    consumed, activeLeases,  \* ConsumerPage
    completed, reclaimed,    \* ReclaimPage
    arena,        \* the bytes
    quarantined,  \* the lifecycle page's flag
    wake,         \* per waiting side: WakeEpoch and its doorbell
    pc, seen,     \* per side: place in its wait, generation it read
    signals,      \* per side: the sides it still has to signal, and how far it is
    bound,        \* what the producer asks for
    held,         \* its reservations: at most one, or none
    refused       \* frames whose commit returned an error

producerPage == <<published, arenaWrite>>
consumerPage == <<consumed, activeLeases>>
reclaimPage == <<completed, reclaimed>>
waiting == <<wake, pc, seen>>
storage == <<slot, producerPage, consumerPage, reclaimPage, arena>>
holding == <<bound, held, refused>>
vars == <<storage, quarantined, waiting, signals, holding>>

Sides == {"producer", "consumer"}
Slots == 0..(Depth - 1)
FrameNumbers == 1..MaxFrames

\* SLOT_RECEIVER_HELD exists only inside try_receive.
SlotStates == {"free", "reserved", "published", "leased", "pending"}

\* try*: about to look for capacity or data; cmp*: about to compare generations;
\* failed: a wait returned an error, and its caller retires the channel.
Waits == {"idle", "try0", "generation", "park", "try1", "cmp1", "drain", "try2", "cmp2",
          "blocked", "woken", "redrain", "unpark", "leave", "failed"}

Tries == {"try0", "try1", "try2"}

TypeOK ==
    /\ slot \in [Slots -> [state : SlotStates, sequence : 0..MaxFrames, start : Nat,
                           length : 0..Arena, body : 0..Arena,
                           reserved : 0..Arena, completion : 0..MaxFrames]]
    /\ completed \in 0..consumed /\ consumed \in 0..published /\ published \in 0..MaxFrames
    /\ reclaimed \in 0..arenaWrite /\ arenaWrite \in reclaimed..(reclaimed + Arena)
    /\ activeLeases \in 0..MaxLeases
    /\ arena \in [0..(Arena - 1) -> 0..MaxFrames]
    /\ quarantined \in BOOLEAN
    /\ wake \in [Sides -> [generation : Nat, parked : Nat, bell : BOOLEAN]]
    /\ pc \in [Sides -> Waits] /\ seen \in [Sides -> Nat]
    /\ signals \in [Sides -> [to : {<<>>, <<"consumer">>, <<"producer", "consumer">>},
                              at : {"bump", "swap", "ring"}]]
    /\ bound \in Sizes \cup {0}
    /\ held \in SUBSET [sequence : FrameNumbers, start : Nat, length : 0..Arena, body : -1..Arena]
    /\ refused \subseteq FrameNumbers

EmptySlot == [state |-> "free", sequence |-> 0, start |-> 0, length |-> 0, body |-> 0,
              reserved |-> 0, completion |-> 0]

NoSignal == [to |-> <<>>, at |-> "bump"]

Init ==
    /\ slot = [i \in Slots |-> EmptySlot]
    /\ published = 0 /\ arenaWrite = 0 /\ consumed = 0 /\ activeLeases = 0
    /\ completed = 0 /\ reclaimed = 0
    /\ arena = [x \in 0..(Arena - 1) |-> 0]
    /\ quarantined = FALSE
    /\ wake = [s \in Sides |-> [generation |-> 0, parked |-> 0, bell |-> FALSE]]
    /\ pc = [s \in Sides |-> "idle"] /\ seen = [s \in Sides |-> 0]
    /\ signals = [s \in Sides |-> NoSignal]
    /\ bound = 0 /\ held = {} /\ refused = {}

----------------------------------------------------------------------------
(* Slots and bytes *)

slotOf(n) == (n - 1) % Depth

Bytes(from, to) == {x % Arena : x \in from..(to - 1)}

Frame(n) == slot[slotOf(n)]

\* Variant: a gap does not end the completed run.
LastOfAny == Max({completed} \cup {n \in completed..(completed + Depth) : n > 0 /\ Frame(n).completion = n})

\* The last frame of the completed run at the head of the ring.
LastCompleted ==
    Max({n \in completed..(completed + Depth) :
            \A k \in (completed + 1)..n : Frame(k).completion = k})

RunEnd ==
    IF LastCompleted = completed THEN reclaimed
    ELSE Frame(LastCompleted).start + Frame(LastCompleted).length

\* removal_ranges: whole pages only.
WholePages(from, to) ==
    UNION {Bytes(p * PageSize, (p + 1) * PageSize) :
              p \in {q \in 0..(to \div PageSize) : from <= q * PageSize /\ (q + 1) * PageSize <= to}}

\* The page the run starts in, when nothing is published behind the run.
PageStart(x) == (x \div PageSize) * PageSize

\* Variant: the first page goes whatever else lies on it.
FirstPageAlways(from, to) == Bytes(PageStart(from), PageStart(from) + PageSize)

FirstPage(from, to) ==
    IF arenaWrite = to /\ from # PageStart(from) /\ to = PageStart(to)
    THEN Bytes(PageStart(from), PageStart(from) + PageSize)
    ELSE {}

Removed ==
    IF LastCompleted = completed THEN {}
    ELSE WholePages(reclaimed, RunEnd) \cup FirstPage(reclaimed, RunEnd)

Freed == {slotOf(n) : n \in (completed + 1)..LastCompleted}

\* The slots after reclaim_completed.
ReclaimedSlots ==
    [i \in Slots |-> IF i \in Freed
                     THEN [slot[i] EXCEPT !.state = "free", !.reserved = 0, !.completion = 0]
                     ELSE slot[i]]

\* Whether try_reserve gets past its checks.
Fits ==
    /\ ~ quarantined
    /\ published - LastCompleted < Depth
    /\ ReclaimedSlots[slotOf(published + 1)].state = "free"
    /\ bound <= Arena - (arenaWrite - RunEnd)

dataAvailable == published # consumed /\ activeLeases < MaxLeases

CanReceive == ~ quarantined /\ dataAvailable

----------------------------------------------------------------------------
(* Parking and signalling, the same for both sides *)

Free(s) == signals[s].to = <<>>

Goto(s, place) == pc' = [pc EXCEPT ![s] = place]

Signal(s, to) == signals' = [signals EXCEPT ![s] = [to |-> to, at |-> "bump"]]

\* What a look that finds something, or nothing, is followed by.
Found(s) == Goto(s, IF pc[s] = "try0" THEN "idle" ELSE "leave")

Missed(s) ==
    Goto(s, CASE ~ Blocking -> "idle"
              [] pc[s] = "try0" -> "generation"
              [] pc[s] = "try1" -> "cmp1"
              [] OTHER -> "cmp2")

ReadGeneration(s) ==
    /\ pc[s] = "generation" /\ Free(s)
    /\ seen' = [seen EXCEPT ![s] = wake[s].generation]
    /\ Goto(s, "park")
    /\ UNCHANGED <<storage, quarantined, wake, signals, holding>>

\* Variant: no look after parking.
ParkAndBlock(s) ==
    /\ pc[s] = "park" /\ Free(s)
    /\ wake' = [wake EXCEPT ![s].parked = seen[s] + 1]
    /\ Goto(s, "blocked")
    /\ UNCHANGED <<storage, quarantined, seen, signals, holding>>

Park(s) ==
    /\ pc[s] = "park" /\ Free(s)
    /\ wake' = [wake EXCEPT ![s].parked = seen[s] + 1]
    /\ Goto(s, "try1")
    /\ UNCHANGED <<storage, quarantined, seen, signals, holding>>

\* A changed generation: the producer starts over, the consumer's arm says no.
Compare(s) ==
    /\ pc[s] \in {"cmp1", "cmp2"} /\ Free(s)
    /\ Goto(s, IF wake[s].generation # seen[s] THEN "unpark"
               ELSE IF pc[s] = "cmp1" THEN "drain" ELSE "blocked")
    /\ UNCHANGED <<storage, quarantined, wake, seen, signals, holding>>

Drain(s) ==
    /\ pc[s] \in {"drain", "redrain"} /\ Free(s)
    /\ wake' = [wake EXCEPT ![s].bell = FALSE]
    /\ Goto(s, IF pc[s] = "drain" THEN "try2" ELSE IF s = "producer" THEN "try0" ELSE "idle")
    /\ UNCHANGED <<storage, quarantined, seen, signals, holding>>

\* The read of the eventfd fails.  reserve_until takes its park back before it
\* returns the error, arm_data_wait does not.
DrainFails(s) ==
    /\ Fails /\ pc[s] \in {"drain", "redrain"} /\ Free(s)
    /\ \/ s = "producer" /\ wake' = [wake EXCEPT ![s].parked = 0]
       \/ s = "consumer" /\ UNCHANGED wake
    /\ Goto(s, "failed")
    /\ UNCHANGED <<storage, quarantined, seen, signals, holding>>

Wakes(s) ==
    /\ pc[s] = "blocked" /\ Free(s) /\ wake[s].bell
    /\ Goto(s, "woken")
    /\ UNCHANGED <<storage, quarantined, wake, seen, signals, holding>>

\* The end of a wait that blocked, and the ways out that did not.
Unpark(s) ==
    /\ pc[s] \in {"woken", "unpark", "leave"} /\ Free(s)
    /\ wake' = [wake EXCEPT ![s].parked = 0]
    /\ Goto(s, CASE pc[s] = "woken" -> "redrain"
                 [] pc[s] = "unpark" /\ s = "producer" -> "try0"
                 [] OTHER -> "idle")
    /\ UNCHANGED <<storage, quarantined, seen, signals, holding>>

Interrupted(s) ==
    /\ pc[s] = "blocked" /\ Free(s)
    /\ Goto(s, "woken")
    /\ UNCHANGED <<storage, quarantined, wake, seen, signals, holding>>

\* The deadline of reserve_until or of wait_for_data.
GivesUp(s) ==
    /\ pc[s] = "blocked" /\ Free(s)
    /\ wake' = [wake EXCEPT ![s].parked = 0]
    /\ Goto(s, "idle")
    /\ UNCHANGED <<storage, quarantined, seen, signals, holding>>

\* Another branch of the endpoint's select!: a frame to send or a cancellation.
\* The loop goes on and leaves the consumer parked.
OtherEvent(s) ==
    /\ s = "consumer" /\ pc[s] = "blocked" /\ Free(s)
    /\ Goto(s, "idle")
    /\ UNCHANGED <<storage, quarantined, wake, seen, signals, holding>>

\* signal_wake: count, take the park, and ring if there was one.
Bump(s) ==
    /\ ~ Free(s) /\ signals[s].at = "bump"
    /\ wake' = [wake EXCEPT ![Head(signals[s].to)].generation = @ + 1]
    /\ signals' = [signals EXCEPT ![s].at = "swap"]
    /\ UNCHANGED <<storage, quarantined, pc, seen, holding>>

\* Variant: the park is taken and nobody rung.
SwapParkSilently(s) ==
    /\ ~ Free(s) /\ signals[s].at = "swap"
    /\ wake' = [wake EXCEPT ![Head(signals[s].to)].parked = 0]
    /\ signals' = [signals EXCEPT ![s] = [to |-> Tail(@.to), at |-> "bump"]]
    /\ UNCHANGED <<storage, quarantined, pc, seen, holding>>

SwapPark(s) ==
    LET t == Head(signals[s].to)
    IN /\ ~ Free(s) /\ signals[s].at = "swap"
       /\ wake' = [wake EXCEPT ![t].parked = 0]
       /\ signals' = [signals EXCEPT ![s] =
                         IF wake[t].parked # 0 THEN [to |-> @.to, at |-> "ring"]
                         ELSE [to |-> Tail(@.to), at |-> "bump"]]
       /\ UNCHANGED <<storage, quarantined, pc, seen, holding>>

Ring(s) ==
    /\ ~ Free(s) /\ signals[s].at = "ring"
    /\ wake' = [wake EXCEPT ![Head(signals[s].to)].bell = TRUE]
    /\ signals' = [signals EXCEPT ![s] = [to |-> Tail(@.to), at |-> "bump"]]
    /\ UNCHANGED <<storage, quarantined, pc, seen, holding>>

----------------------------------------------------------------------------
(* The producer *)

Reserve ==
    /\ pc["producer"] = "idle" /\ Free("producer")
    /\ published < MaxFrames /\ (held = {} \/ Nested)
    /\ bound' \in Sizes
    /\ Goto("producer", "try0")
    /\ UNCHANGED <<storage, quarantined, wake, seen, signals, held, refused>>

\* try_reserve: reclaim first, whatever becomes of the reservation.
TryReserve ==
    LET n == published + 1
        r == [sequence |-> n, start |-> arenaWrite, length |-> bound, body |-> -1]
    IN /\ pc["producer"] \in Tries /\ Free("producer") /\ ~ quarantined
       /\ completed' = LastCompleted /\ reclaimed' = RunEnd
       /\ arena' = [x \in DOMAIN arena |-> IF x \in Removed THEN 0 ELSE arena[x]]
       /\ \/ /\ Fits
             /\ slot' = [ReclaimedSlots EXCEPT ![slotOf(n)].state = "reserved",
                                               ![slotOf(n)].reserved = bound]
             /\ held' = {r}
             /\ Found("producer")
          \/ /\ ~ Fits
             /\ slot' = ReclaimedSlots
             /\ Missed("producer")
             /\ UNCHANGED held
       /\ UNCHANGED <<producerPage, consumerPage, quarantined, wake, seen, signals, bound, refused>>

ReclaimFails ==
    /\ pc["producer"] \in Tries /\ Free("producer") /\ ~ quarantined
    /\ Fails /\ Removed # {}
    /\ quarantined' = TRUE
    /\ arena' \in {[x \in DOMAIN arena |-> IF x \in gone THEN 0 ELSE arena[x]] :
                      gone \in {{}, WholePages(reclaimed, RunEnd)}}
    /\ Found("producer")
    /\ UNCHANGED <<slot, producerPage, consumerPage, reclaimPage, wake, seen, signals, holding>>

TryQuarantined ==
    /\ pc["producer"] \in Tries /\ Free("producer") /\ quarantined
    /\ Found("producer")
    /\ UNCHANGED <<storage, quarantined, wake, seen, signals, holding>>

\* The deadline passes during a look that finds no capacity.
DeadlinePasses ==
    /\ pc["producer"] \in {"generation", "cmp1", "cmp2"} /\ Free("producer")
    /\ wake' = [wake EXCEPT !["producer"].parked = 0]
    /\ Goto("producer", "idle")
    /\ UNCHANGED <<storage, quarantined, seen, signals, holding>>

Write ==
    /\ pc["producer"] = "idle" /\ Free("producer")
    /\ \E r \in held, body \in 0..Arena :
          /\ r.body = -1 /\ body <= r.length
          /\ held' = {[r EXCEPT !.body = body]}
          /\ arena' = [x \in DOMAIN arena |-> IF x \in Bytes(r.start, r.start + body)
                                              THEN r.sequence ELSE arena[x]]
    /\ UNCHANGED <<slot, producerPage, consumerPage, reclaimPage, quarantined, waiting, signals,
                   bound, refused>>

\* Variant: the unused tail of a reservation is given back at once.
CommitBodyOnly ==
    /\ pc["producer"] = "idle" /\ Free("producer")
    /\ \E r \in held :
          /\ r.body # -1
          /\ slot' = [slot EXCEPT ![slotOf(r.sequence)] =
                         [@ EXCEPT !.state = "published", !.sequence = r.sequence,
                                   !.start = r.start, !.length = r.body, !.body = r.body]]
          /\ arenaWrite' = r.start + r.body
          /\ published' = r.sequence
    /\ Signal("producer", <<"consumer">>)
    /\ held' = {}
    /\ UNCHANGED <<consumerPage, reclaimPage, arena, quarantined, waiting, bound, refused>>

Commit ==
    /\ pc["producer"] = "idle" /\ Free("producer")
    /\ \E r \in held :
          /\ r.body # -1
          /\ slot' = [slot EXCEPT ![slotOf(r.sequence)] =
                         [@ EXCEPT !.state = "published", !.sequence = r.sequence,
                                   !.start = r.start, !.length = r.length, !.body = r.body]]
          /\ arenaWrite' = r.start + r.length
          /\ published' = r.sequence
    /\ Signal("producer", <<"consumer">>)
    /\ held' = {}
    /\ UNCHANGED <<consumerPage, reclaimPage, arena, quarantined, waiting, bound, refused>>

\* commit aborts the reservation when its last step, the doorbell, fails.
CommitFails ==
    /\ Fails /\ ~ Free("producer") /\ signals["producer"].at = "ring"
    /\ quarantined' = TRUE
    /\ slot' = [slot EXCEPT ![slotOf(published)].state = "free", ![slotOf(published)].reserved = 0]
    /\ refused' = refused \cup {published}
    /\ signals' = [signals EXCEPT !["producer"] = NoSignal]
    /\ UNCHANGED <<producerPage, consumerPage, reclaimPage, arena, waiting, bound, held>>

Abort ==
    /\ pc["producer"] = "idle" /\ Free("producer") /\ held # {}
    /\ slot' = [i \in Slots |-> IF \E r \in held : i = slotOf(r.sequence)
                                THEN [slot[i] EXCEPT !.state = "free", !.reserved = 0] ELSE slot[i]]
    /\ held' = {}
    /\ UNCHANGED <<producerPage, consumerPage, reclaimPage, arena, quarantined, waiting, signals,
                   bound, refused>>

----------------------------------------------------------------------------
(* The consumer *)

Receive ==
    LET n == consumed + 1
    IN /\ pc["consumer"] = "idle" /\ Free("consumer") /\ CanReceive
       /\ Frame(n).state = "published"
       /\ slot' = [slot EXCEPT ![slotOf(n)].state = "leased"]
       /\ consumed' = n
       /\ activeLeases' = activeLeases + 1
       /\ UNCHANGED <<producerPage, reclaimPage, arena, quarantined, waiting, signals, holding>>

\* try_receive had nothing: arm_data_wait.
ArmDataWait ==
    /\ pc["consumer"] = "idle" /\ Free("consumer") /\ Blocking
    /\ ~ quarantined /\ ~ dataAvailable
    /\ Goto("consumer", "try0")
    /\ UNCHANGED <<storage, quarantined, wake, seen, signals, holding>>

LookForData ==
    /\ pc["consumer"] \in Tries /\ Free("consumer")
    /\ IF dataAvailable THEN Found("consumer") ELSE Missed("consumer")
    /\ UNCHANGED <<storage, quarantined, wake, seen, signals, holding>>

\* release, also while the consumer is parked: a lease is dropped by whoever
\* holds the frame.  It signals the producer and then the consumer itself.
Release(n) ==
    /\ pc["consumer"] \in {"idle", "blocked", "failed"} /\ Free("consumer") /\ ~ quarantined
    /\ n <= consumed /\ Frame(n).sequence = n /\ Frame(n).state = "leased"
    /\ slot' = [slot EXCEPT ![slotOf(n)].state = "pending", ![slotOf(n)].completion = n]
    /\ activeLeases' = activeLeases - 1
    /\ Signal("consumer", <<"producer", "consumer">>)
    /\ UNCHANGED <<producerPage, consumed, reclaimPage, arena, quarantined, waiting, holding>>

ReleaseFails ==
    /\ Fails /\ ~ Free("consumer") /\ signals["consumer"].at = "ring"
    /\ quarantined' = TRUE
    /\ signals' = [signals EXCEPT !["consumer"] = NoSignal]
    /\ UNCHANGED <<storage, waiting, holding>>

----------------------------------------------------------------------------

WaitStep(s) ==
    \/ ReadGeneration(s) \/ Park(s) \/ Compare(s) \/ Drain(s) \/ Wakes(s) \/ Unpark(s)

WaitEnds(s) == GivesUp(s) \/ OtherEvent(s) \/ Interrupted(s) \/ DrainFails(s)

SignalStep(s) == Bump(s) \/ SwapPark(s) \/ Ring(s)

ProducerStep == Reserve \/ TryReserve \/ ReclaimFails \/ TryQuarantined \/ DeadlinePasses
                \/ Write \/ Commit \/ CommitFails \/ Abort

ConsumerStep == Receive \/ ArmDataWait \/ LookForData \/ ReleaseFails \/ (\E n \in FrameNumbers : Release(n))

Next ==
    \/ \E s \in Sides : WaitStep(s) \/ SignalStep(s) \/ WaitEnds(s)
    \/ ProducerStep
    \/ ConsumerStep

Spec == Init /\ [][Next]_vars

\* Both sides run on.  Nothing but its doorbell is sure to end a wait: the
\* endpoint's select! has no deadline.
FairSpec == Spec /\ \A s \in Sides : WF_vars(WaitStep(s)) /\ WF_vars(SignalStep(s))

----------------------------------------------------------------------------
(* Properties *)

Intact(n, start, body) == \A x \in Bytes(start, start + body) : arena[x] = n

\* A frame's payload: its number, 0 when its bytes are not what was written.
Payload(n) == IF Intact(n, Frame(n).start, Frame(n).body) THEN n ELSE 0

Leased == {n \in FrameNumbers : Frame(n).sequence = n /\ Frame(n).state = "leased"}

Channel == INSTANCE FrameChannel WITH
    sent <- published,
    queue <- [i \in 1..(published - consumed) |-> Payload(consumed + i)],
    leased <- {Payload(n) : n \in Leased}

\* The ring is a FrameChannel: publication, lease and completion through
\* descriptor slots, wrapped spans and removed pages deliver every frame once,
\* in order and with the bytes that were written (try_reserve, commit_reservation,
\* try_receive, release, reclaim_completed).
DeliversFrames == Channel!Spec

\* The checks that would report InvalidSharedState never fail: the next frame's
\* slot is published, and a completed run is pending and contiguous from the
\* reclaim cursor (try_receive, reclaim_completed).
SharedStateIsValid ==
    ~ quarantined =>
        /\ published # consumed => Frame(consumed + 1).state = "published"
        /\ \A n \in (completed + 1)..LastCompleted :
              /\ Frame(n).state = "pending" /\ Frame(n).sequence = n
              /\ Frame(n).start = IF n = completed + 1 THEN reclaimed
                                  ELSE Frame(n - 1).start + Frame(n - 1).length

\* The bytes charged to slots and those of the reservation, each as a pair of
\* its owner and its place there.
ChargedBytes == {u \in Slots \X (1..Arena) : u[2] <= slot[u[1]].reserved}
ReservedBytes == {u \in held \X (1..Arena) : u[2] <= u[1].length}

\* conservation: the bytes charged to slots are exactly those between the
\* cursors and those of the reservation, and never more than the arena.
BytesConserved ==
    ~ quarantined =>
        /\ Cardinality(ChargedBytes) = arenaWrite - reclaimed + Cardinality(ReservedBytes)
        /\ Cardinality(ChargedBytes) <= Arena

HasCause(s) == IF s = "producer" THEN held = {} /\ Fits ELSE dataAvailable

Called(s) == wake[s].bell \/ \E t \in Sides : \E i \in 1..Len(signals[t].to) : signals[t].to[i] = s

Asleep(s) == pc[s] = "blocked" /\ ~ quarantined

\* A side asleep on its doorbell under a park that still stands, while there is
\* something for it, has been called or is about to be: the looks after parking
\* miss nothing (reserve_until, arm_data_wait, signal_wake).
ParkedIsCalled == \A s \in Sides : Asleep(s) /\ wake[s].parked # 0 /\ HasCause(s) => Called(s)

\* "Generation-bound parking closes the check-to-sleep race": a side asleep on
\* its doorbell, while there is something for it, is called.
SleeperIsCalled == \A s \in Sides : Asleep(s) /\ HasCause(s) => Called(s)

\* A side that is asleep under its park while there is something for it wakes
\* up, although nothing but its doorbell is sure to end a wait: whoever takes
\* the park rings, and no drain eats that ring (signal_wake, arm_data_wait,
\* reserve_until).
ParkedIsWoken == \A s \in Sides : (Asleep(s) /\ wake[s].parked # 0 /\ HasCause(s)) ~> ~ Asleep(s)

\* "active reservation owns range": what a caller wrote into its reservation is
\* there when it commits (write_reservation, commit_reservation).
ReservationIsOwned == \A r \in held : r.body > 0 => Intact(r.sequence, r.start, r.body)

\* "Any failure aborts the reservation before returning an error": a frame
\* whose commit failed is not received.
RefusedIsNotReceived == refused \cap 1..consumed = {}

=============================================================================
