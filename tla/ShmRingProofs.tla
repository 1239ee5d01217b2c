----------------------------- MODULE ShmRingProofs ------------------------------
(***************************************************************************)
(* What is proved about the shared-memory ring, for every depth, arena,    *)
(* page size, number of leases and number of frames: the checks for        *)
(* invalid shared state never fail, a park that stands is answered, the    *)
(* ring is a FIFO channel of intact frames, and its bytes are conserved.   *)
(***************************************************************************)
EXTENDS ShmRing, FiniteSetTheorems, FunctionTheorems, SequenceTheorems, WellFoundedInduction, TLAPS

----------------------------------------------------------------------------
(* Remainders *)

LEMMA Constants ==
    /\ Depth \in Nat \ {0} /\ PageSize \in Nat \ {0} /\ MaxLeases \in Nat \ {0} /\ MaxFrames \in Nat \ {0}
    /\ Arena \in Nat \ {0} /\ Sizes \subseteq 0..Arena
    /\ Depth \in Int /\ Depth > 0 /\ Arena \in Int /\ Arena > 0
  <1>1. /\ Depth \in Nat \ {0} /\ PageSize \in Nat \ {0} /\ MaxLeases \in Nat \ {0} /\ MaxFrames \in Nat \ {0}
        /\ Arena \in {n * PageSize : n \in 1..Arena} /\ Sizes \subseteq 0..Arena
    BY RingAssumption
  <1>2. PICK n \in 1..Arena : Arena = n * PageSize
    BY <1>1
  <1>3. n \in Nat /\ n >= 1
    OBVIOUS
  <1>4. n * PageSize >= PageSize
    <2>1. (n - 1) * PageSize >= 0
      BY <1>1, <1>3
    <2> QED
      BY <1>1, <1>3, <2>1
  <1>5. Arena \in Nat \ {0}
    BY <1>1, <1>2, <1>3, <1>4
  <1> QED
    BY <1>1, <1>5

LEMMA DivMod ==
    ASSUME NEW d \in Nat \ {0}, NEW a \in Int
    PROVE  /\ a % d \in 0..(d - 1) /\ a \div d \in Int
           /\ a = d * (a \div d) + (a % d)
  OBVIOUS

LEMMA Multiple ==
    ASSUME NEW d \in Nat \ {0}, NEW k \in Int, k >= 1
    PROVE  d * k >= d
  <1>1. d * (k - 1) >= 0
    OBVIOUS
  <1> QED
    BY <1>1

\* Numbers with the same remainder are at least the divisor apart.
LEMMA ModInjective ==
    ASSUME NEW d \in Nat \ {0}, NEW a \in Int, NEW b \in Int, a % d = b % d, a < b
    PROVE  b - a >= d
  <1> DEFINE q == a \div d
             r == b \div d
  <1>1. q \in Int /\ r \in Int /\ a = d * q + (a % d) /\ b = d * r + (b % d) /\ a % d \in Int
    BY DivMod
  <1> HIDE DEF q, r
  <1>2. b - a = d * (r - q)
    BY <1>1
  <1>3. r - q >= 1
    <2>1. SUFFICES ASSUME r - q <= 0 PROVE FALSE
      BY <1>1
    <2>2. d * (q - r) >= 0
      BY <1>1, <2>1
    <2> QED
      BY <1>1, <1>2, <2>2
  <1> QED
    BY <1>1, <1>2, <1>3, Multiple

\* The frames of a window have slots of their own.
LEMMA SlotsDiffer ==
    ASSUME NEW c \in Nat, NEW m \in (c + 1)..(c + Depth), NEW n \in (c + 1)..(c + Depth), m # n
    PROVE  slotOf(m) # slotOf(n)
  <1>0. Depth \in Nat \ {0} /\ m \in Int /\ n \in Int
    BY Constants
  <1>1. ASSUME NEW a \in (c + 1)..(c + Depth), NEW b \in (c + 1)..(c + Depth), a < b,
               (a - 1) % Depth = (b - 1) % Depth
        PROVE  FALSE
    <2>1. a - 1 \in Int /\ b - 1 \in Int /\ a - 1 < b - 1
      BY <1>0, <1>1
    <2>2. (b - 1) - (a - 1) >= Depth
      BY <1>0, <1>1, <2>1, ModInjective
    <2> QED
      BY <1>0, <1>1, <2>2
  <1>2. m < n \/ n < m
    BY <1>0
  <1> QED
    BY <1>1, <1>2 DEF slotOf

LEMMA SlotExists ==
    ASSUME NEW n \in Int
    PROVE  slotOf(n) \in Slots
  BY Constants, DivMod DEF slotOf, Slots

\* Every slot belongs to a frame of the window.
LEMMA SlotsCover ==
    ASSUME NEW c \in Nat, NEW n \in Nat
    PROVE  \E k \in (c + 1)..(c + Depth) : slotOf(k) = slotOf(n)
  <1> DEFINE D == Depth
             m == (n - 1 - c) % D
             q == (n - 1 - c) \div D
             k == c + 1 + m
  <1>0. D \in Nat \ {0}
    BY Constants
  <1>1. m \in 0..(D - 1) /\ q \in Int /\ n - 1 - c = D * q + m
    <2>1. n - 1 - c \in Int
      OBVIOUS
    <2> QED
      BY <1>0, <2>1, DivMod
  <1> HIDE DEF m, q
  <1>2. k \in (c + 1)..(c + D)
    BY <1>0, <1>1
  <1>3. (k - 1) % D = (n - 1) % D
    <2> DEFINE x == k - 1
               y == n - 1
    <2>1. x \in Int /\ y \in Int /\ y - x = D * q
      BY <1>0, <1>1
    <2> HIDE DEF x, y, k
    <2>2. /\ x % D \in 0..(D - 1) /\ x \div D \in Int /\ x = D * (x \div D) + (x % D)
          /\ y % D \in 0..(D - 1) /\ y \div D \in Int /\ y = D * (y \div D) + (y % D)
      BY <1>0, <2>1, DivMod
    <2> DEFINE u == x \div D
               v == y \div D
               a == x % D
               b == y % D
               j == v - u - q
    <2>3. /\ u \in Int /\ v \in Int /\ a \in 0..(D - 1) /\ b \in 0..(D - 1)
          /\ x = D * u + a /\ y = D * v + b
      BY <2>2
    <2> HIDE DEF u, v, a, b
    <2>4. j \in Int /\ a - b = D * j
      <3>1. (D * v + b) - (D * u + a) = D * q
        BY <2>1, <2>3
      <3>2. D * (v - u - q) = D * v - D * u - D * q
        BY <1>0, <1>1, <2>3
      <3> QED
        BY <1>0, <1>1, <2>3, <3>1, <3>2
    <2> HIDE DEF j
    <2>5. ~(j >= 1)
      <3>1. SUFFICES ASSUME j >= 1 PROVE FALSE
        OBVIOUS
      <3>2. D * j >= D
        BY <1>0, <2>4, <3>1, Multiple
      <3> QED
        BY <1>0, <2>3, <2>4, <3>2
    <2>6. ~(j <= -1)
      <3>1. SUFFICES ASSUME j <= -1 PROVE FALSE
        OBVIOUS
      <3>2. -j \in Int /\ -j >= 1
        BY <2>4, <3>1
      <3>3. D * (-j) >= D
        BY <1>0, <3>2, Multiple
      <3>4. D * (-j) = -(D * j)
        BY <1>0, <2>4
      <3> QED
        BY <1>0, <2>3, <2>4, <3>3, <3>4
    <2>7. j = 0
      BY <2>4, <2>5, <2>6
    <2>8. a = b
      BY <1>0, <2>3, <2>4, <2>7
    <2> QED
      BY <2>8 DEF a, b, x, y
  <1> QED
    BY <1>2, <1>3 DEF slotOf

----------------------------------------------------------------------------
(* The completed run at the head of the ring *)

LastOf(slots, c) ==
    Max({n \in c..(c + Depth) : \A k \in (c + 1)..n : slots[slotOf(k)].completion = k})

\* A bounded set of numbers that is not empty has a greatest one.
LEMMA HasMax ==
    ASSUME NEW c \in Nat, NEW n \in Nat, NEW S \in SUBSET (c..n), S # {}
    PROVE  Max(S) \in S /\ \A y \in S : y <= Max(S)
  <1> DEFINE T == {n - k : k \in S}
  <1>1. T \in SUBSET Nat /\ T # {}
    <2>1. \A k \in c..n : n - k \in Nat
      OBVIOUS
    <2> QED
      BY <2>1
  <1>2. PICK x \in T : \A y \in T : ~(y < x)
    <2> HIDE DEF T
    <2>1. PICK x \in T : \A y \in T : ~(<<y, x>> \in OpToRel(<, Nat))
      BY <1>1, WFMin, NatLessThanWellFounded
    <2> QED
      BY <1>1, <2>1 DEF OpToRel
  <1>3. PICK i \in S : x = n - i
    BY <1>2
  <1>4. ASSUME NEW j \in S
        PROVE  i >= j
    <2>1. ~(n - j < n - i)
      BY <1>2, <1>3
    <2>2. j \in c..n /\ i \in c..n
      OBVIOUS
    <2> QED
      BY <2>1, <2>2
  <1>5. Max(S) \in S /\ \A y \in S : Max(S) >= y
    BY <1>4 DEF Max
  <1>6. \A y \in S : y \in Int
    OBVIOUS
  <1> QED
    BY <1>5, <1>6

LEMMA LastIs ==
    ASSUME NEW slots, NEW c \in Nat
    PROVE  LET L == LastOf(slots, c) IN
           /\ L \in c..(c + Depth)
           /\ \A k \in (c + 1)..L : slots[slotOf(k)].completion = k
           /\ L = c + Depth \/ slots[slotOf(L + 1)].completion # L + 1
  <1> DEFINE S == {n \in c..(c + Depth) : \A k \in (c + 1)..n : slots[slotOf(k)].completion = k}
             L == LastOf(slots, c)
  <1>0. Depth \in Nat \ {0}
    BY Constants
  <1>1. c \in S /\ S \in SUBSET (c..(c + Depth))
    BY <1>0
  <1>2. L = Max(S)
    BY DEF LastOf
  <1>3. L \in S /\ \A y \in S : y <= L
    <2> HIDE DEF S, L
    <2>1. c + Depth \in Nat /\ S # {}
      BY <1>0, <1>1
    <2> QED
      BY <1>1, <1>2, <2>1, HasMax
  <1> HIDE DEF L
  <1>4. L \in c..(c + Depth) /\ \A k \in (c + 1)..L : slots[slotOf(k)].completion = k
    BY <1>3
  <1>5. ASSUME L # c + Depth, slots[slotOf(L + 1)].completion = L + 1
        PROVE  FALSE
    <2>1. L + 1 \in c..(c + Depth)
      BY <1>0, <1>4, <1>5
    <2>2. \A k \in (c + 1)..(L + 1) : k \in (c + 1)..L \/ k = L + 1
      BY <1>4
    <2>3. L + 1 \in S
      BY <1>4, <1>5, <2>1, <2>2
    <2> QED
      BY <1>3, <1>4, <2>3
  <1> QED
    BY <1>4, <1>5 DEF L

\* Nothing else has these properties.
LEMMA LastIsUnique ==
    ASSUME NEW slots, NEW c \in Nat, NEW m \in c..(c + Depth),
           \A k \in (c + 1)..m : slots[slotOf(k)].completion = k,
           m = c + Depth \/ slots[slotOf(m + 1)].completion # m + 1
    PROVE  LastOf(slots, c) = m
  <1> DEFINE L == LastOf(slots, c)
  <1>0. Depth \in Nat \ {0}
    BY Constants
  <1>1. /\ L \in c..(c + Depth)
        /\ \A k \in (c + 1)..L : slots[slotOf(k)].completion = k
        /\ L = c + Depth \/ slots[slotOf(L + 1)].completion # L + 1
    BY LastIs
  <1> HIDE DEF L
  <1>2. ~(L < m)
    <2>1. SUFFICES ASSUME L < m PROVE FALSE
      OBVIOUS
    <2>2. L + 1 \in (c + 1)..m /\ L # c + Depth
      BY <1>0, <1>1, <2>1
    <2> QED
      BY <1>1, <2>2
  <1>3. ~(m < L)
    <2>1. SUFFICES ASSUME m < L PROVE FALSE
      OBVIOUS
    <2>2. m + 1 \in (c + 1)..L /\ m # c + Depth
      BY <1>0, <1>1, <2>1
    <2> QED
      BY <1>1, <2>2
  <1> QED
    BY <1>0, <1>1, <1>2, <1>3 DEF L

----------------------------------------------------------------------------
(* The inductive invariant *)

SlotRecord == [state : SlotStates, sequence : 0..MaxFrames, start : Nat,
               length : 0..Arena, body : 0..Arena,
               reserved : 0..Arena, completion : 0..MaxFrames]

Reservation == [sequence : FrameNumbers, start : Nat, length : 0..Arena, body : -1..Arena]

\* What both sides share, and what they wait with.
SpaceType ==
    /\ slot \in [Slots -> SlotRecord]
    /\ completed \in 0..consumed /\ consumed \in 0..published /\ published \in 0..MaxFrames
    /\ reclaimed \in 0..arenaWrite /\ arenaWrite \in reclaimed..(reclaimed + Arena)
    /\ activeLeases \in 0..MaxLeases
    /\ arena \in [0..(Arena - 1) -> 0..MaxFrames]
    /\ quarantined \in BOOLEAN
    /\ held \in SUBSET Reservation
    /\ refused \subseteq FrameNumbers

WaitType ==
    /\ wake \in [Sides -> [generation : Nat, parked : Nat, bell : BOOLEAN]]
    /\ pc \in [Sides -> Waits] /\ seen \in [Sides -> Nat]
    /\ signals \in [Sides -> [to : {<<>>, <<"consumer">>, <<"producer", "consumer">>},
                              at : {"bump", "swap", "ring"}]]
    /\ bound \in Sizes \cup {0}

\* The frames whose slots and bytes are in use, and the frames that have slots.
Live == (completed + 1)..published
Window == (completed + 1)..(completed + Depth)

\* Where the bytes of frame n end.
EndOf(n) == IF n = completed THEN reclaimed ELSE Frame(n).start + Frame(n).length

\* The live frames lie one behind the other between the cursors.
Spans ==
    /\ published <= completed + Depth
    /\ arenaWrite = EndOf(published)
    /\ \A n \in Live : Frame(n).sequence = n /\ Frame(n).start = EndOf(n - 1)
    /\ \A m \in completed..published : \A n \in m..published : EndOf(m) <= EndOf(n)

\* No slot claims more than its frame has reached.
SlotsInUse ==
    /\ \A n \in Window : Frame(n).completion = n => n <= consumed
    /\ \A n \in Window : n > published => Frame(n).state \in {"free", "reserved"}
    /\ \A n \in Live : Frame(n).state = "leased" => n <= consumed /\ Frame(n).completion # n

\* The reservation is for the next frame and fits behind the others.
HeldFits ==
    \A r \in held : /\ r.sequence = published + 1 /\ published < MaxFrames
                    /\ published < completed + Depth
                    /\ r.start = arenaWrite /\ arenaWrite + r.length <= reclaimed + Arena

Unreleased == {n \in (completed + 1)..consumed : Frame(n).completion # n}

\* Until a failure, the states of the slots follow the cursors.
Handshake ==
    ~ quarantined =>
        /\ \A n \in Live : Frame(n).state = IF n > consumed THEN "published"
                                            ELSE IF Frame(n).completion = n THEN "pending" ELSE "leased"
        /\ activeLeases = Cardinality(Unreleased)

SpaceInv == SpaceType /\ Spans /\ SlotsInUse /\ HeldFits /\ Handshake

\* A producer that is looking for capacity has a frame left to send.
Asks == pc["producer"] # "idle" => published < MaxFrames

\* Only a published frame is signalled.
Rings == signals["producer"].to # <<>> => published >= 1

RingInv == SpaceInv /\ WaitType /\ Asks /\ Rings

LEMMA TypeSplit == TypeOK <=> SpaceType /\ WaitType
  BY DEF TypeOK, SpaceType, WaitType, SlotRecord, Reservation

LEMMA Cursors ==
    ASSUME SpaceType
    PROVE  /\ completed \in Nat /\ consumed \in Nat /\ published \in Nat
           /\ completed <= consumed /\ consumed <= published /\ published <= MaxFrames
           /\ reclaimed \in Nat /\ arenaWrite \in Nat /\ reclaimed <= arenaWrite
           /\ arenaWrite <= reclaimed + Arena
           /\ Depth \in Nat \ {0} /\ Arena \in Nat \ {0} /\ MaxFrames \in Nat \ {0}
           /\ \A n \in Int : slotOf(n) \in Slots /\ Frame(n) \in SlotRecord
  <1>1. \A n \in Int : slotOf(n) \in Slots
    BY SlotExists
  <1>2. \A n \in Int : Frame(n) \in SlotRecord
    BY <1>1 DEF SpaceType, Frame
  <1> QED
    BY <1>1, <1>2, Constants DEF SpaceType

LEMMA InitSpace == Init => SpaceInv /\ WaitType /\ Asks
  <1> SUFFICES ASSUME Init PROVE SpaceInv /\ WaitType /\ Asks
    OBVIOUS
  <1>0. /\ slot = [i \in Slots |-> EmptySlot]
        /\ published = 0 /\ arenaWrite = 0 /\ consumed = 0 /\ activeLeases = 0
        /\ completed = 0 /\ reclaimed = 0 /\ held = {} /\ refused = {}
        /\ arena = [x \in 0..(Arena - 1) |-> 0]
    BY DEF Init
  <1>1. EmptySlot \in SlotRecord /\ EmptySlot.completion = 0 /\ EmptySlot.state = "free"
    BY Constants DEF EmptySlot, SlotRecord, SlotStates
  <1>2. SpaceType
    <2>1. arena \in [0..(Arena - 1) -> 0..MaxFrames]
      BY <1>0, Constants
    <2>2. quarantined \in BOOLEAN
      BY DEF Init
    <2> QED
      BY <1>0, <1>1, <2>1, <2>2, Constants DEF SpaceType
  <1>3. WaitType
    BY DEF Init, WaitType, Waits, NoSignal
  <1>4. \A n \in Int : Frame(n) = EmptySlot
    BY <1>0, SlotExists DEF Frame
  <1>5. Spans
    <2>1. Live = {} /\ completed..published = {0} /\ EndOf(0) = 0
      BY <1>0 DEF Live, EndOf
    <2>2. \A m \in completed..published : \A n \in m..published : EndOf(m) <= EndOf(n)
      BY <1>0, <2>1
    <2> QED
      BY <1>0, <2>1, <2>2, Constants DEF Spans
  <1>6. SlotsInUse
    <2>1. \A n \in Window : n \in Int /\ n # 0
      BY <1>0, Constants DEF Window
    <2>2. Live = {}
      BY <1>0 DEF Live
    <2> QED
      BY <1>1, <1>4, <2>1, <2>2 DEF SlotsInUse
  <1>7. Handshake
    <2>1. Live = {} /\ Unreleased = {}
      BY <1>0 DEF Live, Unreleased
    <2> QED
      BY <1>0, <2>1, FS_EmptySet DEF Handshake
  <1>8. HeldFits /\ Asks
    BY <1>0, Constants DEF HeldFits, Asks
  <1> QED
    BY <1>2, <1>3, <1>5, <1>6, <1>7, <1>8 DEF SpaceInv

----------------------------------------------------------------------------
(* Records after a step *)

AsFreed(r) == [r EXCEPT !.state = "free", !.reserved = 0, !.completion = 0]
AsReserved(r, st, b) == [[r EXCEPT !.state = st] EXCEPT !.reserved = b]
AsPending(r, n) == [[r EXCEPT !.state = "pending"] EXCEPT !.completion = n]
AsPublished(r, h) == [r EXCEPT !.state = "published", !.sequence = h.sequence,
                               !.start = h.start, !.length = h.length, !.body = h.body]

LEMMA FreedRecord ==
    ASSUME NEW r \in SlotRecord
    PROVE  LET f == AsFreed(r) IN
           /\ f \in SlotRecord /\ f.state = "free" /\ f.completion = 0
           /\ f.sequence = r.sequence /\ f.start = r.start /\ f.length = r.length /\ f.body = r.body
  <1> DEFINE f1 == [r EXCEPT !.state = "free"]
             f2 == [f1 EXCEPT !.reserved = 0]
             f3 == [f2 EXCEPT !.completion = 0]
  <1>0. f3 = AsFreed(r)
    BY DEF AsFreed
  <1>1. /\ f1 \in SlotRecord /\ f1.state = "free"
        /\ f1.sequence = r.sequence /\ f1.start = r.start /\ f1.length = r.length /\ f1.body = r.body
    BY DEF SlotRecord, SlotStates
  <1> HIDE DEF f1
  <1>2. /\ f2 \in SlotRecord /\ f2.state = "free"
        /\ f2.sequence = r.sequence /\ f2.start = r.start /\ f2.length = r.length /\ f2.body = r.body
    BY <1>1, Constants DEF SlotRecord
  <1> HIDE DEF f2
  <1>3. /\ f3 \in SlotRecord /\ f3.state = "free" /\ f3.completion = 0
        /\ f3.sequence = r.sequence /\ f3.start = r.start /\ f3.length = r.length /\ f3.body = r.body
    BY <1>2, Constants DEF SlotRecord
  <1> HIDE DEF f3
  <1> QED
    BY <1>0, <1>3

LEMMA ReservedRecord ==
    ASSUME NEW r \in SlotRecord, NEW st \in SlotStates, NEW b \in 0..Arena
    PROVE  LET f == AsReserved(r, st, b) IN
           /\ f \in SlotRecord /\ f.state = st /\ f.completion = r.completion
           /\ f.sequence = r.sequence /\ f.start = r.start /\ f.length = r.length /\ f.body = r.body
  <1> DEFINE f1 == [r EXCEPT !.state = st]
             f2 == [f1 EXCEPT !.reserved = b]
  <1>1. /\ f1 \in SlotRecord /\ f1.state = st /\ f1.completion = r.completion
        /\ f1.sequence = r.sequence /\ f1.start = r.start /\ f1.length = r.length /\ f1.body = r.body
    BY DEF SlotRecord
  <1> HIDE DEF f1
  <1>2. /\ f2 \in SlotRecord /\ f2.state = st /\ f2.completion = r.completion
        /\ f2.sequence = r.sequence /\ f2.start = r.start /\ f2.length = r.length /\ f2.body = r.body
    BY <1>1 DEF SlotRecord
  <1> QED
    BY <1>2 DEF f1, AsReserved

LEMMA CompletedRecord ==
    ASSUME NEW r \in SlotRecord, NEW n \in FrameNumbers
    PROVE  LET f == AsPending(r, n) IN
           /\ f \in SlotRecord /\ f.state = "pending" /\ f.completion = n
           /\ f.sequence = r.sequence /\ f.start = r.start /\ f.length = r.length /\ f.body = r.body
  <1> DEFINE f1 == [r EXCEPT !.state = "pending"]
             f2 == [f1 EXCEPT !.completion = n]
  <1>1. /\ f1 \in SlotRecord /\ f1.state = "pending"
        /\ f1.sequence = r.sequence /\ f1.start = r.start /\ f1.length = r.length /\ f1.body = r.body
    BY DEF SlotRecord, SlotStates
  <1> HIDE DEF f1
  <1>2. /\ f2 \in SlotRecord /\ f2.state = "pending" /\ f2.completion = n
        /\ f2.sequence = r.sequence /\ f2.start = r.start /\ f2.length = r.length /\ f2.body = r.body
    BY <1>1, Constants DEF SlotRecord, FrameNumbers
  <1> QED
    BY <1>2 DEF f1, AsPending

LEMMA PublishedRecord ==
    ASSUME NEW r \in SlotRecord, NEW h \in Reservation, h.body # -1
    PROVE  LET f == AsPublished(r, h) IN
           /\ f \in SlotRecord /\ f.state = "published" /\ f.completion = r.completion
           /\ f.sequence = h.sequence /\ f.start = h.start /\ f.length = h.length /\ f.body = h.body
  <1> DEFINE f1 == [r EXCEPT !.state = "published"]
             f2 == [f1 EXCEPT !.sequence = h.sequence]
             f3 == [f2 EXCEPT !.start = h.start]
             f4 == [f3 EXCEPT !.length = h.length]
             f5 == [f4 EXCEPT !.body = h.body]
  <1>0. f5 = AsPublished(r, h)
    BY DEF AsPublished
  <1>1. /\ h.sequence \in 0..MaxFrames /\ h.start \in Nat /\ h.length \in 0..Arena /\ h.body \in 0..Arena
    BY Constants DEF Reservation, FrameNumbers
  <1>2. f1 \in SlotRecord /\ f1.state = "published" /\ f1.completion = r.completion
    BY DEF SlotRecord, SlotStates
  <1> HIDE DEF f1
  <1>3. f2 \in SlotRecord /\ f2.state = "published" /\ f2.completion = r.completion /\ f2.sequence = h.sequence
    BY <1>1, <1>2 DEF SlotRecord
  <1> HIDE DEF f2
  <1>4. /\ f3 \in SlotRecord /\ f3.state = "published" /\ f3.completion = r.completion
        /\ f3.sequence = h.sequence /\ f3.start = h.start
    BY <1>1, <1>3 DEF SlotRecord
  <1> HIDE DEF f3
  <1>5. /\ f4 \in SlotRecord /\ f4.state = "published" /\ f4.completion = r.completion
        /\ f4.sequence = h.sequence /\ f4.start = h.start /\ f4.length = h.length
    BY <1>1, <1>4 DEF SlotRecord
  <1> HIDE DEF f4
  <1>6. /\ f5 \in SlotRecord /\ f5.state = "published" /\ f5.completion = r.completion
        /\ f5.sequence = h.sequence /\ f5.start = h.start /\ f5.length = h.length /\ f5.body = h.body
    BY <1>1, <1>5 DEF SlotRecord
  <1> HIDE DEF f5
  <1> QED
    BY <1>0, <1>6

----------------------------------------------------------------------------
(* Reclaiming *)

LEMMA EndsAreNumbers ==
    ASSUME SpaceType
    PROVE  \A n \in Int : EndOf(n) \in Nat /\ Frame(n).start \in Nat /\ Frame(n).length \in 0..Arena
  <1>1. \A n \in Int : Frame(n).start \in Nat /\ Frame(n).length \in 0..Arena
    BY Cursors DEF SlotRecord
  <1>2. \A n \in Int : Frame(n).start + Frame(n).length \in Nat
    BY <1>1, Constants
  <1> QED
    BY <1>1, <1>2, Cursors DEF EndOf

\* What reclaim_completed finds: the run ends at or before the last frame that
\* was received, and the slots it frees are those of the run.
LEMMA HeadRun ==
    ASSUME SpaceInv
    PROVE  /\ LastCompleted \in Nat /\ completed <= LastCompleted /\ LastCompleted <= consumed
           /\ LastCompleted <= completed + Depth
           /\ \A k \in (completed + 1)..LastCompleted : Frame(k).completion = k
           /\ LastCompleted = completed + Depth \/ Frame(LastCompleted + 1).completion # LastCompleted + 1
           /\ RunEnd = EndOf(LastCompleted) /\ RunEnd \in Nat
           /\ reclaimed <= RunEnd /\ RunEnd <= arenaWrite
           /\ \A n \in (LastCompleted + 1)..(completed + Depth) : slotOf(n) \notin Freed
           /\ \A n \in (completed + Depth + 1)..(LastCompleted + Depth) : slotOf(n) \in Freed
  <1> DEFINE L == LastCompleted
  <1>0. SpaceType /\ Spans /\ SlotsInUse
    BY DEF SpaceInv
  <1>1. /\ completed \in Nat /\ consumed \in Nat /\ published \in Nat /\ completed <= consumed
        /\ consumed <= published /\ Depth \in Nat \ {0}
    BY <1>0, Cursors
  <1>2. /\ L \in completed..(completed + Depth)
        /\ \A k \in (completed + 1)..L : Frame(k).completion = k
        /\ L = completed + Depth \/ Frame(L + 1).completion # L + 1
    <2>1. L = LastOf(slot, completed)
      BY DEF LastCompleted, LastOf, Frame
    <2> HIDE DEF L
    <2> QED
      BY <1>1, <2>1, LastIs DEF Frame
  <1>3. RunEnd = EndOf(L)
    BY DEF RunEnd, EndOf
  <1>4. Freed = {slotOf(n) : n \in (completed + 1)..L}
    BY DEF Freed
  <1> HIDE DEF L
  <1>5. L \in Nat /\ completed <= L /\ L <= completed + Depth
    BY <1>1, <1>2
  <1>6. L <= consumed
    <2>1. CASE L = completed
      BY <1>1, <2>1
    <2>2. CASE L # completed
      <3>1. L \in Window /\ L \in (completed + 1)..L
        BY <1>1, <1>2, <2>2 DEF Window
      <3> QED
        BY <1>0, <1>2, <3>1 DEF SlotsInUse
    <2> QED
      BY <2>1, <2>2
  <1>7. EndOf(L) \in Nat /\ reclaimed <= EndOf(L) /\ EndOf(L) <= arenaWrite
    <2>1. completed \in completed..published /\ L \in completed..published /\ published \in L..published
      BY <1>1, <1>5, <1>6
    <2>2. EndOf(completed) <= EndOf(L) /\ EndOf(L) <= EndOf(published)
      BY <1>0, <2>1 DEF Spans
    <2>3. EndOf(completed) = reclaimed /\ EndOf(published) = arenaWrite
      BY <1>0 DEF EndOf, Spans
    <2>4. EndOf(L) \in Nat
      BY <1>0, <1>5, EndsAreNumbers
    <2> QED
      BY <2>2, <2>3, <2>4
  <1>8. ASSUME NEW n \in (L + 1)..(completed + Depth)
        PROVE  slotOf(n) \notin Freed
    <2>1. SUFFICES ASSUME NEW k \in (completed + 1)..L, slotOf(n) = slotOf(k) PROVE FALSE
      BY <1>4
    <2>2. n \in (completed + 1)..(completed + Depth) /\ k \in (completed + 1)..(completed + Depth) /\ n # k
      BY <1>1, <1>5
    <2> QED
      BY <1>1, <2>1, <2>2, SlotsDiffer
  <1>9. ASSUME NEW n \in (completed + Depth + 1)..(L + Depth)
        PROVE  slotOf(n) \in Freed
    <2>1. n \in Nat
      BY <1>1, <1>5
    <2>2. PICK k \in (completed + 1)..(completed + Depth) : slotOf(k) = slotOf(n)
      BY <1>1, <2>1, SlotsCover
    <2>3. k <= L
      <3>1. SUFFICES ASSUME k > L PROVE FALSE
        BY <1>1, <1>5
      <3>2. k \in (L + 1)..(L + Depth) /\ n \in (L + 1)..(L + Depth) /\ k # n
        BY <1>1, <1>5, <3>1
      <3> QED
        BY <1>5, <2>2, <3>2, SlotsDiffer
    <2>4. k \in (completed + 1)..L
      BY <1>1, <1>5, <2>3
    <2> QED
      BY <1>4, <2>2, <2>4
  <1> QED
    BY <1>2, <1>3, <1>5, <1>6, <1>7, <1>8, <1>9 DEF L

\* The slots that try_reserve leaves behind.
LEMMA SlotsAfterTry ==
    ASSUME SpaceType, bound \in 0..Arena, TryReserve
    PROVE  /\ slot' \in [Slots -> SlotRecord]
           /\ \A i \in Slots :
                 /\ slot'[i].sequence = slot[i].sequence /\ slot'[i].start = slot[i].start
                 /\ slot'[i].length = slot[i].length /\ slot'[i].body = slot[i].body
                 /\ slot'[i].completion = IF i \in Freed THEN 0 ELSE slot[i].completion
                 /\ slot'[i].state = IF Fits /\ i = slotOf(published + 1) THEN "reserved"
                                     ELSE IF i \in Freed THEN "free" ELSE slot[i].state
  <1>0. slot \in [Slots -> SlotRecord] /\ "reserved" \in SlotStates
    BY DEF SpaceType, SlotStates
  <1> DEFINE R == ReclaimedSlots
             j == slotOf(published + 1)
  <1>1. /\ R = [i \in Slots |-> R[i]]
        /\ \A i \in Slots : R[i] = IF i \in Freed THEN AsFreed(slot[i]) ELSE slot[i]
    BY DEF ReclaimedSlots, AsFreed
  <1> HIDE DEF R
  <1>2. ASSUME NEW i \in Slots
        PROVE  /\ R[i] \in SlotRecord
               /\ R[i].sequence = slot[i].sequence /\ R[i].start = slot[i].start
               /\ R[i].length = slot[i].length /\ R[i].body = slot[i].body
               /\ R[i].completion = IF i \in Freed THEN 0 ELSE slot[i].completion
               /\ R[i].state = IF i \in Freed THEN "free" ELSE slot[i].state
    <2>1. slot[i] \in SlotRecord
      BY <1>0
    <2>2. CASE i \in Freed
      BY <1>1, <2>1, <2>2, FreedRecord
    <2>3. CASE i \notin Freed
      BY <1>1, <2>1, <2>3
    <2> QED
      BY <2>2, <2>3
  <1>3. R \in [Slots -> SlotRecord]
    BY <1>1, <1>2
  <1>4. CASE Fits /\ slot' = [R EXCEPT ![j].state = "reserved", ![j].reserved = bound]
    <2>1. j \in Slots
      BY SlotExists, Cursors
    <2> HIDE DEF j
    <2> DEFINE f == AsReserved(R[j], "reserved", bound)
    <2>2. slot' = [R EXCEPT ![j] = f]
      BY <1>3, <1>4, <2>1 DEF AsReserved
    <2>3. /\ f \in SlotRecord /\ f.state = "reserved" /\ f.completion = R[j].completion
          /\ f.sequence = R[j].sequence /\ f.start = R[j].start /\ f.length = R[j].length /\ f.body = R[j].body
      <3>1. R[j] \in SlotRecord
        BY <1>2, <2>1
      <3> QED
        BY <1>0, <3>1, ReservedRecord
    <2> HIDE DEF f
    <2>4. slot' \in [Slots -> SlotRecord] /\ slot'[j] = f /\ \A i \in Slots \ {j} : slot'[i] = R[i]
      BY <1>3, <2>1, <2>2, <2>3
    <2>5. ASSUME NEW i \in Slots
          PROVE  /\ slot'[i].sequence = slot[i].sequence /\ slot'[i].start = slot[i].start
                 /\ slot'[i].length = slot[i].length /\ slot'[i].body = slot[i].body
                 /\ slot'[i].completion = IF i \in Freed THEN 0 ELSE slot[i].completion
                 /\ slot'[i].state = IF Fits /\ i = j THEN "reserved"
                                     ELSE IF i \in Freed THEN "free" ELSE slot[i].state
      <3>1. CASE i = j
        BY <1>2, <1>4, <2>3, <2>4, <3>1
      <3>2. CASE i # j
        BY <1>2, <1>4, <2>4, <3>2
      <3> QED
        BY <3>1, <3>2
    <2> QED
      BY <2>4, <2>5 DEF j
  <1>5. CASE ~Fits /\ slot' = R
    BY <1>2, <1>3, <1>5
  <1> QED
    BY <1>4, <1>5 DEF TryReserve, R

\* Descriptors stay; of the frames behind the run everything does.
LEMMA FramesAfterTry ==
    ASSUME SpaceInv, WaitType, TryReserve
    PROVE  /\ slot' \in [Slots -> SlotRecord]
           /\ completed' = LastCompleted /\ reclaimed' = RunEnd
           /\ UNCHANGED <<published, arenaWrite, consumed, activeLeases, quarantined>>
           /\ \A n \in Int : /\ Frame(n)'.sequence = Frame(n).sequence /\ Frame(n)'.start = Frame(n).start
                             /\ Frame(n)'.length = Frame(n).length /\ Frame(n)'.body = Frame(n).body
           /\ \A n \in (LastCompleted + 1)..published :
                 Frame(n)'.state = Frame(n).state /\ Frame(n)'.completion = Frame(n).completion
           /\ \A n \in (LastCompleted + 1)..(LastCompleted + Depth) :
                 /\ Frame(n)'.completion = n => Frame(n).completion = n /\ n <= completed + Depth
                 /\ \/ Frame(n)'.state \in {"free", "reserved"}
                    \/ Frame(n)'.state = Frame(n).state /\ n <= completed + Depth
           /\ \A n \in LastCompleted..published : EndOf(n)' = EndOf(n)
  <1> DEFINE L == LastCompleted
  <1>0. SpaceType /\ Spans /\ bound \in 0..Arena
    BY Constants DEF SpaceInv, WaitType
  <1>1. /\ completed \in Nat /\ consumed \in Nat /\ published \in Nat /\ Depth \in Nat \ {0}
        /\ consumed <= published /\ published <= completed + Depth
        /\ \A n \in Int : slotOf(n) \in Slots
    BY <1>0, Cursors DEF Spans
  <1>2. /\ L \in Nat /\ completed <= L /\ L <= consumed /\ L <= completed + Depth /\ RunEnd = EndOf(L)
        /\ \A n \in (L + 1)..(completed + Depth) : slotOf(n) \notin Freed
        /\ \A n \in (completed + Depth + 1)..(L + Depth) : slotOf(n) \in Freed
    BY HeadRun
  <1>3. /\ slot' \in [Slots -> SlotRecord]
        /\ \A i \in Slots :
              /\ slot'[i].sequence = slot[i].sequence /\ slot'[i].start = slot[i].start
              /\ slot'[i].length = slot[i].length /\ slot'[i].body = slot[i].body
              /\ slot'[i].completion = IF i \in Freed THEN 0 ELSE slot[i].completion
              /\ slot'[i].state = IF Fits /\ i = slotOf(published + 1) THEN "reserved"
                                  ELSE IF i \in Freed THEN "free" ELSE slot[i].state
    BY <1>0, SlotsAfterTry
  <1>4. /\ completed' = L /\ reclaimed' = RunEnd
        /\ UNCHANGED <<published, arenaWrite, consumed, activeLeases, quarantined>>
    BY DEF TryReserve, producerPage, consumerPage
  <1>5. Fits => published - L < Depth
    BY DEF Fits
  <1> HIDE DEF L
  <1>6. \A n \in Int : /\ Frame(n)'.sequence = Frame(n).sequence /\ Frame(n)'.start = Frame(n).start
                       /\ Frame(n)'.length = Frame(n).length /\ Frame(n)'.body = Frame(n).body
    BY <1>1, <1>3 DEF Frame, slotOf
  <1>7. ASSUME NEW n \in (L + 1)..published
        PROVE  Frame(n)'.state = Frame(n).state /\ Frame(n)'.completion = Frame(n).completion
    <2>1. n \in Int /\ n \in (L + 1)..(completed + Depth) /\ slotOf(n) \in Slots
      BY <1>1, <1>2
    <2>2. slotOf(n) \notin Freed
      BY <1>2, <2>1
    <2>3. Fits => slotOf(n) # slotOf(published + 1)
      <3>1. SUFFICES ASSUME Fits PROVE slotOf(n) # slotOf(published + 1)
        OBVIOUS
      <3>2. n \in (L + 1)..(L + Depth) /\ published + 1 \in (L + 1)..(L + Depth) /\ n # published + 1
        BY <1>1, <1>2, <1>5, <3>1
      <3> QED
        BY <1>2, <3>2, SlotsDiffer
    <2> QED
      BY <1>3, <2>1, <2>2, <2>3 DEF Frame, slotOf
  <1>8. ASSUME NEW n \in (L + 1)..(L + Depth)
        PROVE  /\ Frame(n)'.completion = n => Frame(n).completion = n /\ n <= completed + Depth
               /\ \/ Frame(n)'.state \in {"free", "reserved"}
                  \/ Frame(n)'.state = Frame(n).state /\ n <= completed + Depth
    <2>1. n \in Int /\ n # 0 /\ slotOf(n) \in Slots
      BY <1>1, <1>2
    <2>2. CASE slotOf(n) \in Freed
      <3>1. Frame(n)'.completion = 0 /\ Frame(n)'.state \in {"free", "reserved"}
        BY <1>3, <2>1, <2>2 DEF Frame, slotOf
      <3> QED
        BY <2>1, <3>1
    <2>3. CASE slotOf(n) \notin Freed
      <3>1. n <= completed + Depth
        BY <1>1, <1>2, <2>1, <2>3
      <3>2. Frame(n)'.completion = Frame(n).completion
        BY <1>3, <2>1, <2>3 DEF Frame, slotOf
      <3>3. Frame(n)'.state \in {"reserved", Frame(n).state}
        BY <1>3, <2>1, <2>3 DEF Frame, slotOf
      <3> QED
        BY <3>1, <3>2, <3>3
    <2> QED
      BY <2>2, <2>3
  <1>9. ASSUME NEW n \in L..published
        PROVE  EndOf(n)' = EndOf(n)
    <2>1. CASE n = L
      BY <1>2, <1>4, <2>1 DEF EndOf
    <2>2. CASE n # L
      <3>1. n \in Int /\ n # completed
        BY <1>1, <1>2, <2>2
      <3>2. n # completed'
        BY <1>4, <2>2
      <3> QED
        BY <1>6, <3>1, <3>2 DEF EndOf
    <2> QED
      BY <2>1, <2>2
  <1> QED
    BY <1>3, <1>4, <1>6, <1>7, <1>8, <1>9 DEF L

LEMMA TryReserveKeeps ==
    ASSUME SpaceInv, WaitType, Asks, TryReserve
    PROVE  SpaceInv'
  <1> DEFINE L == LastCompleted
  <1>0. /\ SpaceType /\ Spans /\ SlotsInUse /\ HeldFits /\ Handshake
        /\ bound \in 0..Arena /\ pc["producer"] # "idle"
    BY Constants DEF SpaceInv, WaitType, TryReserve, Tries
  <1>1. /\ completed \in Nat /\ consumed \in Nat /\ published \in Nat /\ Depth \in Nat \ {0}
        /\ completed <= consumed /\ consumed <= published /\ published <= completed + Depth
        /\ published <= MaxFrames /\ MaxFrames \in Nat /\ Arena \in Nat
        /\ reclaimed \in Nat /\ arenaWrite \in Nat /\ arenaWrite <= reclaimed + Arena
    BY <1>0, Cursors DEF Spans
  <1>2. /\ L \in Nat /\ completed <= L /\ L <= consumed /\ L <= completed + Depth /\ RunEnd = EndOf(L)
        /\ RunEnd \in Nat /\ reclaimed <= RunEnd /\ RunEnd <= arenaWrite
        /\ \A k \in (completed + 1)..L : Frame(k).completion = k
    BY HeadRun
  <1>3. /\ slot' \in [Slots -> SlotRecord]
        /\ completed' = L /\ reclaimed' = RunEnd
        /\ UNCHANGED <<published, arenaWrite, consumed, activeLeases, quarantined>>
        /\ \A n \in Int : /\ Frame(n)'.sequence = Frame(n).sequence /\ Frame(n)'.start = Frame(n).start
                          /\ Frame(n)'.length = Frame(n).length /\ Frame(n)'.body = Frame(n).body
        /\ \A n \in (L + 1)..published :
              Frame(n)'.state = Frame(n).state /\ Frame(n)'.completion = Frame(n).completion
        /\ \A n \in (L + 1)..(L + Depth) :
              /\ Frame(n)'.completion = n => Frame(n).completion = n /\ n <= completed + Depth
              /\ \/ Frame(n)'.state \in {"free", "reserved"}
                 \/ Frame(n)'.state = Frame(n).state /\ n <= completed + Depth
        /\ \A n \in L..published : EndOf(n)' = EndOf(n)
    BY FramesAfterTry
  <1>4. held' = held \/ /\ held' = {[sequence |-> published + 1, start |-> arenaWrite, length |-> bound, body |-> -1]}
                        /\ published - L < Depth /\ bound <= Arena - (arenaWrite - RunEnd)
    BY DEF TryReserve, Fits
  <1>5. arena' = [x \in DOMAIN arena |-> IF x \in Removed THEN 0 ELSE arena[x]] /\ refused' = refused
    BY DEF TryReserve
  <1> HIDE DEF L
  <1>6. HeldFits' /\ held' \in SUBSET Reservation
    <2>1. CASE held' = held
      <3>1. \A r \in held : /\ r \in Reservation /\ r.sequence = published + 1 /\ published < MaxFrames
                            /\ published < completed + Depth
                            /\ r.start = arenaWrite /\ arenaWrite + r.length <= reclaimed + Arena
                            /\ r.length \in Nat
        BY <1>0, <1>1 DEF HeldFits, SpaceType, Reservation
      <3>2. \A r \in held : /\ published < L + Depth /\ arenaWrite + r.length <= RunEnd + Arena
        BY <1>1, <1>2, <3>1
      <3> QED
        BY <1>0, <1>3, <2>1, <3>1, <3>2 DEF HeldFits, SpaceType
    <2>2. CASE /\ held' = {[sequence |-> published + 1, start |-> arenaWrite, length |-> bound, body |-> -1]}
               /\ published - L < Depth /\ bound <= Arena - (arenaWrite - RunEnd)
      <3> DEFINE r == [sequence |-> published + 1, start |-> arenaWrite, length |-> bound, body |-> -1]
      <3>1. published < MaxFrames /\ published + 1 \in FrameNumbers
        BY <1>0, <1>1 DEF Asks, FrameNumbers
      <3>2. published < L + Depth /\ arenaWrite + bound <= RunEnd + Arena
        BY <1>0, <1>1, <1>2, <2>2
      <3>3. -1 \in -1..Arena
        BY <1>1
      <3>4. r \in Reservation
        BY <1>0, <1>1, <3>1, <3>3 DEF Reservation
      <3>5. r.sequence = published + 1 /\ r.start = arenaWrite /\ r.length = bound
        OBVIOUS
      <3>6. held' = {r}
        BY <2>2
      <3> HIDE DEF r
      <3> QED
        BY <1>3, <3>1, <3>2, <3>4, <3>5, <3>6 DEF HeldFits
    <2> QED
      BY <1>4, <2>1, <2>2
  <1>7. SpaceType'
    <2>1. arena' \in [0..(Arena - 1) -> 0..MaxFrames]
      BY <1>0, <1>1, <1>5 DEF SpaceType
    <2>2. completed' \in 0..consumed' /\ reclaimed' \in 0..arenaWrite' /\ arenaWrite' \in reclaimed'..(reclaimed' + Arena)
      BY <1>1, <1>2, <1>3
    <2> QED
      BY <1>0, <1>3, <1>5, <1>6, <2>1, <2>2 DEF SpaceType
  <1>8. Live' = (L + 1)..published /\ Window' = (L + 1)..(L + Depth)
    BY <1>3 DEF Live, Window
  <1>9. Spans'
    <2>1. published' <= completed' + Depth /\ arenaWrite' = EndOf(published)'
      <3>1. published \in L..published
        BY <1>1, <1>2
      <3> QED
        BY <1>0, <1>1, <1>2, <1>3, <3>1 DEF Spans
    <2>3. ASSUME NEW n \in (L + 1)..published
          PROVE  Frame(n)'.sequence = n /\ Frame(n)'.start = EndOf(n - 1)'
      <3>1. n \in Live /\ n \in Int /\ n - 1 \in L..published
        BY <1>1, <1>2 DEF Live
      <3>2. Frame(n).sequence = n /\ Frame(n).start = EndOf(n - 1)
        BY <1>0, <3>1 DEF Spans
      <3> QED
        BY <1>3, <3>1, <3>2
    <2>4. ASSUME NEW m \in L..published, NEW n \in m..published
          PROVE  EndOf(m)' <= EndOf(n)'
      <3>1. m \in completed..published /\ n \in L..published
        BY <1>1, <1>2
      <3>2. EndOf(m) <= EndOf(n)
        BY <1>0, <3>1 DEF Spans
      <3> QED
        BY <1>3, <3>1, <3>2
    <2> QED
      BY <1>3, <1>8, <2>1, <2>3, <2>4 DEF Spans
  <1>10. SlotsInUse'
    <2>1. ASSUME NEW n \in (L + 1)..(L + Depth)
          PROVE  /\ Frame(n)'.completion = n => n <= consumed
                 /\ n > published => Frame(n)'.state \in {"free", "reserved"}
      <3>1. n <= completed + Depth => n \in Window
        BY <1>1, <1>2 DEF Window
      <3> QED
        BY <1>0, <1>3, <3>1 DEF SlotsInUse
    <2>2. ASSUME NEW n \in (L + 1)..published
          PROVE  Frame(n)'.state = "leased" => n <= consumed /\ Frame(n)'.completion # n
      <3>1. n \in Live
        BY <1>1, <1>2 DEF Live
      <3> QED
        BY <1>0, <1>3, <3>1 DEF SlotsInUse
    <2> QED
      BY <1>3, <1>8, <2>1, <2>2 DEF SlotsInUse
  <1>11. Handshake'
    <2>1. SUFFICES ASSUME ~ quarantined
                   PROVE  /\ \A n \in Live' : Frame(n)'.state = IF n > consumed THEN "published"
                                                 ELSE IF Frame(n)'.completion = n THEN "pending" ELSE "leased"
                          /\ activeLeases = Cardinality(Unreleased')
      BY <1>3 DEF Handshake
    <2>2. ASSUME NEW n \in (L + 1)..published
          PROVE  Frame(n)'.state = IF n > consumed THEN "published"
                                   ELSE IF Frame(n)'.completion = n THEN "pending" ELSE "leased"
      <3>1. n \in Live
        BY <1>1, <1>2 DEF Live
      <3> QED
        BY <1>0, <1>3, <2>1, <3>1 DEF Handshake
    <2>3. Unreleased' = Unreleased
      <3>1. Unreleased' = {n \in (L + 1)..consumed : Frame(n)'.completion # n}
        BY <1>3 DEF Unreleased
      <3>2. \A n \in (L + 1)..consumed : n \in (L + 1)..published /\ n \in (completed + 1)..consumed
        BY <1>1, <1>2
      <3>3. \A n \in (completed + 1)..consumed : n \in (L + 1)..consumed \/ n \in (completed + 1)..L
        BY <1>1, <1>2
      <3> QED
        BY <1>2, <1>3, <3>1, <3>2, <3>3 DEF Unreleased
    <2> QED
      BY <1>0, <1>8, <2>1, <2>2, <2>3 DEF Handshake
  <1> QED
    BY <1>6, <1>7, <1>9, <1>10, <1>11 DEF SpaceInv

----------------------------------------------------------------------------
(* The other steps on what is shared *)

\* Slots and cursors stay.
LEMMA SlotsStay ==
    ASSUME SpaceInv, SpaceType', HeldFits', quarantined' \in {TRUE, quarantined},
           UNCHANGED <<slot, published, arenaWrite, consumed, activeLeases, completed, reclaimed>>
    PROVE  SpaceInv'
  <1>1. /\ Live' = Live /\ Window' = Window /\ Unreleased' = Unreleased
        /\ \A n : Frame(n)' = Frame(n) /\ EndOf(n)' = EndOf(n)
    BY DEF Live, Window, Unreleased, Frame, slotOf, EndOf
  <1>2. Spans'
    BY <1>1 DEF SpaceInv, Spans, Live, Frame, slotOf, EndOf
  <1>3. SlotsInUse'
    BY <1>1 DEF SpaceInv, SlotsInUse
  <1>4. Handshake'
    <2>1. ~ quarantined' => ~ quarantined
      OBVIOUS
    <2> QED
      BY <1>1, <2>1 DEF SpaceInv, Handshake
  <1> QED
    BY <1>2, <1>3, <1>4 DEF SpaceInv

\* One slot changes, and its descriptor does not.
LEMMA OneSlot ==
    ASSUME SpaceInv, NEW j \in Slots, NEW f \in SlotRecord, slot' = [slot EXCEPT ![j] = f],
           f.sequence = slot[j].sequence, f.start = slot[j].start, f.length = slot[j].length,
           f.body = slot[j].body,
           UNCHANGED <<published, arenaWrite, completed, reclaimed>>
    PROVE  /\ slot' \in [Slots -> SlotRecord] /\ Spans'
           /\ \A n \in Int : /\ slotOf(n) # j => Frame(n)' = Frame(n)
                             /\ slotOf(n) = j => Frame(n)' = f
                             /\ Frame(n)'.sequence = Frame(n).sequence /\ Frame(n)'.start = Frame(n).start
                             /\ Frame(n)'.length = Frame(n).length /\ Frame(n)'.body = Frame(n).body
  <1>0. SpaceType /\ Spans
    BY DEF SpaceInv
  <1>1. \A n \in Int : slotOf(n) \in Slots
    BY <1>0, Cursors
  <1>2. slot \in [Slots -> SlotRecord]
    BY <1>0 DEF SpaceType
  <1>3. slot' \in [Slots -> SlotRecord] /\ slot'[j] = f /\ \A i \in Slots \ {j} : slot'[i] = slot[i]
    BY <1>2
  <1>4. \A n \in Int : /\ slotOf(n) # j => Frame(n)' = Frame(n)
                       /\ slotOf(n) = j => Frame(n)' = f
    BY <1>1, <1>3 DEF Frame, slotOf
  <1>5. \A n \in Int : /\ Frame(n)'.sequence = Frame(n).sequence /\ Frame(n)'.start = Frame(n).start
                       /\ Frame(n)'.length = Frame(n).length /\ Frame(n)'.body = Frame(n).body
    BY <1>4 DEF Frame
  <1>6. \A n \in Int : EndOf(n)' = EndOf(n)
    BY <1>5 DEF EndOf
  <1>7. Spans'
    <2>1. published \in Int /\ Live' = Live /\ \A n \in Live : n \in Int /\ n - 1 \in Int
      BY <1>0, Cursors DEF Live
    <2>2. arenaWrite' = EndOf(published)'
      BY <1>0, <1>6, <2>1 DEF Spans
    <2>3. \A n \in Live' : Frame(n)'.sequence = n /\ Frame(n)'.start = EndOf(n - 1)'
      BY <1>0, <1>5, <1>6, <2>1 DEF Spans
    <2>4. \A m \in completed..published : \A n \in m..published : EndOf(m)' <= EndOf(n)'
      BY <1>0, <1>6, Cursors DEF Spans
    <2> QED
      BY <1>0, <2>2, <2>3, <2>4 DEF Spans
  <1> QED
    BY <1>3, <1>4, <1>5, <1>7

LEMMA WriteKeeps ==
    ASSUME SpaceInv, Write
    PROVE  SpaceInv'
  <1>0. SpaceType /\ HeldFits
    BY DEF SpaceInv
  <1>1. PICK r \in held, body \in 0..Arena :
           /\ r.body = -1 /\ body <= r.length
           /\ held' = {[r EXCEPT !.body = body]}
           /\ arena' = [x \in DOMAIN arena |-> IF x \in Bytes(r.start, r.start + body)
                                               THEN r.sequence ELSE arena[x]]
    BY DEF Write
  <1>2. UNCHANGED <<slot, published, arenaWrite, consumed, activeLeases, completed, reclaimed, quarantined, refused>>
    BY DEF Write, producerPage, consumerPage, reclaimPage
  <1> DEFINE w == [r EXCEPT !.body = body]
  <1>3. r \in Reservation
    BY <1>0 DEF SpaceType
  <1>4. w \in Reservation /\ w.sequence = r.sequence /\ w.start = r.start /\ w.length = r.length
    <2>1. body \in -1..Arena
      BY Constants
    <2> QED
      BY <1>3, <2>1 DEF Reservation
  <1>5. held' = {w}
    BY <1>1
  <1> HIDE DEF w
  <1>6. HeldFits'
    BY <1>0, <1>2, <1>4, <1>5 DEF HeldFits
  <1>7. arena' \in [0..(Arena - 1) -> 0..MaxFrames]
    <2>1. r.sequence \in 0..MaxFrames
      BY <1>3, Constants DEF Reservation, FrameNumbers
    <2> QED
      BY <1>0, <1>1, <2>1 DEF SpaceType
  <1>8. SpaceType'
    BY <1>0, <1>2, <1>4, <1>5, <1>7 DEF SpaceType
  <1>9. quarantined' \in {TRUE, quarantined}
    BY <1>2
  <1> QED
    BY <1>2, <1>6, <1>8, <1>9, SlotsStay

\* Page removal fails, or a doorbell of a release.
LEMMA FailureKeeps ==
    ASSUME SpaceInv, ReclaimFails \/ ReleaseFails
    PROVE  SpaceInv'
  <1>0. SpaceType /\ HeldFits
    BY DEF SpaceInv
  <1>1. /\ UNCHANGED <<slot, published, arenaWrite, consumed, activeLeases, completed, reclaimed, held, refused>>
        /\ quarantined' = TRUE
    BY DEF ReclaimFails, ReleaseFails, storage, producerPage, consumerPage, reclaimPage, holding
  <1>2. arena' \in [0..(Arena - 1) -> 0..MaxFrames]
    <2>1. arena \in [0..(Arena - 1) -> 0..MaxFrames] /\ 0 \in 0..MaxFrames
      BY <1>0, Constants DEF SpaceType
    <2>2. CASE ReleaseFails
      BY <2>1, <2>2 DEF ReleaseFails, storage
    <2>3. CASE ReclaimFails
      <3>1. PICK gone \in {{}, WholePages(reclaimed, RunEnd)} :
               arena' = [x \in DOMAIN arena |-> IF x \in gone THEN 0 ELSE arena[x]]
        BY <2>3 DEF ReclaimFails
      <3> QED
        BY <2>1, <3>1
    <2> QED
      BY <2>2, <2>3
  <1>3. quarantined' \in BOOLEAN
    BY <1>1
  <1>4. SpaceType'
    BY <1>0, <1>1, <1>2, <1>3 DEF SpaceType
  <1>5. HeldFits'
    BY <1>0, <1>1 DEF HeldFits
  <1> QED
    BY <1>1, <1>4, <1>5, SlotsStay

\* The slot of the next frame is no live frame's.
LEMMA NextSlot ==
    ASSUME SpaceInv, published < completed + Depth
    PROVE  /\ published + 1 \in Window
           /\ \A n \in Window : n # published + 1 => slotOf(n) # slotOf(published + 1)
           /\ \A n \in Live : n \in Window /\ slotOf(n) # slotOf(published + 1)
  <1>1. SpaceType
    BY DEF SpaceInv
  <1>2. completed \in Nat /\ published \in Nat /\ completed <= published /\ Depth \in Nat \ {0}
    BY <1>1, Cursors
  <1>3. published + 1 \in Window
    BY <1>2 DEF Window
  <1>4. \A n \in Window : n # published + 1 => slotOf(n) # slotOf(published + 1)
    BY <1>2, <1>3, SlotsDiffer DEF Window
  <1>5. \A n \in Live : n \in Window /\ n # published + 1
    BY <1>2 DEF Live, Window
  <1> QED
    BY <1>3, <1>4, <1>5

LEMMA AbortKeeps ==
    ASSUME SpaceInv, Abort
    PROVE  SpaceInv'
  <1>0. SpaceType /\ Spans /\ SlotsInUse /\ HeldFits /\ Handshake
    BY DEF SpaceInv
  <1>1. PICK r \in held : TRUE
    BY DEF Abort
  <1>2. \A q \in held : q.sequence = published + 1 /\ published < completed + Depth
    BY <1>0 DEF HeldFits
  <1>3. /\ slot' = [i \in Slots |-> IF \E q \in held : i = slotOf(q.sequence)
                                    THEN [slot[i] EXCEPT !.state = "free", !.reserved = 0] ELSE slot[i]]
        /\ held' = {}
        /\ UNCHANGED <<published, arenaWrite, consumed, activeLeases, completed, reclaimed, arena, quarantined, refused>>
    BY DEF Abort, producerPage, consumerPage, reclaimPage
  <1>4. /\ published + 1 \in Window
        /\ \A n \in Window : n # published + 1 => slotOf(n) # slotOf(published + 1)
        /\ \A n \in Live : n \in Window /\ slotOf(n) # slotOf(published + 1)
    BY <1>1, <1>2, NextSlot
  <1>5. published \in Nat /\ completed \in Nat /\ consumed \in Nat /\ consumed <= published
        /\ \A n \in Int : slotOf(n) \in Slots
    BY <1>0, Cursors
  <1> DEFINE j == slotOf(published + 1)
             f == AsReserved(slot[j], "free", 0)
  <1>6. j \in Slots /\ slot[j] \in SlotRecord
    BY <1>0, <1>5 DEF SpaceType
  <1>7. slot' = [slot EXCEPT ![j] = f]
    <2>1. slot \in [Slots -> SlotRecord]
      BY <1>0 DEF SpaceType
    <2>2. \A i \in Slots : (\E q \in held : i = slotOf(q.sequence)) <=> i = j
      BY <1>1, <1>2
    <2> HIDE DEF j
    <2>3. \A i \in Slots : slot'[i] = IF i = j THEN f ELSE slot[i]
      BY <1>3, <2>2 DEF AsReserved
    <2>4. slot' = [i \in Slots |-> slot'[i]]
      BY <1>3
    <2> HIDE DEF f
    <2> QED
      BY <1>6, <2>1, <2>3, <2>4
  <1> HIDE DEF j
  <1>8. /\ f \in SlotRecord /\ f.state = "free" /\ f.completion = slot[j].completion
        /\ f.sequence = slot[j].sequence /\ f.start = slot[j].start /\ f.length = slot[j].length
        /\ f.body = slot[j].body
    <2>1. 0 \in 0..Arena /\ "free" \in SlotStates
      BY Constants DEF SlotStates
    <2> QED
      BY <1>6, <2>1, ReservedRecord
  <1> HIDE DEF f
  <1>9. /\ slot' \in [Slots -> SlotRecord] /\ Spans'
        /\ \A n \in Int : /\ slotOf(n) # j => Frame(n)' = Frame(n)
                          /\ slotOf(n) = j => Frame(n)' = f
    BY <1>3, <1>6, <1>7, <1>8, OneSlot
  <1>10. Live' = Live /\ Window' = Window /\ \A n \in Window : n \in Int
    <2>1. UNCHANGED <<published, completed>>
      BY <1>3
    <2>2. Live' = Live /\ Window' = Window
      BY <2>1 DEF Live, Window
    <2>3. \A n \in Window : n \in Int
      BY <1>5, Constants DEF Window
    <2> QED
      BY <2>2, <2>3
  <1>11. \A n \in Window : Frame(n)'.completion = Frame(n).completion
    BY <1>8, <1>9, <1>10 DEF Frame
  <1>12. \A n \in Live : Frame(n)' = Frame(n)
    BY <1>4, <1>9, <1>10 DEF j
  <1>13. SpaceType'
    BY <1>0, <1>3, <1>9 DEF SpaceType
  <1>14. SlotsInUse'
    <2>1. \A n \in Window : n > published => Frame(n)'.state \in {"free", "reserved"}
      BY <1>0, <1>8, <1>9, <1>10 DEF SlotsInUse
    <2> QED
      BY <1>0, <1>3, <1>10, <1>11, <1>12, <2>1 DEF SlotsInUse
  <1>15. Handshake'
    <2>1. Unreleased' = Unreleased
      <3>1. \A n \in (completed + 1)..consumed : n \in Live
        BY <1>5 DEF Live
      <3> QED
        BY <1>3, <1>12, <3>1 DEF Unreleased
    <2> QED
      BY <1>0, <1>3, <1>10, <1>12, <2>1 DEF Handshake
  <1>16. HeldFits'
    BY <1>3 DEF HeldFits
  <1> QED
    BY <1>9, <1>13, <1>14, <1>15, <1>16 DEF SpaceInv

\* The slots after a commit whose doorbell fails.
LEMMA SlotAfterCommitFails ==
    ASSUME SpaceInv, CommitFails
    PROVE  \E f \in SlotRecord :
              /\ slot' = [slot EXCEPT ![slotOf(published)] = f]
              /\ f.state = "free" /\ f.completion = slot[slotOf(published)].completion
              /\ f.sequence = slot[slotOf(published)].sequence /\ f.start = slot[slotOf(published)].start
              /\ f.length = slot[slotOf(published)].length /\ f.body = slot[slotOf(published)].body
  <1>0. SpaceType
    BY DEF SpaceInv
  <1>1. slotOf(published) \in Slots
    BY <1>0, Cursors
  <1>2. slot' = [slot EXCEPT ![slotOf(published)].state = "free", ![slotOf(published)].reserved = 0]
    BY DEF CommitFails
  <1> DEFINE j == slotOf(published)
             f == AsReserved(slot[j], "free", 0)
  <1> HIDE DEF j
  <1>3. slot \in [Slots -> SlotRecord] /\ j \in Slots
    BY <1>0, <1>1 DEF SpaceType, j
  <1>4. slot' = [slot EXCEPT ![j] = f]
    BY <1>2, <1>3 DEF AsReserved, j
  <1>5. /\ f \in SlotRecord /\ f.state = "free" /\ f.completion = slot[j].completion
        /\ f.sequence = slot[j].sequence /\ f.start = slot[j].start /\ f.length = slot[j].length
        /\ f.body = slot[j].body
    <2>1. 0 \in 0..Arena /\ "free" \in SlotStates /\ slot[j] \in SlotRecord
      BY <1>3, Constants DEF SlotStates
    <2> QED
      BY <2>1, ReservedRecord
  <1> HIDE DEF f
  <1> QED
    BY <1>4, <1>5 DEF j

LEMMA CommitFailsKeeps ==
    ASSUME SpaceInv, WaitType, CommitFails, published >= 1
    PROVE  SpaceInv'
  <1>0. SpaceType /\ Spans /\ SlotsInUse /\ HeldFits
    BY DEF SpaceInv
  <1>1. /\ quarantined' = TRUE /\ refused' = refused \cup {published}
        /\ UNCHANGED <<published, arenaWrite, consumed, activeLeases, completed, reclaimed, arena, held>>
    BY DEF CommitFails, producerPage, consumerPage, reclaimPage
  <1> DEFINE j == slotOf(published)
  <1>2. PICK f \in SlotRecord :
           /\ slot' = [slot EXCEPT ![j] = f] /\ f.state = "free" /\ f.completion = slot[j].completion
           /\ f.sequence = slot[j].sequence /\ f.start = slot[j].start
           /\ f.length = slot[j].length /\ f.body = slot[j].body
    BY SlotAfterCommitFails
  <1>3. j \in Slots /\ completed \in Nat /\ published \in Nat
    BY <1>0, Cursors
  <1> HIDE DEF j
  <1>4. /\ slot' \in [Slots -> SlotRecord] /\ Spans'
        /\ \A n \in Int : /\ slotOf(n) # j => Frame(n)' = Frame(n)
                          /\ slotOf(n) = j => Frame(n)' = f
    BY <1>1, <1>2, <1>3, OneSlot
  <1>5. Live' = Live /\ Window' = Window
    BY <1>1 DEF Live, Window
  <1>6. \A n \in Live \cup Window : n \in Int
    BY <1>3, Constants DEF Live, Window
  <1>7. \A n \in Int : /\ Frame(n)'.completion = Frame(n).completion
                       /\ Frame(n)'.state \in {"free", Frame(n).state}
    BY <1>2, <1>4 DEF Frame
  <1>8. SlotsInUse'
    BY <1>0, <1>1, <1>5, <1>6, <1>7 DEF SlotsInUse
  <1>9. HeldFits' /\ Handshake'
    BY <1>0, <1>1 DEF HeldFits, Handshake
  <1>10. SpaceType'
    <2>1. published \in FrameNumbers
      BY <1>0, Cursors DEF FrameNumbers
    <2>2. refused' \subseteq FrameNumbers
      BY <1>0, <1>1, <2>1 DEF SpaceType
    <2>3. quarantined' \in BOOLEAN
      BY <1>1
    <2> QED
      BY <1>0, <1>1, <1>4, <2>2, <2>3 DEF SpaceType
  <1> QED
    BY <1>4, <1>8, <1>9, <1>10 DEF SpaceInv

\* What a commit does to the slots.
LEMMA FramesAfterCommit ==
    ASSUME SpaceInv, Commit
    PROVE  \E r \in held :
              /\ r \in Reservation /\ r.body # -1 /\ r.sequence = published + 1 /\ r.start = arenaWrite
              /\ r.length \in Nat /\ arenaWrite + r.length <= reclaimed + Arena
              /\ published < MaxFrames /\ published < completed + Depth
              /\ published' = published + 1 /\ arenaWrite' = arenaWrite + r.length
              /\ slot' \in [Slots -> SlotRecord]
              /\ \A n \in Window : n # published + 1 => Frame(n)' = Frame(n)
              /\ slot'[slotOf(published + 1)].state = "published"
              /\ slot'[slotOf(published + 1)].sequence = published + 1
              /\ slot'[slotOf(published + 1)].start = arenaWrite
              /\ slot'[slotOf(published + 1)].length = r.length
              /\ slot'[slotOf(published + 1)].body = r.body
              /\ slot'[slotOf(published + 1)].completion = Frame(published + 1).completion
  <1>0. SpaceType /\ HeldFits
    BY DEF SpaceInv
  <1>1. PICK r \in held :
           /\ r.body # -1
           /\ slot' = [slot EXCEPT ![slotOf(r.sequence)] = AsPublished(@, r)]
           /\ arenaWrite' = r.start + r.length
           /\ published' = r.sequence
    BY DEF Commit, AsPublished
  <1>2. /\ r \in Reservation /\ r.sequence = published + 1 /\ r.start = arenaWrite
        /\ published < MaxFrames /\ published < completed + Depth
        /\ arenaWrite + r.length <= reclaimed + Arena
    BY <1>0 DEF HeldFits, SpaceType
  <1> DEFINE j == slotOf(published + 1)
             f == AsPublished(slot[j], r)
  <1>3. slot \in [Slots -> SlotRecord] /\ j \in Slots
    BY <1>0, Cursors DEF SpaceType
  <1> HIDE DEF j
  <1>4. /\ f \in SlotRecord /\ f.state = "published" /\ f.completion = slot[j].completion
        /\ f.sequence = r.sequence /\ f.start = r.start /\ f.length = r.length /\ f.body = r.body
    <2>1. slot[j] \in SlotRecord
      BY <1>3
    <2> QED
      BY <1>1, <1>2, <2>1, PublishedRecord
  <1>5. slot' = [slot EXCEPT ![j] = f]
    BY <1>1, <1>2, <1>3 DEF j
  <1> HIDE DEF f
  <1>6. slot' \in [Slots -> SlotRecord] /\ slot'[j] = f /\ \A i \in Slots \ {j} : slot'[i] = slot[i]
    BY <1>3, <1>4, <1>5
  <1>7. ASSUME NEW n \in Window, n # published + 1
        PROVE  Frame(n)' = Frame(n)
    <2>1. slotOf(n) # j
      BY <1>2, <1>7, NextSlot DEF j
    <2>2. n \in Int /\ slotOf(n) \in Slots
      BY <1>0, Cursors DEF Window
    <2> QED
      BY <1>6, <2>1, <2>2 DEF Frame, slotOf
  <1>8. r.length \in Nat
    BY <1>2, Constants DEF Reservation
  <1> QED
    BY <1>1, <1>2, <1>4, <1>6, <1>7, <1>8 DEF Frame, j

LEMMA CommitKeeps ==
    ASSUME SpaceInv, Commit
    PROVE  SpaceInv'
  <1>0. SpaceType /\ Spans /\ SlotsInUse /\ HeldFits /\ Handshake
    BY DEF SpaceInv
  <1>1. /\ held' = {}
        /\ UNCHANGED <<consumed, activeLeases, completed, reclaimed, arena, quarantined, refused>>
    BY DEF Commit, consumerPage, reclaimPage
  <1> DEFINE e == slot'[slotOf(published + 1)]
  <1>2. PICK r \in held :
           /\ r \in Reservation /\ r.body # -1 /\ r.sequence = published + 1 /\ r.start = arenaWrite
           /\ r.length \in Nat /\ arenaWrite + r.length <= reclaimed + Arena
           /\ published < MaxFrames /\ published < completed + Depth
           /\ published' = published + 1 /\ arenaWrite' = arenaWrite + r.length
           /\ slot' \in [Slots -> SlotRecord]
           /\ \A n \in Window : n # published + 1 => Frame(n)' = Frame(n)
           /\ e.state = "published" /\ e.sequence = published + 1
           /\ e.start = arenaWrite /\ e.length = r.length
           /\ e.completion = Frame(published + 1).completion
    BY FramesAfterCommit
  <1>3. /\ completed \in Nat /\ consumed \in Nat /\ published \in Nat /\ Depth \in Nat \ {0}
        /\ completed <= consumed /\ consumed <= published /\ MaxFrames \in Nat /\ Arena \in Nat
        /\ reclaimed \in Nat /\ arenaWrite \in Nat /\ reclaimed <= arenaWrite
    BY <1>0, Cursors
  <1>4. ASSUME NEW n, n = published + 1
        PROVE  Frame(n)' = e
    BY <1>4 DEF Frame, slotOf
  <1> HIDE DEF e
  <1>5. Window' = Window /\ Live' = (completed + 1)..(published + 1)
    BY <1>1, <1>2 DEF Window, Live
  <1>6. \A n \in Live' : n \in Window /\ (n # published + 1 => n \in Live) /\ n \in Int
    <2>1. ASSUME NEW n \in (completed + 1)..(published + 1)
          PROVE  n \in Window /\ (n # published + 1 => n \in Live) /\ n \in Int
      <3>1. n \in Int /\ n <= completed + Depth /\ (n # published + 1 => n <= published)
        BY <1>2, <1>3
      <3> QED
        BY <1>3, <3>1 DEF Window, Live
    <2> QED
      BY <1>5, <2>1
  <1>7. SpaceType'
    <2>1. published' \in 0..MaxFrames /\ consumed' \in 0..published' /\ reclaimed' \in 0..arenaWrite'
          /\ arenaWrite' \in reclaimed'..(reclaimed' + Arena)
      BY <1>1, <1>2, <1>3
    <2> QED
      BY <1>0, <1>1, <1>2, <2>1 DEF SpaceType
  <1>8. Frame(published + 1).completion # published + 1
    <2>1. published + 1 \in Window /\ ~(published + 1 <= consumed)
      BY <1>2, <1>3 DEF Window
    <2> QED
      BY <1>0, <2>1 DEF SlotsInUse
  <1>9. SlotsInUse'
    <2>1. \A n \in Window : Frame(n)'.completion = Frame(n).completion
      BY <1>2, <1>4
    <2>2. \A n \in Window : n > published + 1 => Frame(n)'.state \in {"free", "reserved"}
      <3>1. \A n \in Window : n > published + 1 => n # published + 1 /\ n > published
        BY <1>3 DEF Window
      <3> QED
        BY <1>0, <1>2, <3>1 DEF SlotsInUse
    <2>3. \A n \in Live' : Frame(n)'.state = "leased" => n <= consumed /\ Frame(n)'.completion # n
      <3>1. ASSUME NEW n \in Live', n = published + 1
            PROVE  Frame(n)'.state # "leased"
        BY <1>2, <1>4, <3>1
      <3>2. ASSUME NEW n \in Live', n # published + 1
            PROVE  Frame(n)'.state = "leased" => n <= consumed /\ Frame(n)'.completion # n
        BY <1>0, <1>2, <1>6, <3>2 DEF SlotsInUse
      <3> QED
        BY <3>1, <3>2
    <2> QED
      BY <1>0, <1>1, <1>2, <1>5, <2>1, <2>2, <2>3 DEF SlotsInUse
  <1>10. \A n \in completed..published : EndOf(n)' = EndOf(n) /\ EndOf(n) \in Nat
    <2>1. ASSUME NEW n \in completed..published
          PROVE  EndOf(n)' = EndOf(n)
      <3>1. CASE n = completed
        BY <1>1, <3>1 DEF EndOf
      <3>2. CASE n # completed
        <4>1. n \in Window /\ n # published + 1
          BY <1>2, <1>3, <3>2 DEF Window
        <4> QED
          BY <1>1, <1>2, <3>2, <4>1 DEF EndOf
      <3> QED
        BY <3>1, <3>2
    <2>2. \A n \in completed..published : n \in Int
      BY <1>3
    <2> QED
      BY <1>0, <2>1, <2>2, EndsAreNumbers
  <1>11. \A n : n = published + 1 => EndOf(n)' = arenaWrite + r.length
    <2>1. published + 1 # completed'
      BY <1>1, <1>3
    <2> QED
      BY <1>2, <1>4, <2>1 DEF EndOf
  <1>12. Spans'
    <2>1. published' <= completed' + Depth /\ arenaWrite' = EndOf(published)'
      <3>1. EndOf(published)' = arenaWrite + r.length
        <4>1. published' = published + 1
          BY <1>2
        <4>2. published' # completed' /\ slot'[slotOf(published)'] = e
          BY <1>1, <1>3, <4>1 DEF e, slotOf
        <4> QED
          BY <1>2, <4>2 DEF EndOf, Frame
      <3> QED
        BY <1>1, <1>2, <1>3, <3>1
    <2>2. ASSUME NEW n \in Live'
          PROVE  Frame(n)'.sequence = n /\ Frame(n)'.start = EndOf(n - 1)'
      <3>1. n - 1 \in completed..published
        BY <1>3, <1>5
      <3>2. CASE n = published + 1
        <4>1. EndOf(n - 1)' = arenaWrite
          <5>1. n - 1 = published
            BY <1>3, <3>2
          <5>2. EndOf(n - 1)' = EndOf(n - 1) /\ EndOf(n - 1) = arenaWrite
            BY <1>0, <1>10, <3>1, <5>1 DEF Spans
          <5> QED
            BY <5>2
        <4> QED
          BY <1>2, <1>4, <3>2, <4>1
      <3>3. CASE n # published + 1
        <4>1. Frame(n)' = Frame(n) /\ Frame(n).sequence = n /\ Frame(n).start = EndOf(n - 1)
          BY <1>0, <1>2, <1>6, <3>3 DEF Spans
        <4> QED
          BY <1>10, <3>1, <4>1
      <3> QED
        BY <3>2, <3>3
    <2>3. ASSUME NEW m \in completed..(published + 1), NEW n \in m..(published + 1)
          PROVE  EndOf(m)' <= EndOf(n)'
      <3>1. CASE n # published + 1
        <4>1. m \in completed..published /\ n \in m..published /\ n \in completed..published
          BY <1>3, <3>1
        <4>2. EndOf(m) <= EndOf(n)
          BY <1>0, <4>1 DEF Spans
        <4> QED
          BY <1>10, <4>1, <4>2
      <3>2. CASE n = published + 1 /\ m # published + 1
        <4>1. m \in completed..published /\ published \in m..published
          BY <1>3, <3>2
        <4>2. EndOf(m) <= arenaWrite
          BY <1>0, <4>1 DEF Spans
        <4>3. EndOf(m)' = EndOf(m) /\ EndOf(m) \in Nat /\ EndOf(n)' = arenaWrite + r.length
          BY <1>10, <1>11, <3>2, <4>1
        <4> QED
          BY <1>2, <1>3, <4>2, <4>3
      <3>3. CASE n = published + 1 /\ m = published + 1
        <4>1. EndOf(m)' = arenaWrite + r.length /\ EndOf(n)' = arenaWrite + r.length
          BY <1>11, <3>3
        <4> QED
          BY <1>2, <1>3, <4>1
      <3> QED
        BY <3>1, <3>2, <3>3
    <2> QED
      BY <1>1, <1>2, <2>1, <2>2, <2>3 DEF Spans
  <1>13. Handshake'
    <2>1. SUFFICES ASSUME ~ quarantined
                   PROVE  /\ \A n \in Live' : Frame(n)'.state = IF n > consumed THEN "published"
                                                 ELSE IF Frame(n)'.completion = n THEN "pending" ELSE "leased"
                          /\ activeLeases = Cardinality(Unreleased')
      BY <1>1 DEF Handshake
    <2>2. ASSUME NEW n \in Live'
          PROVE  Frame(n)'.state = IF n > consumed THEN "published"
                                   ELSE IF Frame(n)'.completion = n THEN "pending" ELSE "leased"
      <3>1. CASE n = published + 1
        <4>1. n > consumed
          BY <1>3, <3>1
        <4> QED
          BY <1>2, <1>4, <3>1, <4>1
      <3>2. CASE n # published + 1
        BY <1>0, <1>2, <1>6, <2>1, <3>2 DEF Handshake
      <3> QED
        BY <3>1, <3>2
    <2>3. Unreleased' = Unreleased
      <3>1. \A n \in (completed + 1)..consumed : n \in Window /\ n # published + 1
        BY <1>2, <1>3 DEF Window
      <3> QED
        BY <1>1, <1>2, <3>1 DEF Unreleased
    <2> QED
      BY <1>0, <2>1, <2>2, <2>3 DEF Handshake
  <1>14. HeldFits'
    BY <1>1 DEF HeldFits
  <1> QED
    BY <1>7, <1>9, <1>12, <1>13, <1>14 DEF SpaceInv


LEMMA LeasesAreCounted ==
    ASSUME SpaceInv
    PROVE  IsFiniteSet(Unreleased)
  <1>1. completed + 1 \in Int /\ consumed \in Int
    BY Cursors DEF SpaceInv
  <1>2. IsFiniteSet((completed + 1)..consumed)
    BY <1>1, FS_Interval
  <1>3. Unreleased \in SUBSET ((completed + 1)..consumed)
    BY DEF Unreleased
  <1> QED
    BY <1>2, <1>3, FS_Subset

\* The slot of one live frame changes, but not its descriptor.
LEMMA OneFrame ==
    ASSUME SpaceInv, NEW m \in Live, NEW f \in SlotRecord, slot' = [slot EXCEPT ![slotOf(m)] = f],
           f.sequence = Frame(m).sequence, f.start = Frame(m).start, f.length = Frame(m).length,
           f.body = Frame(m).body,
           UNCHANGED <<published, arenaWrite, completed, reclaimed>>
    PROVE  /\ slot' \in [Slots -> SlotRecord] /\ Spans'
           /\ Live' = Live /\ Window' = Window
           /\ \A n \in Live : n \in Window
           /\ \A n \in Window : n \in Int /\ Frame(n)' = IF n = m THEN f ELSE Frame(n)
  <1>0. SpaceType /\ Spans
    BY DEF SpaceInv
  <1>1. /\ completed \in Nat /\ published \in Nat /\ published <= completed + Depth /\ Depth \in Nat \ {0}
        /\ \A n \in Int : slotOf(n) \in Slots
    BY <1>0, Cursors DEF Spans
  <1>2. \A n \in Live : n \in Window
    BY <1>1 DEF Live, Window
  <1>3. \A n \in Window : n \in Int
    BY <1>1 DEF Window
  <1>4. slotOf(m) \in Slots
    BY <1>1, <1>2, <1>3
  <1>5. /\ slot' \in [Slots -> SlotRecord] /\ Spans'
        /\ \A n \in Int : /\ slotOf(n) # slotOf(m) => Frame(n)' = Frame(n)
                          /\ slotOf(n) = slotOf(m) => Frame(n)' = f
    BY <1>4, OneSlot DEF Frame
  <1>6. \A n \in Window : n # m => slotOf(n) # slotOf(m)
    BY <1>1, <1>2, SlotsDiffer DEF Window
  <1>7. Live' = Live /\ Window' = Window
    BY DEF Live, Window
  <1> QED
    BY <1>2, <1>3, <1>5, <1>6, <1>7

LEMMA ReceiveKeeps ==
    ASSUME SpaceInv, Receive
    PROVE  SpaceInv'
  <1>0. SpaceType /\ Spans /\ SlotsInUse /\ HeldFits /\ Handshake
    BY DEF SpaceInv
  <1> DEFINE m == consumed + 1
             f == [slot[slotOf(m)] EXCEPT !.state = "leased"]
  <1>1. /\ ~ quarantined /\ published # consumed /\ activeLeases < MaxLeases
        /\ consumed' = m /\ activeLeases' = activeLeases + 1
        /\ UNCHANGED <<published, arenaWrite, completed, reclaimed, arena, quarantined, held, refused>>
    BY DEF Receive, CanReceive, dataAvailable, producerPage, reclaimPage, holding
  <1>2. /\ completed \in Nat /\ consumed \in Nat /\ published \in Nat
        /\ completed <= consumed /\ consumed <= published /\ MaxLeases \in Nat /\ activeLeases \in 0..MaxLeases
    BY <1>0, Cursors, Constants DEF SpaceType
  <1>3. m \in Live /\ m \in Int
    BY <1>1, <1>2 DEF Live
  <1>4. slot \in [Slots -> SlotRecord] /\ slotOf(m) \in Slots /\ slot[slotOf(m)] \in SlotRecord
    BY <1>0, <1>3, Cursors DEF SpaceType
  <1>5. slot' = [slot EXCEPT ![slotOf(m)] = f]
    BY <1>4 DEF Receive
  <1>6. /\ f \in SlotRecord /\ f.state = "leased" /\ f.completion = Frame(m).completion
        /\ f.sequence = Frame(m).sequence /\ f.start = Frame(m).start
        /\ f.length = Frame(m).length /\ f.body = Frame(m).body
    BY <1>4 DEF SlotRecord, SlotStates, Frame
  <1> HIDE DEF f
  <1>7. /\ slot' \in [Slots -> SlotRecord] /\ Spans'
        /\ Live' = Live /\ Window' = Window
        /\ \A n \in Live : n \in Window
        /\ \A n \in Window : n \in Int /\ Frame(n)' = IF n = m THEN f ELSE Frame(n)
    <2> HIDE DEF m
    <2> QED
      BY <1>1, <1>3, <1>5, <1>6, OneFrame
  <1>8. Frame(m).completion # m
    <2>1. m \in Window /\ ~(m <= consumed)
      BY <1>2, <1>3, <1>7
    <2> QED
      BY <1>0, <2>1 DEF SlotsInUse
  <1>9. \A n \in Window : Frame(n)'.completion = Frame(n).completion
    BY <1>6, <1>7
  <1>10. SpaceType'
    <2>1. completed' \in 0..consumed' /\ consumed' \in 0..published' /\ activeLeases' \in 0..MaxLeases
      BY <1>1, <1>2
    <2> QED
      BY <1>0, <1>1, <1>7, <2>1 DEF SpaceType
  <1>11. SlotsInUse'
    <2>1. ASSUME NEW n \in Window, Frame(n)'.completion = n
          PROVE  n <= consumed'
      <3>1. n <= consumed /\ n \in Int
        BY <1>0, <1>7, <1>9, <2>1 DEF SlotsInUse
      <3> QED
        BY <1>1, <1>2, <3>1
    <2>2. ASSUME NEW n \in Window, n > published
          PROVE  Frame(n)'.state \in {"free", "reserved"}
      <3>1. n # m
        BY <1>1, <1>2, <2>2
      <3> QED
        BY <1>0, <1>7, <2>2, <3>1 DEF SlotsInUse
    <2>3. ASSUME NEW n \in Live, Frame(n)'.state = "leased"
          PROVE  n <= consumed' /\ Frame(n)'.completion # n
      <3>1. CASE n = m
        BY <1>1, <1>2, <1>7, <1>8, <1>9, <3>1
      <3>2. CASE n # m
        <4>1. n <= consumed /\ n \in Int /\ Frame(n).completion # n
          BY <1>0, <1>7, <2>3, <3>2 DEF SlotsInUse
        <4> QED
          BY <1>1, <1>2, <1>7, <1>9, <4>1
      <3> QED
        BY <3>1, <3>2
    <2> QED
      BY <1>1, <1>7, <2>1, <2>2, <2>3 DEF SlotsInUse
  <1>12. HeldFits'
    BY <1>0, <1>1 DEF HeldFits
  <1>13. Handshake'
    <2>1. ASSUME NEW n \in Live
          PROVE  Frame(n)'.state = IF n > consumed' THEN "published"
                                   ELSE IF Frame(n)'.completion = n THEN "pending" ELSE "leased"
      <3>1. CASE n = m
        <4>1. ~(n > consumed')
          BY <1>1, <1>2, <3>1
        <4> QED
          BY <1>3, <1>6, <1>7, <1>8, <3>1, <4>1
      <3>2. CASE n # m
        <4>1. n > consumed' <=> n > consumed
          BY <1>1, <1>2, <1>7, <3>2
        <4> QED
          BY <1>0, <1>1, <1>7, <3>2, <4>1 DEF Handshake
      <3> QED
        BY <3>1, <3>2
    <2>2. Unreleased' = Unreleased \cup {m} /\ m \notin Unreleased
      <3>1. Unreleased' = {n \in (completed + 1)..m : Frame(n)'.completion # n}
        BY <1>1 DEF Unreleased
      <3>2. \A n \in (completed + 1)..m : n \in Live
        BY <1>1, <1>2 DEF Live
      <3>3. \A n : n \in (completed + 1)..m <=> n \in (completed + 1)..consumed \/ n = m
        BY <1>2
      <3>4. m \notin (completed + 1)..consumed
        BY <1>2
      <3>5. \A n \in (completed + 1)..m : Frame(n)'.completion = Frame(n).completion
        BY <1>7, <1>9, <3>2
      <3> HIDE DEF m
      <3> QED
        BY <1>8, <3>1, <3>3, <3>4, <3>5 DEF Unreleased
    <2>3. Cardinality(Unreleased') = Cardinality(Unreleased) + 1
      BY <2>2, LeasesAreCounted, FS_AddElement
    <2>4. activeLeases = Cardinality(Unreleased)
      BY <1>0, <1>1 DEF Handshake
    <2>5. activeLeases' = Cardinality(Unreleased')
      BY <1>1, <2>3, <2>4
    <2> QED
      BY <1>7, <2>1, <2>5 DEF Handshake
  <1> QED
    BY <1>7, <1>10, <1>11, <1>12, <1>13 DEF SpaceInv

\* What release finds leased is a live frame.
LEMMA LeasedIsLive ==
    ASSUME SpaceInv, NEW n \in FrameNumbers, Frame(n).sequence = n, Frame(n).state = "leased"
    PROVE  n \in Live
  <1>0. SpaceType /\ Spans /\ SlotsInUse
    BY DEF SpaceInv
  <1>1. completed \in Nat /\ published \in Nat /\ Depth \in Nat \ {0} /\ n \in Nat
    BY <1>0, Cursors DEF FrameNumbers
  <1>2. PICK k \in (completed + 1)..(completed + Depth) : slotOf(k) = slotOf(n)
    BY <1>1, SlotsCover
  <1>3. k \in Window /\ Frame(k) = Frame(n)
    BY <1>2 DEF Window, Frame
  <1>4. ~(k > published)
    BY <1>0, <1>3 DEF SlotsInUse
  <1>5. k \in Live
    BY <1>1, <1>4 DEF Live
  <1>6. Frame(k).sequence = k
    BY <1>0, <1>5 DEF Spans
  <1> QED
    BY <1>3, <1>5, <1>6

LEMMA ReleaseKeeps ==
    ASSUME SpaceInv, NEW m \in FrameNumbers, Release(m)
    PROVE  SpaceInv'
  <1>0. SpaceType /\ Spans /\ SlotsInUse /\ HeldFits /\ Handshake
    BY DEF SpaceInv
  <1> DEFINE f == AsPending(slot[slotOf(m)], m)
  <1>1. /\ ~ quarantined /\ m <= consumed /\ Frame(m).sequence = m /\ Frame(m).state = "leased"
        /\ activeLeases' = activeLeases - 1
        /\ UNCHANGED <<published, arenaWrite, consumed, completed, reclaimed, arena, quarantined, held, refused>>
    BY DEF Release, producerPage, reclaimPage, holding
  <1>2. /\ completed \in Nat /\ consumed \in Nat /\ published \in Nat
        /\ completed <= consumed /\ consumed <= published /\ MaxLeases \in Nat /\ activeLeases \in 0..MaxLeases
    BY <1>0, Cursors, Constants DEF SpaceType
  <1>3. m \in Live /\ m \in Int
    BY <1>1, LeasedIsLive DEF FrameNumbers
  <1>4. slot \in [Slots -> SlotRecord] /\ slotOf(m) \in Slots /\ slot[slotOf(m)] \in SlotRecord
    BY <1>0, <1>3, Cursors DEF SpaceType
  <1>5. slot' = [slot EXCEPT ![slotOf(m)] = f]
    <2>1. slot' = [slot EXCEPT ![slotOf(m)].state = "pending", ![slotOf(m)].completion = m]
      BY DEF Release
    <2> DEFINE j == slotOf(m)
    <2> HIDE DEF j
    <2>2. slot' = [slot EXCEPT ![j].state = "pending", ![j].completion = m] /\ j \in Slots
      BY <1>4, <2>1 DEF j
    <2>3. slot' = [slot EXCEPT ![j] = AsPending(slot[j], m)]
      BY <1>4, <2>2 DEF AsPending
    <2> QED
      BY <2>3 DEF j
  <1>6. /\ f \in SlotRecord /\ f.state = "pending" /\ f.completion = m
        /\ f.sequence = Frame(m).sequence /\ f.start = Frame(m).start
        /\ f.length = Frame(m).length /\ f.body = Frame(m).body
    BY <1>4, CompletedRecord DEF Frame
  <1> HIDE DEF f
  <1>7. /\ slot' \in [Slots -> SlotRecord] /\ Spans'
        /\ Live' = Live /\ Window' = Window
        /\ \A n \in Live : n \in Window
        /\ \A n \in Window : n \in Int /\ Frame(n)' = IF n = m THEN f ELSE Frame(n)
    BY <1>1, <1>3, <1>5, <1>6, OneFrame
  <1>8. Frame(m).completion # m /\ m \in Window
    BY <1>0, <1>1, <1>3, <1>7 DEF SlotsInUse
  <1>9. Unreleased' = Unreleased \ {m} /\ m \in Unreleased
    <2>1. Unreleased' = {n \in (completed + 1)..consumed : Frame(n)'.completion # n}
      BY <1>1 DEF Unreleased
    <2>2. \A n \in (completed + 1)..consumed : n \in Live
      BY <1>2 DEF Live
    <2>3. m \in (completed + 1)..consumed
      BY <1>1, <1>2, <1>3 DEF Live
    <2>4. \A n \in (completed + 1)..consumed : Frame(n)' = IF n = m THEN f ELSE Frame(n)
      BY <1>7, <2>2
    <2> QED
      BY <1>6, <1>8, <2>1, <2>3, <2>4 DEF Unreleased
  <1>10. activeLeases' = Cardinality(Unreleased') /\ activeLeases >= 1
    <2>1. activeLeases = Cardinality(Unreleased)
      BY <1>0, <1>1 DEF Handshake
    <2>2. Cardinality(Unreleased') = Cardinality(Unreleased) - 1
      BY <1>9, LeasesAreCounted, FS_RemoveElement
    <2>3. Cardinality(Unreleased) # 0
      BY <1>9, LeasesAreCounted, FS_EmptySet
    <2> QED
      BY <1>1, <1>2, <2>1, <2>2, <2>3
  <1>11. SpaceType'
    <2>1. activeLeases' \in 0..MaxLeases
      BY <1>1, <1>2, <1>10
    <2> QED
      BY <1>0, <1>1, <1>7, <2>1 DEF SpaceType
  <1>12. SlotsInUse'
    <2>1. \A n \in Window : Frame(n)'.completion = n => n <= consumed
      BY <1>0, <1>1, <1>7 DEF SlotsInUse
    <2>2. m <= published
      BY <1>1, <1>2, <1>3
    <2>3. \A n \in Window : n > published => Frame(n)'.state \in {"free", "reserved"}
      <3>1. \A n \in Window : n > published => n # m
        BY <1>2, <1>3, <1>7, <2>2
      <3> QED
        BY <1>0, <1>7, <3>1 DEF SlotsInUse
    <2>4. \A n \in Live : Frame(n)'.state = "leased" => n <= consumed /\ Frame(n)'.completion # n
      BY <1>0, <1>6, <1>7 DEF SlotsInUse
    <2> QED
      BY <1>1, <1>7, <2>1, <2>3, <2>4 DEF SlotsInUse
  <1>13. HeldFits'
    BY <1>0, <1>1 DEF HeldFits
  <1>14. Handshake'
    <2>1. ASSUME NEW n \in Live
          PROVE  Frame(n)'.state = IF n > consumed THEN "published"
                                   ELSE IF Frame(n)'.completion = n THEN "pending" ELSE "leased"
      <3>1. CASE n = m
        <4>1. ~(n > consumed)
          BY <1>1, <1>2, <1>3, <3>1
        <4> QED
          BY <1>6, <1>7, <3>1, <4>1
      <3>2. CASE n # m
        BY <1>0, <1>1, <1>7, <3>2 DEF Handshake
      <3> QED
        BY <3>1, <3>2
    <2> QED
      BY <1>1, <1>7, <1>10, <2>1 DEF Handshake
  <1> QED
    BY <1>7, <1>11, <1>12, <1>13, <1>14 DEF SpaceInv

----------------------------------------------------------------------------
(* Waiting and signalling *)

WakeRecord == [generation : Nat, parked : Nat, bell : BOOLEAN]
CallLists == {<<>>, <<"consumer">>, <<"producer", "consumer">>}
CallRecord == [to : CallLists, at : {"bump", "swap", "ring"}]

LEMMA CallsNext ==
    ASSUME NEW to \in CallLists, to # <<>>
    PROVE  Head(to) \in Sides /\ Tail(to) \in CallLists
  <1>1. CASE to = <<"consumer">>
    <2>1. Head(to) = "consumer" /\ Tail(to) = <<>>
      BY <1>1
    <2> QED
      BY <2>1 DEF Sides, CallLists
  <1>2. CASE to = <<"producer", "consumer">>
    <2>1. Head(to) = "producer"
      BY <1>2
    <2>2. Tail(to) = <<"consumer">>
      BY <1>2
    <2> QED
      BY <2>1, <2>2 DEF Sides, CallLists
  <1> QED
    BY <1>1, <1>2 DEF CallLists

LEMMA WakeTyped ==
    ASSUME wake \in [Sides -> WakeRecord], NEW s \in Sides
    PROVE  /\ \A n \in Nat : [wake EXCEPT ![s].parked = n] \in [Sides -> WakeRecord]
           /\ [wake EXCEPT ![s].bell = TRUE] \in [Sides -> WakeRecord]
           /\ [wake EXCEPT ![s].bell = FALSE] \in [Sides -> WakeRecord]
           /\ [wake EXCEPT ![s].generation = @ + 1] \in [Sides -> WakeRecord]
  <1>1. wake[s] \in WakeRecord /\ wake[s].generation + 1 \in Nat
    BY DEF WakeRecord
  <1>2. ASSUME NEW n \in Nat
        PROVE  [wake EXCEPT ![s].parked = n] \in [Sides -> WakeRecord]
    <2>1. [wake[s] EXCEPT !.parked = n] \in WakeRecord
      BY <1>1 DEF WakeRecord
    <2> QED
      BY <2>1
  <1>3. [wake EXCEPT ![s].generation = @ + 1] \in [Sides -> WakeRecord]
    <2>1. [wake[s] EXCEPT !.generation = @ + 1] \in WakeRecord
      BY <1>1 DEF WakeRecord
    <2> QED
      BY <2>1
  <1>4. ASSUME NEW b \in BOOLEAN
        PROVE  [wake EXCEPT ![s].bell = b] \in [Sides -> WakeRecord]
    <2>1. [wake[s] EXCEPT !.bell = b] \in WakeRecord
      BY <1>1, Zenon DEF WakeRecord
    <2> QED
      BY <2>1, Zenon
  <1> QED
    BY <1>2, <1>3, <1>4

WaitTyped ==
    /\ wake \in [Sides -> WakeRecord] /\ pc \in [Sides -> Waits] /\ seen \in [Sides -> Nat]
    /\ signals \in [Sides -> CallRecord] /\ bound \in Sizes \cup {0}

LEMMA WaitTypeIs == WaitType <=> WaitTyped
  BY DEF WaitType, WaitTyped, WakeRecord, CallRecord, CallLists

\* A step of a side that waits.
LEMMA SideKeepsWait ==
    ASSUME WaitTyped, NEW s \in Sides, WaitStep(s) \/ WaitEnds(s)
    PROVE  WaitTyped' /\ UNCHANGED <<signals, bound>>
  <1>0. "producer" \in Sides /\ Sides = {"producer", "consumer"}
    BY DEF Sides
  <1>1. UNCHANGED <<signals, bound>>
    BY DEF WaitStep, ReadGeneration, Park, Compare, Drain, Wakes, Unpark, WaitEnds, GivesUp, OtherEvent, Interrupted, DrainFails, holding
  <1>2. seen' \in [Sides -> Nat]
    <2>1. seen' = seen \/ seen' = [seen EXCEPT ![s] = wake[s].generation]
      BY DEF WaitStep, ReadGeneration, Park, Compare, Drain, Wakes, Unpark, WaitEnds, GivesUp, OtherEvent, Interrupted, DrainFails
    <2>2. wake[s].generation \in Nat
      BY DEF WaitTyped, WakeRecord
    <2> QED
      BY <2>1, <2>2 DEF WaitTyped
  <1>3. wake' \in [Sides -> WakeRecord]
    <2>1. \/ wake' = wake \/ wake' = [wake EXCEPT ![s].parked = seen[s] + 1]
          \/ wake' = [wake EXCEPT ![s].parked = 0] \/ wake' = [wake EXCEPT ![s].bell = FALSE]
      BY DEF WaitStep, ReadGeneration, Park, Compare, Drain, Wakes, Unpark, WaitEnds, GivesUp, OtherEvent, Interrupted, DrainFails
    <2>2. seen[s] + 1 \in Nat
      BY DEF WaitTyped
    <2>3. wake \in [Sides -> WakeRecord] /\ 0 \in Nat
      BY DEF WaitTyped
    <2>4. /\ \A n \in Nat : [wake EXCEPT ![s].parked = n] \in [Sides -> WakeRecord]
          /\ [wake EXCEPT ![s].bell = FALSE] \in [Sides -> WakeRecord]
      BY <2>3, WakeTyped
    <2> QED
      BY <2>1, <2>2, <2>3, <2>4
  <1>4. pc' \in [Sides -> Waits]
    <2>1. \E place \in Waits : Goto(s, place)
      BY Zenon DEF WaitStep, ReadGeneration, Park, Compare, Drain, Wakes, Unpark, WaitEnds, GivesUp, OtherEvent, Interrupted, DrainFails, Waits
    <2> QED
      BY <2>1 DEF WaitTyped, Goto
  <1> QED
    BY <1>1, <1>2, <1>3, <1>4 DEF WaitTyped

LEMMA SignalKeepsWait ==
    ASSUME WaitTyped, NEW s \in Sides, SignalStep(s)
    PROVE  /\ WaitTyped' /\ UNCHANGED <<pc, seen, bound>>
           /\ signals'["producer"].to # <<>> => signals["producer"].to # <<>>
  <1>1. UNCHANGED <<pc, seen, bound>>
    BY DEF SignalStep, Bump, SwapPark, Ring, holding
  <1> DEFINE c == signals[s]
             t == Head(c.to)
  <1>2. c \in CallRecord /\ c.to \in CallLists /\ c.to # <<>>
    BY DEF WaitTyped, CallRecord, SignalStep, Bump, SwapPark, Ring, Free
  <1>3. t \in Sides /\ Tail(c.to) \in CallLists
    BY <1>2, CallsNext
  <1>4. wake' \in [Sides -> WakeRecord]
    <2>1. \/ wake' = [wake EXCEPT ![t].generation = @ + 1]
          \/ wake' = [wake EXCEPT ![t].parked = 0] \/ wake' = [wake EXCEPT ![t].bell = TRUE]
      BY DEF SignalStep, Bump, SwapPark, Ring
    <2> HIDE DEF t
    <2>2. wake \in [Sides -> WakeRecord] /\ 0 \in Nat
      BY DEF WaitTyped
    <2>3. /\ \A n \in Nat : [wake EXCEPT ![t].parked = n] \in [Sides -> WakeRecord]
          /\ [wake EXCEPT ![t].bell = TRUE] \in [Sides -> WakeRecord]
          /\ [wake EXCEPT ![t].generation = @ + 1] \in [Sides -> WakeRecord]
      BY <1>3, <2>2, WakeTyped
    <2> QED
      BY <2>1, <2>2, <2>3
  <1>5. \E d \in CallRecord : signals' = [signals EXCEPT ![s] = d]
    <2>1. [c EXCEPT !.at = "swap"] \in CallRecord
      BY <1>2 DEF CallRecord
    <2>2. [to |-> c.to, at |-> "ring"] \in CallRecord /\ [to |-> Tail(c.to), at |-> "bump"] \in CallRecord
      BY <1>2, <1>3 DEF CallRecord
    <2>3. signals \in [Sides -> CallRecord]
      BY DEF WaitTyped
    <2>4. \/ signals' = [signals EXCEPT ![s] = [c EXCEPT !.at = "swap"]]
          \/ signals' = [signals EXCEPT ![s] = [to |-> c.to, at |-> "ring"]]
          \/ signals' = [signals EXCEPT ![s] = [to |-> Tail(c.to), at |-> "bump"]]
      BY <2>3 DEF SignalStep, Bump, SwapPark, Ring
    <2> QED
      BY <2>1, <2>2, <2>4
  <1>6. signals' \in [Sides -> CallRecord]
    BY <1>5 DEF WaitTyped
  <1>7. signals'["producer"].to # <<>> => signals["producer"].to # <<>>
    <2>1. CASE s = "producer"
      BY <1>2, <2>1
    <2>2. CASE s # "producer"
      BY <1>5, <2>2 DEF WaitTyped, Sides
    <2> QED
      BY <2>1, <2>2
  <1> QED
    BY <1>1, <1>4, <1>6, <1>7 DEF WaitTyped

\* A step of the producer or the consumer.
LEMMA OwnStepKeepsWait ==
    ASSUME WaitTyped, ProducerStep \/ ConsumerStep
    PROVE  WaitTyped'
  <1>0. "producer" \in Sides /\ "consumer" \in Sides
    BY DEF Sides
  <1>1. wake' \in [Sides -> WakeRecord]
    <2>1. wake' = wake \/ wake' = [wake EXCEPT !["producer"].parked = 0]
      BY DEF ProducerStep, ConsumerStep, Reserve, TryReserve, ReclaimFails, TryQuarantined, DeadlinePasses,
             Write, Commit, CommitFails, Abort, Receive, ArmDataWait, LookForData, ReleaseFails, Release, waiting
    <2>2. wake \in [Sides -> WakeRecord] /\ 0 \in Nat
      BY DEF WaitTyped
    <2>3. \A n \in Nat : [wake EXCEPT !["producer"].parked = n] \in [Sides -> WakeRecord]
      BY <1>0, <2>2, WakeTyped
    <2> QED
      BY <2>1, <2>2, <2>3
  <1>2. seen' = seen
    BY DEF ProducerStep, ConsumerStep, Reserve, TryReserve, ReclaimFails, TryQuarantined, DeadlinePasses,
           Write, Commit, CommitFails, Abort, Receive, ArmDataWait, LookForData, ReleaseFails, Release, waiting
  <1>3. bound' \in Sizes \cup {0}
    <2>1. bound' = bound \/ bound' \in Sizes
      BY DEF ProducerStep, ConsumerStep, Reserve, TryReserve, ReclaimFails, TryQuarantined, DeadlinePasses,
             Write, Commit, CommitFails, Abort, Receive, ArmDataWait, LookForData, ReleaseFails, Release, holding
    <2> QED
      BY <2>1 DEF WaitTyped
  <1>4. pc' \in [Sides -> Waits]
    <2>1. pc' = pc \/ \E s \in Sides, place \in Waits : Goto(s, place)
      <3>1. CASE ProducerStep
        <4>1. \A place : Goto("producer", place) => \E s \in Sides : Goto(s, place)
          BY <1>0
        <4>2. pc' = pc \/ \E place \in Waits : Goto("producer", place)
          BY <3>1, Zenon DEF ProducerStep, Reserve, TryReserve, ReclaimFails, TryQuarantined, DeadlinePasses,
                 Write, Commit, CommitFails, Abort, waiting, Found, Missed, Waits
        <4> QED
          BY <4>1, <4>2
      <3>2. CASE ConsumerStep
        <4>1. \A place : Goto("consumer", place) => \E s \in Sides : Goto(s, place)
          BY <1>0
        <4>2. pc' = pc \/ \E place \in Waits : Goto("consumer", place)
          BY <3>2, Zenon DEF ConsumerStep, Receive, ArmDataWait, LookForData, ReleaseFails, Release,
                 waiting, Found, Missed, Waits
        <4> QED
          BY <4>1, <4>2
      <3> QED
        BY <3>1, <3>2
    <2> QED
      BY <2>1 DEF WaitTyped, Goto
  <1>5. signals' \in [Sides -> CallRecord]
    <2>1. \/ signals' = signals
          \/ \E s \in Sides, to \in CallLists : signals' = [signals EXCEPT ![s] = [to |-> to, at |-> "bump"]]
      BY <1>0 DEF ProducerStep, ConsumerStep, Reserve, TryReserve, ReclaimFails, TryQuarantined, DeadlinePasses,
             Write, Commit, CommitFails, Abort, Receive, ArmDataWait, LookForData, ReleaseFails, Release,
             Signal, NoSignal, CallLists
    <2>2. \A to \in CallLists : [to |-> to, at |-> "bump"] \in CallRecord
      BY DEF CallRecord
    <2> QED
      BY <2>1, <2>2 DEF WaitTyped
  <1> QED
    BY <1>1, <1>2, <1>3, <1>4, <1>5 DEF WaitTyped

----------------------------------------------------------------------------
(* The invariant *)

\* Steps that leave what is shared alone.
LEMMA QuietKeeps ==
    ASSUME SpaceInv, UNCHANGED <<storage, quarantined, held, refused>>
    PROVE  SpaceInv'
  <1>1. UNCHANGED <<slot, published, arenaWrite, consumed, activeLeases, completed, reclaimed, arena,
                    quarantined, held, refused>>
    BY DEF storage, producerPage, consumerPage, reclaimPage
  <1>2. SpaceType'
    BY <1>1 DEF SpaceInv, SpaceType
  <1>3. HeldFits'
    BY <1>1 DEF SpaceInv, HeldFits
  <1>4. quarantined' \in {TRUE, quarantined}
    BY <1>1
  <1> QED
    BY <1>1, <1>2, <1>3, <1>4, SlotsStay

LEMMA SideStep ==
    ASSUME RingInv, NEW s \in Sides, WaitStep(s) \/ SignalStep(s) \/ WaitEnds(s)
    PROVE  RingInv' /\ UNCHANGED <<storage, quarantined, holding>>
  <1>0. SpaceInv /\ WaitType /\ WaitTyped /\ Asks /\ Rings
    BY WaitTypeIs DEF RingInv
  <1>1. UNCHANGED <<storage, quarantined, holding>>
    BY DEF WaitStep, ReadGeneration, Park, Compare, Drain, Wakes, Unpark, WaitEnds, GivesUp, OtherEvent, Interrupted, DrainFails,
           SignalStep, Bump, SwapPark, Ring
  <1>2. published' = published /\ UNCHANGED <<held, refused>>
    BY <1>1 DEF storage, producerPage, holding
  <1>3. SpaceInv'
    BY <1>0, <1>1, <1>2, QuietKeeps
  <1>4. CASE SignalStep(s)
    <2>1. /\ WaitTyped' /\ UNCHANGED pc
          /\ signals'["producer"].to # <<>> => signals["producer"].to # <<>>
      BY <1>0, <1>4, SignalKeepsWait
    <2>2. WaitType'
      BY <2>1, WaitTypeIs, PTL
    <2>3. Asks'
      BY <1>0, <1>2, <2>1 DEF Asks
    <2>4. Rings'
      BY <1>0, <1>2, <2>1 DEF Rings
    <2> QED
      BY <1>1, <1>3, <2>2, <2>3, <2>4 DEF RingInv
  <1>5. CASE WaitStep(s) \/ WaitEnds(s)
    <2>1. WaitTyped' /\ UNCHANGED signals
      BY <1>0, <1>5, SideKeepsWait
    <2>2. WaitType'
      BY <2>1, WaitTypeIs, PTL
    <2>3. pc[s] # "idle" /\ \E place \in Waits : Goto(s, place)
      BY <1>5, Zenon DEF WaitStep, ReadGeneration, Park, Compare, Drain, Wakes, Unpark, WaitEnds, GivesUp, OtherEvent, Interrupted, DrainFails, Waits
    <2>4. pc'["producer"] # "idle" => pc["producer"] # "idle"
      BY <1>0, <2>3 DEF Goto, WaitTyped, Sides
    <2>5. Asks'
      BY <1>0, <1>2, <2>4 DEF Asks
    <2>6. Rings'
      BY <1>0, <1>2, <2>1 DEF Rings
    <2> QED
      BY <1>1, <1>3, <2>2, <2>5, <2>6 DEF RingInv
  <1> QED
    BY <1>4, <1>5

LEMMA ProducerKeeps ==
    ASSUME RingInv, ProducerStep
    PROVE  RingInv'
  <1>0. SpaceInv /\ WaitType /\ WaitTyped /\ Asks /\ Rings /\ SpaceType
    BY WaitTypeIs DEF RingInv, SpaceInv
  <1>1. WaitType'
    BY <1>0, OwnStepKeepsWait, WaitTypeIs, PTL
  <1>2. CASE Commit
    <2>1. SpaceInv'
      BY <1>0, <1>2, CommitKeeps
    <2>2. pc'["producer"] = "idle"
      BY <1>2 DEF Commit, waiting
    <2>3. published' >= 1
      <3>1. published' = published + 1
        BY <1>0, <1>2, FramesAfterCommit
      <3> QED
        BY <1>0, <3>1, Cursors
    <2> QED
      BY <1>1, <2>1, <2>2, <2>3 DEF RingInv, Asks, Rings
  <1>3. CASE ~Commit
    <2>1. SpaceInv'
      <3>1. CASE Reserve \/ TryQuarantined \/ DeadlinePasses
        <4>1. UNCHANGED <<storage, quarantined, held, refused>>
          BY <3>1 DEF Reserve, TryQuarantined, DeadlinePasses, holding
        <4> QED
          BY <1>0, <4>1, QuietKeeps
      <3>2. CASE TryReserve
        BY <1>0, <3>2, TryReserveKeeps
      <3>3. CASE ReclaimFails
        BY <1>0, <3>3, FailureKeeps
      <3>4. CASE Write
        BY <1>0, <3>4, WriteKeeps
      <3>5. CASE CommitFails
        <4>1. published >= 1
          BY <1>0, <3>5 DEF CommitFails, Free, Rings
        <4> QED
          BY <1>0, <3>5, <4>1, CommitFailsKeeps
      <3>6. CASE Abort
        BY <1>0, <3>6, AbortKeeps
      <3> QED
        BY <1>3, <3>1, <3>2, <3>3, <3>4, <3>5, <3>6 DEF ProducerStep
    <2>2. published' = published
      BY <1>3 DEF ProducerStep, Reserve, TryReserve, ReclaimFails, TryQuarantined, DeadlinePasses,
             Write, CommitFails, Abort, storage, producerPage
    <2>3. pc["producer"] # "idle" \/ published < MaxFrames \/ pc' = pc
      BY <1>3 DEF ProducerStep, Reserve, TryReserve, ReclaimFails, TryQuarantined, DeadlinePasses,
             Write, CommitFails, Abort, waiting, Tries
    <2>4. Asks'
      BY <1>0, <2>2, <2>3 DEF Asks
    <2>5. signals' = signals \/ signals'["producer"].to = <<>>
      <3>1. signals' = signals \/ signals' = [signals EXCEPT !["producer"] = NoSignal]
        BY <1>3 DEF ProducerStep, Reserve, TryReserve, ReclaimFails, TryQuarantined, DeadlinePasses,
               Write, CommitFails, Abort
      <3>2. signals \in [Sides -> CallRecord] /\ "producer" \in Sides /\ NoSignal.to = <<>>
        BY <1>0 DEF WaitTyped, Sides, NoSignal
      <3> QED
        BY <3>1, <3>2
    <2>6. Rings'
      BY <1>0, <2>2, <2>5 DEF Rings
    <2> QED
      BY <1>1, <2>1, <2>4, <2>6 DEF RingInv
  <1> QED
    BY <1>2, <1>3

LEMMA ConsumerKeeps ==
    ASSUME RingInv, ConsumerStep
    PROVE  RingInv'
  <1>0. SpaceInv /\ WaitType /\ WaitTyped /\ Asks /\ Rings
    BY WaitTypeIs DEF RingInv
  <1>1. WaitType'
    BY <1>0, OwnStepKeepsWait, WaitTypeIs, PTL
  <1>2. SpaceInv'
    <2>1. CASE ArmDataWait \/ LookForData
      <3>1. UNCHANGED <<storage, quarantined, held, refused>>
        BY <2>1 DEF ArmDataWait, LookForData, holding
      <3> QED
        BY <1>0, <3>1, QuietKeeps
    <2>2. CASE Receive
      BY <1>0, <2>2, ReceiveKeeps
    <2>3. CASE ReleaseFails
      BY <1>0, <2>3, FailureKeeps
    <2>4. CASE \E n \in FrameNumbers : Release(n)
      BY <1>0, <2>4, ReleaseKeeps
    <2> QED
      BY <2>1, <2>2, <2>3, <2>4 DEF ConsumerStep
  <1>3. published' = published
    BY DEF ConsumerStep, Receive, ArmDataWait, LookForData, ReleaseFails, Release, storage, producerPage
  <1>4. pc'["producer"] = pc["producer"]
    <2>1. pc' = pc \/ \E place : Goto("consumer", place)
      BY DEF ConsumerStep, Receive, ArmDataWait, LookForData, ReleaseFails, Release, waiting, Found, Missed
    <2> QED
      BY <1>0, <2>1 DEF Goto, WaitTyped, Sides
  <1>5. signals'["producer"] = signals["producer"]
    <2>1. signals' = signals \/ \E c : signals' = [signals EXCEPT !["consumer"] = c]
      BY DEF ConsumerStep, Receive, ArmDataWait, LookForData, ReleaseFails, Release, Signal
    <2> QED
      BY <1>0, <2>1 DEF WaitTyped, Sides
  <1>6. Asks' /\ Rings'
    BY <1>0, <1>3, <1>4, <1>5 DEF Asks, Rings
  <1> QED
    BY <1>1, <1>2, <1>6 DEF RingInv

LEMMA InitRing == Init => RingInv
  <1>1. Init => Rings
    BY DEF Init, Rings, NoSignal, Sides
  <1> QED
    BY <1>1, InitSpace DEF RingInv

LEMMA RingInductive == RingInv /\ [Next]_vars => RingInv'
  <1> SUFFICES ASSUME RingInv, [Next]_vars PROVE RingInv'
    OBVIOUS
  <1>1. CASE UNCHANGED vars
    <2>1. UNCHANGED <<storage, quarantined, held, refused>> /\ UNCHANGED <<wake, pc, seen, signals, bound, published>>
      BY <1>1 DEF vars, waiting, holding, storage, producerPage
    <2>2. SpaceInv'
      BY <2>1, QuietKeeps DEF RingInv
    <2>3. WaitType' /\ Asks' /\ Rings'
      BY <2>1 DEF RingInv, WaitType, Asks, Rings
    <2> QED
      BY <2>2, <2>3 DEF RingInv
  <1>2. CASE Next
    BY <1>2, SideStep, ProducerKeeps, ConsumerKeeps DEF Next
  <1> QED
    BY <1>1, <1>2

\* The ring never leaves its type: cursors in order, at most Arena bytes between
\* the arena cursors, at most MaxLeases leases (Ring, ProducerPage, ConsumerPage,
\* ReclaimPage).
THEOREM RingTypeCorrect == Spec => []TypeOK
  <1>1. RingInv => TypeOK
    BY TypeSplit DEF RingInv, SpaceInv
  <1> QED
    BY <1>1, InitRing, RingInductive, PTL DEF Spec

\* What try_receive and reclaim_completed check of the shared state holds
\* whatever the two sides do: for every depth, arena, number of leases and of
\* frames, and also when callers reserve again while they hold a reservation.
THEOREM RingStateIsValid == Spec => []SharedStateIsValid
  <1>1. ASSUME RingInv
        PROVE  SharedStateIsValid
    <2>0. SpaceInv /\ SpaceType /\ Spans /\ Handshake
      BY <1>1 DEF RingInv, SpaceInv
    <2>1. SUFFICES ASSUME ~ quarantined
                   PROVE  /\ published # consumed => Frame(consumed + 1).state = "published"
                          /\ \A n \in (completed + 1)..LastCompleted :
                                /\ Frame(n).state = "pending" /\ Frame(n).sequence = n
                                /\ Frame(n).start = IF n = completed + 1 THEN reclaimed
                                                    ELSE Frame(n - 1).start + Frame(n - 1).length
      BY DEF SharedStateIsValid
    <2>2. /\ completed \in Nat /\ consumed \in Nat /\ published \in Nat
          /\ completed <= consumed /\ consumed <= published
      BY <2>0, Cursors
    <2>3. /\ LastCompleted \in Nat /\ LastCompleted <= consumed
          /\ \A k \in (completed + 1)..LastCompleted : Frame(k).completion = k
      BY <2>0, HeadRun
    <2>4. ASSUME published # consumed
          PROVE  Frame(consumed + 1).state = "published"
      <3>1. consumed + 1 \in Live /\ consumed + 1 > consumed
        BY <2>2, <2>4 DEF Live
      <3> QED
        BY <2>0, <2>1, <3>1 DEF Handshake
    <2>5. ASSUME NEW n \in (completed + 1)..LastCompleted
          PROVE  /\ Frame(n).state = "pending" /\ Frame(n).sequence = n
                 /\ Frame(n).start = IF n = completed + 1 THEN reclaimed
                                     ELSE Frame(n - 1).start + Frame(n - 1).length
      <3>1. n \in Live /\ ~(n > consumed) /\ n \in Int
        BY <2>2, <2>3 DEF Live
      <3>2. Frame(n).state = "pending"
        BY <2>0, <2>1, <2>3, <3>1 DEF Handshake
      <3>3. Frame(n).sequence = n /\ Frame(n).start = EndOf(n - 1)
        BY <2>0, <3>1 DEF Spans
      <3>4. n - 1 = completed <=> n = completed + 1
        BY <2>2, <3>1
      <3> QED
        BY <3>2, <3>3, <3>4 DEF EndOf
    <2> QED
      BY <2>4, <2>5
  <1> QED
    BY <1>1, InitRing, RingInductive, PTL DEF Spec

----------------------------------------------------------------------------
(* Parks that stand *)

Targets(to) == {to[i] : i \in 1..Len(to)}

\* A side under its park that has looked for the second time.
Waiting(s) == pc[s] \in {"cmp2", "blocked"} /\ ~ quarantined /\ wake[s].parked # 0

Answered == \A s \in Sides : (Waiting(s) /\ HasCause(s)) => Called(s)

LEMMA TargetsAre ==
    /\ Targets(<<>>) = {} /\ Targets(<<"consumer">>) = {"consumer"}
    /\ Targets(<<"producer", "consumer">>) = {"producer", "consumer"}
  <1>1. Targets(<<>>) = {}
    BY DEF Targets
  <1>2. Targets(<<"consumer">>) = {"consumer"}
    BY DEF Targets
  <1>3. Targets(<<"producer", "consumer">>) = {"producer", "consumer"}
    <2> DEFINE q == <<"producer", "consumer">>
    <2>1. Len(q) = 2 /\ q[1] = "producer" /\ q[2] = "consumer"
      OBVIOUS
    <2> HIDE DEF q
    <2>2. \A i : i \in 1..2 <=> i = 1 \/ i = 2
      OBVIOUS
    <2>3. Targets(q) = {"producer", "consumer"}
      BY <2>1, <2>2 DEF Targets
    <2> QED
      BY <2>3 DEF q
  <1> QED
    BY <1>1, <1>2, <1>3

LEMMA TargetsNext ==
    ASSUME NEW to \in CallLists, to # <<>>
    PROVE  Targets(to) = {Head(to)} \cup Targets(Tail(to))
  <1>1. CASE to = <<"consumer">>
    <2>1. Head(to) = "consumer" /\ Tail(to) = <<>>
      BY <1>1
    <2> QED
      BY <1>1, <2>1, TargetsAre
  <1>2. CASE to = <<"producer", "consumer">>
    <2>1. Head(to) = "producer"
      BY <1>2
    <2>2. Tail(to) = <<"consumer">>
      BY <1>2
    <2> QED
      BY <1>2, <2>1, <2>2, TargetsAre
  <1> QED
    BY <1>1, <1>2 DEF CallLists

LEMMA CalledIs ==
    ASSUME NEW s
    PROVE  Called(s) <=> (wake[s].bell \/ \E t \in Sides : s \in Targets(signals[t].to))
  BY DEF Called, Targets

LEMMA StaysCalled ==
    ASSUME NEW s, wake'[s] = wake[s],
           \A t \in Sides : s \in Targets(signals[t].to) => s \in Targets(signals'[t].to),
           Called(s)
    PROVE  Called(s)'
  <1>1. wake[s].bell \/ \E t \in Sides : s \in Targets(signals[t].to)
    BY CalledIs
  <1>2. wake'[s].bell \/ \E t \in Sides : s \in Targets(signals'[t].to)
    BY <1>1, Zenon
  <1> QED
    BY <1>2, Zenon DEF Called, Targets

\* What capacity and data depend on.
LEMMA SameCause ==
    ASSUME UNCHANGED <<storage, quarantined, bound, held>>, NEW s
    PROVE  HasCause(s)' <=> HasCause(s)
  <1>1. UNCHANGED <<slot, published, arenaWrite, consumed, activeLeases, completed, reclaimed>>
    BY DEF storage, producerPage, consumerPage, reclaimPage
  <1>2. LastCompleted' = LastCompleted
    BY <1>1 DEF LastCompleted, Frame, slotOf
  <1>3. RunEnd' = RunEnd
    BY <1>1, <1>2 DEF RunEnd, Frame, slotOf
  <1>4. Freed' = Freed
    BY <1>1, <1>2 DEF Freed, slotOf
  <1>5. ReclaimedSlots' = ReclaimedSlots
    BY <1>1, <1>4 DEF ReclaimedSlots
  <1>6. slotOf(published + 1)' = slotOf(published + 1)
    BY <1>1 DEF slotOf
  <1>7. Fits' <=> Fits
    BY <1>1, <1>2, <1>3, <1>5, <1>6 DEF Fits
  <1>8. dataAvailable' <=> dataAvailable
    BY <1>1 DEF dataAvailable
  <1> QED
    BY <1>7, <1>8 DEF HasCause

LEMMA SideAnswers ==
    ASSUME RingInv, Answered, NEW s \in Sides, WaitStep(s) \/ SignalStep(s) \/ WaitEnds(s)
    PROVE  Answered'
  <1>0. WaitTyped /\ UNCHANGED <<storage, quarantined, bound, held>>
    BY SideStep, WaitTypeIs DEF RingInv, holding
  <1>1. \A u : HasCause(u)' <=> HasCause(u)
    BY <1>0, SameCause
  <1>2. SUFFICES ASSUME NEW u \in Sides, Waiting(u)', HasCause(u)
                 PROVE  Called(u)'
    BY <1>1 DEF Answered
  <1>3. CASE WaitStep(s) \/ WaitEnds(s)
    <2>1. signals' = signals
      BY <1>0, <1>3, SideKeepsWait
    <2>2. CASE u # s
      <3>1. pc'[u] = pc[u] /\ wake'[u] = wake[u]
        BY <1>0, <1>3, <2>2 DEF WaitStep, ReadGeneration, Park, Compare, Drain, Wakes, Unpark, WaitEnds, GivesUp, OtherEvent, DrainFails,
               Interrupted, Goto, WaitTyped
      <3>2. Called(u)
        BY <1>0, <1>2, <3>1 DEF Answered, Waiting
      <3> QED
        BY <2>1, <3>1, <3>2, StaysCalled
    <2>3. CASE u = s
      <3>1. Compare(s) /\ pc[s] = "cmp2"
        <4>1. pc'[s] \in {"cmp2", "blocked"} /\ pc \in [Sides -> Waits]
          BY <1>0, <1>2, <2>3 DEF Waiting, WaitTyped
        <4>2. ~ReadGeneration(s) /\ ~Park(s) /\ ~Wakes(s) /\ ~WaitEnds(s)
          BY <4>1 DEF ReadGeneration, Park, Wakes, WaitEnds, GivesUp, OtherEvent, Interrupted, DrainFails, Goto
        <4>3. ~Drain(s) /\ ~Unpark(s)
          BY <4>1 DEF Drain, Unpark, Goto
        <4>4. Compare(s)
          BY <1>3, <4>2, <4>3 DEF WaitStep
        <4>5. pc[s] = "cmp2"
          BY <4>1, <4>4 DEF Compare, Goto
        <4> QED
          BY <4>4, <4>5
      <3>2. wake' = wake
        BY <3>1 DEF Compare
      <3>3. Called(u)
        BY <1>0, <1>2, <2>3, <3>1, <3>2 DEF Answered, Waiting
      <3> QED
        BY <2>1, <3>2, <3>3, StaysCalled
    <2> QED
      BY <2>2, <2>3
  <1>4. CASE SignalStep(s)
    <2> DEFINE c == signals[s]
               h == Head(c.to)
    <2>1. c \in CallRecord /\ c.to \in CallLists /\ c.to # <<>>
      BY <1>0, <1>4 DEF WaitTyped, CallRecord, SignalStep, Bump, SwapPark, Ring, Free
    <2>2. h \in Sides /\ Targets(c.to) = {h} \cup Targets(Tail(c.to))
      BY <2>1, CallsNext, TargetsNext
    <2>3. pc' = pc
      BY <1>4 DEF SignalStep, Bump, SwapPark, Ring
    <2>4. signals \in [Sides -> CallRecord] /\ wake \in [Sides -> WakeRecord]
      BY <1>0 DEF WaitTyped
    <2>5. signals'[s].to \in {c.to, Tail(c.to)} /\ \A t \in Sides : t # s => signals'[t] = signals[t]
      <3>1. \/ signals' = [signals EXCEPT ![s] = [c EXCEPT !.at = "swap"]]
            \/ signals' = [signals EXCEPT ![s] = [to |-> c.to, at |-> "ring"]]
            \/ signals' = [signals EXCEPT ![s] = [to |-> Tail(c.to), at |-> "bump"]]
        BY <1>4, <2>4 DEF SignalStep, Bump, SwapPark, Ring
      <3>2. [c EXCEPT !.at = "swap"].to = c.to
        BY <2>1 DEF CallRecord
      <3>3. PICK d : signals' = [signals EXCEPT ![s] = d] /\ d.to \in {c.to, Tail(c.to)}
        <4> HIDE DEF c
        <4>1. [to |-> c.to, at |-> "ring"].to = c.to /\ [to |-> Tail(c.to), at |-> "bump"].to = Tail(c.to)
          OBVIOUS
        <4> QED
          BY <3>1, <3>2, <4>1, Zenon
      <3> QED
        BY <2>4, <3>3
    <2> HIDE DEF h
    <2>6. CASE u # h
      <3>1. wake'[u] = wake[u]
        BY <1>4, <2>2, <2>4, <2>6 DEF SignalStep, Bump, SwapPark, Ring, h
      <3>2. Called(u)
        BY <1>0, <1>2, <2>3, <3>1 DEF Answered, Waiting
      <3>3. \A t \in Sides : u \in Targets(signals[t].to) => u \in Targets(signals'[t].to)
        BY <2>2, <2>5, <2>6
      <3> QED
        BY <3>1, <3>2, <3>3, StaysCalled
    <2>7. CASE u = h
      <3>1. CASE Bump(s)
        <4>1. wake'[h].parked = wake[h].parked /\ wake'[h].bell = wake[h].bell
          <5>1. wake' = [wake EXCEPT ![h].generation = @ + 1]
            BY <3>1 DEF Bump, h
          <5>2. wake[h] \in WakeRecord /\ wake'[h] = [wake[h] EXCEPT !.generation = @ + 1]
            BY <2>2, <2>4, <5>1
          <5> QED
            BY <5>2 DEF WakeRecord
        <4>2. signals'[s].to = c.to
          BY <2>1, <2>4, <3>1 DEF Bump, CallRecord
        <4>3. Called(u)
          BY <1>0, <1>2, <2>3, <2>7, <4>1 DEF Answered, Waiting
        <4>4. wake'[u].bell \/ \E t \in Sides : u \in Targets(signals'[t].to)
          BY <2>1, <2>2, <2>7, <4>2
        <4> QED
          BY <4>4, Zenon DEF Called, Targets
      <3>2. CASE SwapPark(s)
        <4>1. wake'[h].parked = 0
          BY <2>2, <2>4, <3>2 DEF SwapPark, h, WakeRecord
        <4> QED
          BY <1>2, <2>7, <4>1 DEF Waiting
      <3>3. CASE Ring(s)
        <4>1. wake' = [wake EXCEPT ![h].bell = TRUE] /\ wake[h] \in WakeRecord
          BY <2>2, <2>4, <3>3 DEF Ring, h
        <4>2. wake'[h] = [wake[h] EXCEPT !.bell = TRUE]
          BY <2>2, <2>4, <4>1
        <4>3. wake'[h].bell
          BY <4>1, <4>2, Zenon DEF WakeRecord
        <4> QED
          BY <2>7, <4>3, Zenon DEF Called
      <3> QED
        BY <1>4, <3>1, <3>2, <3>3 DEF SignalStep
    <2> QED
      BY <2>6, <2>7
  <1> QED
    BY <1>3, <1>4

\* A look for capacity that finds none leaves none behind: reclaiming at once
\* again would free nothing.
LEMMA MissIsFinal ==
    ASSUME RingInv, TryReserve, ~ Fits
    PROVE  ~ Fits'
  <1> DEFINE L == LastCompleted
  <1>0. SpaceInv /\ WaitType /\ SpaceType
    BY DEF RingInv, SpaceInv
  <1>1. /\ L \in Nat /\ completed <= L /\ L <= completed + Depth
        /\ L = completed + Depth \/ Frame(L + 1).completion # L + 1
    BY <1>0, HeadRun
  <1>2. /\ slot' \in [Slots -> SlotRecord]
        /\ completed' = L /\ reclaimed' = RunEnd
        /\ UNCHANGED <<published, arenaWrite, quarantined>>
        /\ \A n \in (L + 1)..(L + Depth) :
              Frame(n)'.completion = n => Frame(n).completion = n /\ n <= completed + Depth
    BY <1>0, FramesAfterTry
  <1>3. slot' = ReclaimedSlots /\ bound' = bound
    BY DEF TryReserve
  <1>4. LastCompleted' = LastOf(slot', completed')
    BY DEF LastCompleted, LastOf, Frame, slotOf
  <1> HIDE DEF L
  <1>5. LastCompleted' = L
    <2>1. Depth \in Nat \ {0} /\ completed \in Nat
      BY <1>0, Cursors
    <2>2. L + 1 \in (L + 1)..(L + Depth) /\ (L + 1 <= completed + Depth => L # completed + Depth)
      BY <1>1, <2>1
    <2>3. ASSUME NEW n, n = L + 1
          PROVE  slot'[slotOf(n)].completion # n
      <3>1. Frame(n)'.completion # n
        BY <1>1, <1>2, <2>2, <2>3
      <3> QED
        BY <3>1 DEF Frame, slotOf
    <2>4. L \in L..(L + Depth) /\ \A k \in (L + 1)..L : slot'[slotOf(k)].completion = k
      BY <1>1, <2>1
    <2>5. slot'[slotOf(L + 1)].completion # L + 1
      BY <2>3
    <2>6. LastOf(slot', L) = L
      BY <1>1, <2>4, <2>5, LastIsUnique
    <2> QED
      BY <1>2, <1>4, <2>6
  <1>6. RunEnd' = RunEnd
    BY <1>2, <1>5 DEF RunEnd
  <1>7. ReclaimedSlots' = ReclaimedSlots
    <2>1. Freed' = {}
      <3>1. Freed' = {slotOf(n)' : n \in (completed' + 1)..LastCompleted'}
        BY DEF Freed, slotOf
      <3>2. (completed' + 1)..LastCompleted' = {}
        BY <1>1, <1>2, <1>5
      <3> QED
        BY <3>1, <3>2
    <2>2. ReclaimedSlots' = [i \in Slots |-> slot'[i]]
      BY <2>1 DEF ReclaimedSlots
    <2>3. slot' = [i \in Slots |-> slot'[i]]
      BY <1>2
    <2> QED
      BY <1>3, <2>2, <2>3
  <1>8. slotOf(published + 1)' = slotOf(published + 1)
    BY <1>2 DEF slotOf
  <1> QED
    BY <1>2, <1>3, <1>5, <1>6, <1>7, <1>8 DEF Fits, L

LEMMA ProducerAnswers ==
    ASSUME RingInv, Answered, ProducerStep
    PROVE  Answered'
  <1>0. WaitTyped /\ "producer" \in Sides /\ "consumer" \in Sides /\ Sides = {"producer", "consumer"}
    BY WaitTypeIs DEF RingInv, Sides
  <1>1. ASSUME Waiting("producer")', HasCause("producer")'
        PROVE  FALSE
    <2>1. pc'["producer"] \in {"cmp2", "blocked"} /\ ~ quarantined'
      BY <1>1 DEF Waiting
    <2>2. pc \in [Sides -> Waits]
      BY <1>0 DEF WaitTyped
    <2>3. ~Reserve /\ ~DeadlinePasses /\ ~TryQuarantined /\ ~ReclaimFails /\ ~CommitFails
      BY <1>0, <2>1, <2>2 DEF Reserve, DeadlinePasses, TryQuarantined, ReclaimFails, CommitFails, Goto, Found
    <2>4. ~Write /\ ~Commit /\ ~Abort
      BY <2>1 DEF Write, Commit, Abort, waiting
    <2>5. TryReserve
      BY <2>3, <2>4 DEF ProducerStep
    <2>6. ~ Fits
      BY <1>0, <2>1, <2>2, <2>5 DEF TryReserve, Goto, Found
    <2>7. ~ Fits'
      BY <2>5, <2>6, MissIsFinal
    <2> QED
      BY <1>1, <2>7 DEF HasCause
  <1>2. ASSUME Waiting("consumer")', HasCause("consumer")'
        PROVE  Called("consumer")'
    <2>1. pc'["consumer"] = pc["consumer"]
      <3>1. pc' = pc \/ \E place : Goto("producer", place)
        BY DEF ProducerStep, Reserve, TryReserve, ReclaimFails, TryQuarantined, DeadlinePasses,
               Write, Commit, CommitFails, Abort, waiting, Found, Missed
      <3> QED
        BY <1>0, <3>1 DEF Goto, WaitTyped
    <2>2. wake'["consumer"] = wake["consumer"]
      <3>1. wake' = wake \/ wake' = [wake EXCEPT !["producer"].parked = 0]
        BY DEF ProducerStep, Reserve, TryReserve, ReclaimFails, TryQuarantined, DeadlinePasses,
               Write, Commit, CommitFails, Abort, waiting
      <3> QED
        BY <1>0, <3>1 DEF WaitTyped
    <2>3. CASE Commit
      <3>1. signals'["producer"].to = <<"consumer">>
        BY <1>0, <2>3 DEF Commit, Signal, WaitTyped
      <3>2. "consumer" \in Targets(signals'["producer"].to)
        BY <3>1, TargetsAre
      <3> QED
        BY <1>0, <3>2 DEF Called, Targets
    <2>4. CASE ~Commit
      <3>1. ~ quarantined' /\ quarantined' \in {TRUE, quarantined}
        BY <1>2, <2>4 DEF Waiting, ProducerStep, Reserve, TryReserve, ReclaimFails, TryQuarantined,
               DeadlinePasses, Write, CommitFails, Abort
      <3>2. UNCHANGED <<signals, published, consumed, activeLeases>>
        BY <2>4, <3>1 DEF ProducerStep, Reserve, TryReserve, ReclaimFails, TryQuarantined, DeadlinePasses,
               Write, CommitFails, Abort, storage, producerPage, consumerPage
      <3>3. HasCause("consumer")
        BY <1>2, <3>2 DEF HasCause, dataAvailable
      <3>4. Waiting("consumer")
        <4>1. ~ quarantined
          BY <3>1, Zenon
        <4> QED
          BY <1>2, <2>1, <2>2, <4>1 DEF Waiting
      <3>5. Called("consumer")
        BY <1>0, <3>3, <3>4 DEF Answered
      <3> QED
        BY <2>2, <3>2, <3>5, StaysCalled
    <2> QED
      BY <2>3, <2>4
  <1> QED
    BY <1>0, <1>1, <1>2 DEF Answered

\* Taking a frame makes no room.
LEMMA ReceiveMakesNoRoom ==
    ASSUME RingInv, Receive, Fits'
    PROVE  Fits
  <1> DEFINE L == LastCompleted
             m == consumed + 1
  <1>0. SpaceInv /\ SpaceType /\ slot \in [Slots -> SlotRecord]
    BY DEF RingInv, SpaceInv, SpaceType
  <1>1. slot' = [slot EXCEPT ![slotOf(m)].state = "leased"]
        /\ UNCHANGED <<published, arenaWrite, completed, reclaimed, quarantined, bound>>
    BY DEF Receive, producerPage, reclaimPage, holding
  <1>2. slotOf(m) \in Slots /\ m \in Int
    BY <1>0, Cursors
  <1>3. ASSUME NEW i \in Slots
        PROVE  /\ slot'[i].completion = slot[i].completion /\ slot'[i].start = slot[i].start
               /\ slot'[i].length = slot[i].length
               /\ slot'[i].state \in {"leased", slot[i].state}
    <2>1. CASE i = slotOf(m)
      <3>1. slot'[i] = [slot[i] EXCEPT !.state = "leased"] /\ slot[i] \in SlotRecord
        BY <1>0, <1>1, <1>2, <2>1
      <3> QED
        BY <3>1 DEF SlotRecord
    <2>2. CASE i # slotOf(m)
      BY <1>0, <1>1, <1>2, <2>2
    <2> QED
      BY <2>1, <2>2
  <1>4. \A n \in Int : slotOf(n) \in Slots
    BY <1>0, Cursors
  <1>5. LastCompleted' = LastCompleted
    <2>1. /\ L \in completed..(completed + Depth)
          /\ \A k \in (completed + 1)..L : slot[slotOf(k)].completion = k
          /\ L = completed + Depth \/ slot[slotOf(L + 1)].completion # L + 1
      <3>1. L \in Nat /\ completed <= L /\ L <= completed + Depth
        BY <1>0, HeadRun
      <3>2. L \in completed..(completed + Depth)
        BY <1>0, <3>1, Cursors
      <3> QED
        BY <1>0, <3>2, HeadRun DEF Frame
    <2> HIDE DEF L
    <2>2. completed \in Nat /\ L \in Int /\ \A k \in (completed + 1)..L : k \in Int
      BY <1>0, <2>1, Cursors
    <2>3. /\ \A k \in (completed + 1)..L : slot'[slotOf(k)].completion = k
          /\ L = completed + Depth \/ slot'[slotOf(L + 1)].completion # L + 1
      BY <1>3, <1>4, <2>1, <2>2
    <2>4. LastOf(slot', completed) = L
      BY <2>1, <2>2, <2>3, LastIsUnique
    <2>5. LastCompleted' = LastOf(slot', completed)
      BY <1>1 DEF LastCompleted, LastOf, Frame, slotOf
    <2> QED
      BY <2>4, <2>5 DEF L
  <1>6. L \in Nat
    BY <1>0, HeadRun
  <1>7. RunEnd' = RunEnd
    <2>1. slot'[slotOf(L)].start = slot[slotOf(L)].start /\ slot'[slotOf(L)].length = slot[slotOf(L)].length
      BY <1>3, <1>4, <1>6
    <2> QED
      BY <1>1, <1>5, <2>1 DEF RunEnd, Frame, slotOf
  <1>8. Freed' = Freed
    BY <1>1, <1>5 DEF Freed, slotOf
  <1> DEFINE j == slotOf(published + 1)
  <1>9. j \in Slots /\ slotOf(published + 1)' = j
    BY <1>0, <1>1, Cursors DEF slotOf
  <1>10. ReclaimedSlots'[j].state = "free" => ReclaimedSlots[j].state = "free"
    <2> HIDE DEF j
    <2>1. CASE j \in Freed
      <3>1. slot[j] \in SlotRecord /\ ReclaimedSlots[j] = AsFreed(slot[j])
        BY <1>0, <1>9, <2>1 DEF ReclaimedSlots, AsFreed
      <3> QED
        BY <3>1, FreedRecord
    <2>2. CASE j \notin Freed
      <3>1. ReclaimedSlots[j] = slot[j] /\ ReclaimedSlots'[j] = slot'[j]
        BY <1>8, <1>9, <2>2 DEF ReclaimedSlots
      <3> QED
        BY <1>3, <1>9, <3>1
    <2> QED
      BY <2>1, <2>2
  <1> QED
    BY <1>1, <1>5, <1>7, <1>9, <1>10 DEF Fits

LEMMA ConsumerAnswers ==
    ASSUME RingInv, Answered, ConsumerStep
    PROVE  Answered'
  <1>0. WaitTyped /\ "producer" \in Sides /\ "consumer" \in Sides /\ Sides = {"producer", "consumer"}
    BY WaitTypeIs DEF RingInv, Sides
  <1>1. wake' = wake
    BY DEF ConsumerStep, Receive, ArmDataWait, LookForData, ReleaseFails, Release, waiting
  <1>2. CASE ReleaseFails
    BY <1>2 DEF ReleaseFails, Answered, Waiting
  <1>3. CASE \E n \in FrameNumbers : Release(n)
    <2>1. signals'["consumer"].to = <<"producer", "consumer">>
      BY <1>0, <1>3 DEF Release, Signal, WaitTyped
    <2>2. \A s \in Sides : s \in Targets(signals'["consumer"].to)
      BY <1>0, <2>1, TargetsAre
    <2>3. \A s \in Sides : Called(s)'
      BY <1>0, <2>2 DEF Called, Targets
    <2> QED
      BY <2>3 DEF Answered
  <1>4. CASE Receive \/ ArmDataWait \/ LookForData
    <2>1. signals' = signals /\ UNCHANGED <<quarantined, bound, held>>
      BY <1>4 DEF Receive, ArmDataWait, LookForData, holding
    <2>2. ASSUME Waiting("producer")', HasCause("producer")'
          PROVE  Called("producer")'
      <3>1. pc'["producer"] = pc["producer"]
        <4>1. pc' = pc \/ \E place : Goto("consumer", place)
          BY <1>4 DEF Receive, ArmDataWait, LookForData, waiting, Found, Missed
        <4> QED
          BY <1>0, <4>1 DEF Goto, WaitTyped
      <3>2. HasCause("producer")
        <4>1. CASE Receive
          BY <2>1, <2>2, <4>1, ReceiveMakesNoRoom DEF HasCause
        <4>2. CASE ArmDataWait \/ LookForData
          <5>1. UNCHANGED storage
            BY <4>2 DEF ArmDataWait, LookForData
          <5> QED
            BY <2>1, <2>2, <5>1, SameCause
        <4> QED
          BY <1>4, <4>1, <4>2
      <3>3. Waiting("producer")
        BY <1>1, <2>1, <2>2, <3>1 DEF Waiting
      <3>4. Called("producer")
        BY <1>0, <3>2, <3>3 DEF Answered
      <3> QED
        BY <1>1, <2>1, <3>4, StaysCalled
    <2>3. ASSUME Waiting("consumer")', HasCause("consumer")'
          PROVE  FALSE
      <3>1. pc'["consumer"] \in {"cmp2", "blocked"} /\ pc \in [Sides -> Waits]
        BY <1>0, <2>3 DEF Waiting, WaitTyped
      <3>2. ~Receive
        BY <3>1 DEF Receive, waiting
      <3>3. ~ArmDataWait
        BY <1>0, <3>1 DEF ArmDataWait, Goto
      <3>4. LookForData
        BY <1>4, <3>2, <3>3
      <3>5. ~ dataAvailable
        BY <1>0, <3>1, <3>4 DEF LookForData, Found, Goto
      <3>6. dataAvailable' <=> dataAvailable
        BY <3>4 DEF LookForData, dataAvailable, storage, producerPage, consumerPage
      <3> QED
        BY <2>3, <3>5, <3>6 DEF HasCause
    <2> QED
      BY <1>0, <2>2, <2>3 DEF Answered
  <1> QED
    BY <1>2, <1>3, <1>4 DEF ConsumerStep

\* The wake protocol loses no call: for every depth, arena, number of leases and
\* of frames, with failures of any doorbell or page removal, a side that sleeps
\* under a park that still stands while there is something for it has been
\* rung, or the other side is on its way to ring it (reserve_until,
\* arm_data_wait, signal_wake).
THEOREM StandingParkIsCalled == Spec => []ParkedIsCalled
  <1>1. Init => Answered
    <2>1. Init => \A s \in Sides : pc[s] = "idle"
      BY DEF Init
    <2> QED
      BY <2>1 DEF Answered, Waiting
  <1>2. RingInv /\ Answered /\ [Next]_vars => Answered'
    <2> SUFFICES ASSUME RingInv, Answered, [Next]_vars PROVE Answered'
      OBVIOUS
    <2>1. CASE UNCHANGED vars
      <3>1. UNCHANGED <<storage, quarantined, bound, held>> /\ UNCHANGED <<wake, pc, signals>>
        BY <2>1 DEF vars, holding, waiting
      <3>2. \A s : HasCause(s)' <=> HasCause(s)
        BY <3>1, SameCause
      <3>3. ASSUME NEW s \in Sides, Waiting(s)', HasCause(s)'
            PROVE  Called(s)'
        <4>1. Called(s)
          BY <3>1, <3>2, <3>3 DEF Answered, Waiting
        <4> QED
          BY <3>1, <4>1, StaysCalled
      <3> QED
        BY <3>3 DEF Answered
    <2>2. CASE Next
      BY <2>2, SideAnswers, ProducerAnswers, ConsumerAnswers DEF Next
    <2> QED
      BY <2>1, <2>2
  <1>3. Answered => ParkedIsCalled
    BY DEF Answered, Waiting, ParkedIsCalled, Asleep
  <1> QED
    BY <1>1, <1>2, <1>3, InitRing, RingInductive, PTL DEF Spec

----------------------------------------------------------------------------
(* Bytes *)

IntactIn(bytes, n, start, body) == \A x \in Bytes(start, start + body) : bytes[x] = n

\* What was written for a frame is there until the frame is completed, and what
\* was written into a reservation until it is committed.
Contents ==
    /\ \A n \in Live : /\ Frame(n).body <= Frame(n).length
                       /\ Frame(n).completion # n => IntactIn(arena, n, Frame(n).start, Frame(n).body)
    /\ \A r \in held : r.body # -1 => r.body <= r.length /\ IntactIn(arena, r.sequence, r.start, r.body)

\* A caller that waits for capacity has no reservation, unless callers nest them.
OneAtATime == pc["producer"] \notin {"idle", "leave"} => held = {}

\* Spans that follow each other within an arena's length share no byte.
LEMMA BytesApart ==
    ASSUME NEW a \in Nat, NEW b \in Nat, NEW c \in Nat, NEW d \in Nat, b <= c, d <= a + Arena,
           NEW x \in Bytes(a, b), x \in Bytes(c, d)
    PROVE  FALSE
  <1>0. Arena \in Nat \ {0}
    BY Constants
  <1>1. PICK y \in a..(b - 1) : x = y % Arena
    BY DEF Bytes
  <1>2. PICK z \in c..(d - 1) : x = z % Arena
    BY DEF Bytes
  <1>3. y \in Int /\ z \in Int /\ y < z /\ z - y < Arena
    BY <1>0
  <1>4. z - y >= Arena
    BY <1>0, <1>1, <1>2, <1>3, ModInjective
  <1> QED
    BY <1>0, <1>3, <1>4

LEMMA ByteExists ==
    ASSUME NEW a \in Nat, NEW b \in Nat, NEW x \in Bytes(a, b)
    PROVE  x \in 0..(Arena - 1)
  <1>1. PICK y \in a..(b - 1) : x = y % Arena
    BY DEF Bytes
  <1>2. y \in Int /\ Arena \in Nat \ {0}
    BY Constants
  <1>3. y % Arena \in 0..(Arena - 1)
    BY <1>2, DivMod
  <1> QED
    BY <1>1, <1>3

LEMMA NoBytes ==
    ASSUME NEW a \in Nat, NEW b \in Int, b <= a
    PROVE  Bytes(a, b) = {}
  <1>1. a..(b - 1) = {}
    OBVIOUS
  <1> QED
    BY <1>1 DEF Bytes

LEMMA MoreBytes ==
    ASSUME NEW a \in Nat, NEW b \in Nat, NEW c \in Nat, NEW d \in Nat, c <= a, b <= d
    PROVE  Bytes(a, b) \subseteq Bytes(c, d)
  <1>1. a..(b - 1) \subseteq c..(d - 1)
    OBVIOUS
  <1> QED
    BY <1>1 DEF Bytes

\* Whole pages of a span are inside it.
LEMMA PagesInside ==
    ASSUME NEW from \in Nat, NEW to \in Nat
    PROVE  WholePages(from, to) \subseteq Bytes(from, to)
  <1>0. PageSize \in Nat \ {0}
    BY Constants
  <1>1. ASSUME NEW x \in WholePages(from, to)
        PROVE  x \in Bytes(from, to)
    <2>1. PICK p \in {q \in 0..(to \div PageSize) : from <= q * PageSize /\ (q + 1) * PageSize <= to} :
             x \in Bytes(p * PageSize, (p + 1) * PageSize)
      BY <1>1 DEF WholePages
    <2>2. to \div PageSize \in Int
      BY <1>0, DivMod
    <2>3. p \in Nat /\ from <= p * PageSize /\ (p + 1) * PageSize <= to
      BY <2>1, <2>2
    <2>4. p * PageSize \in Nat /\ (p + 1) * PageSize \in Nat
      BY <1>0, <2>3
    <2> QED
      BY <2>1, <2>3, <2>4, MoreBytes
  <1> QED
    BY <1>1

\* Where a live frame lies.
LEMMA FrameSpan ==
    ASSUME SpaceInv, NEW n \in Live
    PROVE  /\ Frame(n).start \in Nat /\ Frame(n).length \in Nat /\ Frame(n).body \in Nat
           /\ reclaimed <= Frame(n).start /\ Frame(n).start + Frame(n).length <= arenaWrite
           /\ Frame(n).completion # n => RunEnd <= Frame(n).start
  <1>0. SpaceType /\ Spans
    BY DEF SpaceInv
  <1>1. completed \in Nat /\ published \in Nat /\ n \in Int /\ completed < n /\ n <= published
    BY <1>0, Cursors DEF Live
  <1>2. /\ EndOf(n - 1) \in Nat /\ Frame(n).start \in Nat /\ Frame(n).length \in Nat /\ Frame(n).body \in Nat
        /\ EndOf(completed) = reclaimed /\ EndOf(published) = arenaWrite
    <2>1. Frame(n) \in SlotRecord
      BY <1>0, <1>1, Cursors
    <2>2. Frame(n).start \in Nat /\ Frame(n).length \in Nat /\ Frame(n).body \in Nat
      BY <2>1, Constants DEF SlotRecord
    <2>3. n - 1 \in Int
      BY <1>1
    <2> QED
      BY <1>0, <2>2, <2>3, EndsAreNumbers DEF Spans, EndOf
  <1>3. Frame(n).start = EndOf(n - 1) /\ Frame(n).start + Frame(n).length = EndOf(n)
    <2>1. n # completed
      BY <1>1
    <2> QED
      BY <1>0, <2>1 DEF Spans, EndOf
  <1>4. EndOf(completed) <= EndOf(n - 1) /\ EndOf(n) <= EndOf(published)
    <2>1. /\ completed \in completed..published /\ n - 1 \in completed..published
          /\ n \in completed..published /\ published \in n..published
      BY <1>1
    <2> QED
      BY <1>0, <2>1 DEF Spans
  <1>5. ASSUME Frame(n).completion # n
        PROVE  RunEnd <= Frame(n).start
    <2>1. /\ LastCompleted \in Nat /\ completed <= LastCompleted
          /\ \A k \in (completed + 1)..LastCompleted : Frame(k).completion = k
          /\ RunEnd = EndOf(LastCompleted)
      BY HeadRun
    <2>2. LastCompleted < n
      <3>1. SUFFICES ASSUME n <= LastCompleted PROVE FALSE
        BY <1>1, <2>1
      <3>2. n \in (completed + 1)..LastCompleted
        BY <1>1, <2>1, <3>1
      <3> QED
        BY <1>5, <2>1, <3>2
    <2>3. LastCompleted \in completed..published /\ n - 1 \in LastCompleted..published
      BY <1>1, <2>1, <2>2
    <2>4. EndOf(LastCompleted) <= EndOf(n - 1)
      BY <1>0, <2>3 DEF Spans
    <2> QED
      BY <1>3, <2>1, <2>4
  <1> QED
    BY <1>2, <1>3, <1>4, <1>5

\* The bytes of a frame that is not completed survive page removal.
LEMMA RemovalSpares ==
    ASSUME SpaceInv, NEW n \in Live, Frame(n).completion # n, Frame(n).body <= Frame(n).length,
           NEW x \in Bytes(Frame(n).start, Frame(n).start + Frame(n).body)
    PROVE  x \notin Removed /\ x \notin WholePages(reclaimed, RunEnd)
  <1> DEFINE s == Frame(n).start
             e == Frame(n).start + Frame(n).body
  <1>1. /\ s \in Nat /\ e \in Nat /\ RunEnd <= s /\ e <= arenaWrite
        /\ Frame(n).body \in Nat
    <2>1. /\ Frame(n).start \in Nat /\ Frame(n).length \in Nat /\ Frame(n).body \in Nat
          /\ Frame(n).start + Frame(n).length <= arenaWrite /\ RunEnd <= Frame(n).start
      BY FrameSpan
    <2>2. arenaWrite \in Nat
      BY Cursors DEF SpaceInv
    <2> QED
      BY <2>1, <2>2
  <1>2. reclaimed \in Nat /\ RunEnd \in Nat /\ arenaWrite \in Nat /\ arenaWrite <= reclaimed + Arena /\ Arena \in Nat
    BY HeadRun, Cursors DEF SpaceInv
  <1> HIDE DEF s, e
  <1>3. x \notin Bytes(reclaimed, RunEnd)
    <2>1. x \in Bytes(s, e) /\ e <= reclaimed + Arena
      BY <1>1, <1>2 DEF s, e
    <2> QED
      BY <1>1, <1>2, <2>1, BytesApart
  <1>4. x \notin WholePages(reclaimed, RunEnd)
    <2>1. WholePages(reclaimed, RunEnd) \subseteq Bytes(reclaimed, RunEnd)
      BY <1>2, PagesInside
    <2> QED
      BY <1>3, <2>1
  <1>5. arenaWrite # RunEnd
    <2>1. SUFFICES ASSUME arenaWrite = RunEnd PROVE FALSE
      OBVIOUS
    <2>2. Bytes(s, e) = {}
      BY <1>1, <1>2, <2>1, NoBytes
    <2> QED
      BY <2>2 DEF s, e
  <1>6. FirstPage(reclaimed, RunEnd) = {}
    BY <1>5 DEF FirstPage
  <1> QED
    BY <1>4, <1>6 DEF Removed

----------------------------------------------------------------------------
(* Contents *)

\* Live frames keep their descriptors, the uncompleted ones their bytes.
LEMMA ContentsStay ==
    ASSUME Contents, \A n \in Live' : n \in Live,
           \A n \in Live' :
              /\ Frame(n)'.start = Frame(n).start /\ Frame(n)'.length = Frame(n).length
              /\ Frame(n)'.body = Frame(n).body
              /\ Frame(n)'.completion # n => Frame(n).completion # n,
           \A n \in Live' : Frame(n).completion # n =>
              \A x \in Bytes(Frame(n).start, Frame(n).start + Frame(n).body) : arena'[x] = arena[x],
           \A r \in held' : r.body # -1 => r.body <= r.length /\ IntactIn(arena', r.sequence, r.start, r.body)
    PROVE  Contents'
  <1>1. ASSUME NEW n \in Live'
        PROVE  /\ Frame(n)'.body <= Frame(n)'.length
               /\ Frame(n)'.completion # n => IntactIn(arena', n, Frame(n)'.start, Frame(n)'.body)
    <2>1. /\ Frame(n).body <= Frame(n).length
          /\ Frame(n).completion # n => IntactIn(arena, n, Frame(n).start, Frame(n).body)
      BY DEF Contents
    <2>2. ASSUME Frame(n).completion # n
          PROVE  IntactIn(arena', n, Frame(n).start, Frame(n).body)
      BY <2>1, <2>2 DEF IntactIn
    <2> QED
      BY <2>1, <2>2
  <1> QED
    BY <1>1 DEF Contents

\* The arena and the reservation stay, and what changes of the slots is no
\* descriptor of a live frame.
LEMMA SlotStepContents ==
    ASSUME SpaceInv, Contents, UNCHANGED <<arena, published, completed>>, held' \subseteq held,
           \A n \in Live :
              /\ Frame(n)'.start = Frame(n).start /\ Frame(n)'.length = Frame(n).length
              /\ Frame(n)'.body = Frame(n).body
              /\ Frame(n)'.completion # n => Frame(n).completion # n
    PROVE  Contents'
  <1>1. Live' = Live
    BY DEF Live
  <1>2. \A r \in held' : r.body # -1 => r.body <= r.length /\ IntactIn(arena', r.sequence, r.start, r.body)
    BY DEF Contents
  <1> QED
    BY <1>1, <1>2, ContentsStay

\* Reclaiming, with all of its page removal or, when it fails, with some.
LEMMA ReclaimContents ==
    ASSUME RingInv, OneAtATime, Contents, TryReserve \/ ReclaimFails
    PROVE  Contents'
  <1>0. SpaceInv /\ SpaceType /\ WaitType
    BY DEF RingInv, SpaceInv
  <1>1. held = {}
    BY DEF OneAtATime, TryReserve, ReclaimFails, Tries
  <1>2. arena \in [0..(Arena - 1) -> 0..MaxFrames]
    BY <1>0 DEF SpaceType
  <1>3. \A r \in held' : r.body = -1
    <2>1. CASE TryReserve
      BY <1>1, <2>1 DEF TryReserve
    <2>2. CASE ReclaimFails
      BY <1>1, <2>2 DEF ReclaimFails, holding
    <2> QED
      BY <2>1, <2>2
  <1>4. ASSUME NEW n \in Live, Frame(n).completion # n,
               NEW x \in Bytes(Frame(n).start, Frame(n).start + Frame(n).body)
        PROVE  arena'[x] = arena[x]
    <2>1. x \notin Removed /\ x \notin WholePages(reclaimed, RunEnd)
      <3>1. Frame(n).body <= Frame(n).length
        BY DEF Contents
      <3> QED
        BY <1>0, <1>4, <3>1, RemovalSpares
    <2>2. x \in 0..(Arena - 1)
      <3>1. Frame(n).start \in Nat /\ Frame(n).body \in Nat
        BY <1>0, FrameSpan
      <3>2. Frame(n).start + Frame(n).body \in Nat
        BY <3>1
      <3> QED
        BY <1>4, <3>1, <3>2, ByteExists
    <2>3. CASE TryReserve
      BY <1>2, <2>1, <2>2, <2>3 DEF TryReserve
    <2>4. CASE ReclaimFails
      <3>1. PICK gone \in {{}, WholePages(reclaimed, RunEnd)} :
               arena' = [z \in DOMAIN arena |-> IF z \in gone THEN 0 ELSE arena[z]]
        BY <2>4 DEF ReclaimFails
      <3> QED
        BY <1>2, <2>1, <2>2, <3>1
    <2> QED
      BY <2>3, <2>4
  <1>5. /\ \A n \in Live' : n \in Live
        /\ \A n \in Live' :
              /\ Frame(n)'.start = Frame(n).start /\ Frame(n)'.length = Frame(n).length
              /\ Frame(n)'.body = Frame(n).body
              /\ Frame(n)'.completion # n => Frame(n).completion # n
    <2>1. CASE ReclaimFails
      <3>1. UNCHANGED <<slot, published, completed>>
        BY <2>1 DEF ReclaimFails, producerPage, reclaimPage
      <3>2. Live' = Live
        BY <3>1 DEF Live
      <3> QED
        BY <3>1, <3>2 DEF Frame, slotOf
    <2>2. CASE TryReserve
      <3>1. /\ completed' = LastCompleted /\ published' = published
            /\ \A n \in Int : /\ Frame(n)'.sequence = Frame(n).sequence /\ Frame(n)'.start = Frame(n).start
                              /\ Frame(n)'.length = Frame(n).length /\ Frame(n)'.body = Frame(n).body
            /\ \A n \in (LastCompleted + 1)..published :
                  Frame(n)'.state = Frame(n).state /\ Frame(n)'.completion = Frame(n).completion
        BY <1>0, <2>2, FramesAfterTry
      <3>2. /\ LastCompleted \in Nat /\ completed <= LastCompleted /\ completed \in Nat /\ published \in Nat
        BY <1>0, HeadRun, Cursors
      <3>3. Live' = (LastCompleted + 1)..published
        BY <3>1 DEF Live
      <3>4. \A n \in (LastCompleted + 1)..published : n \in Live /\ n \in Int
        BY <3>2 DEF Live
      <3> QED
        BY <3>1, <3>3, <3>4
    <2> QED
      BY <2>1, <2>2
  <1> QED
    BY <1>3, <1>4, <1>5, ContentsStay

LEMMA WriteContents ==
    ASSUME RingInv, Contents, Write
    PROVE  Contents'
  <1>0. SpaceInv /\ SpaceType /\ HeldFits
    BY DEF RingInv, SpaceInv
  <1>1. PICK r \in held, body \in 0..Arena :
           /\ r.body = -1 /\ body <= r.length
           /\ held' = {[r EXCEPT !.body = body]}
           /\ arena' = [x \in DOMAIN arena |-> IF x \in Bytes(r.start, r.start + body)
                                               THEN r.sequence ELSE arena[x]]
    BY DEF Write
  <1>2. UNCHANGED <<slot, published, completed>>
    BY DEF Write, producerPage, reclaimPage
  <1>3. /\ r \in Reservation /\ r.start = arenaWrite /\ arenaWrite + r.length <= reclaimed + Arena
        /\ r.length \in Nat /\ body \in Nat
    BY <1>0, Constants DEF HeldFits, SpaceType, Reservation
  <1>4. reclaimed \in Nat /\ arenaWrite \in Nat /\ Arena \in Nat \ {0} /\ arena \in [0..(Arena - 1) -> 0..MaxFrames]
    BY <1>0, Cursors DEF SpaceType
  <1>5. Live' = Live /\ \A n : Frame(n)' = Frame(n)
    BY <1>2 DEF Live, Frame, slotOf
  <1>7. ASSUME NEW n \in Live, NEW x \in Bytes(Frame(n).start, Frame(n).start + Frame(n).body)
        PROVE  arena'[x] = arena[x]
    <2>1. /\ Frame(n).start \in Nat /\ Frame(n).length \in Nat /\ Frame(n).body \in Nat
          /\ reclaimed <= Frame(n).start /\ Frame(n).start + Frame(n).length <= arenaWrite
          /\ Frame(n).body <= Frame(n).length
      BY <1>0, FrameSpan DEF Contents
    <2> DEFINE s == Frame(n).start
               e == Frame(n).start + Frame(n).body
    <2>2. s \in Nat /\ e \in Nat /\ e <= arenaWrite /\ reclaimed <= s /\ x \in Bytes(s, e)
      BY <1>4, <1>7, <2>1
    <2> HIDE DEF s, e
    <2>3. arenaWrite + body \in Nat /\ arenaWrite + body <= s + Arena
      BY <1>1, <1>3, <1>4, <2>2
    <2>4. x \notin Bytes(arenaWrite, arenaWrite + body)
      BY <1>4, <2>2, <2>3, BytesApart
    <2>5. x \in 0..(Arena - 1)
      BY <2>2, ByteExists
    <2> QED
      BY <1>1, <1>3, <1>4, <2>4, <2>5
  <1> DEFINE w == [r EXCEPT !.body = body]
  <1>8. w.sequence = r.sequence /\ w.start = r.start /\ w.length = r.length /\ w.body = body
    BY <1>3 DEF Reservation
  <1>9. held' = {w}
    BY <1>1
  <1> HIDE DEF w
  <1>10. IntactIn(arena', r.sequence, r.start, body)
    <2>1. r.start \in Nat /\ r.start + body \in Nat
      BY <1>3, <1>4
    <2>2. \A x \in Bytes(r.start, r.start + body) : x \in 0..(Arena - 1)
      BY <2>1, ByteExists
    <2> QED
      BY <1>1, <1>4, <2>2 DEF IntactIn
  <1>11. \A q \in held' : q.body # -1 => q.body <= q.length /\ IntactIn(arena', q.sequence, q.start, q.body)
    BY <1>1, <1>8, <1>9, <1>10
  <1> QED
    BY <1>5, <1>7, <1>11, ContentsStay

LEMMA CommitContents ==
    ASSUME RingInv, Contents, Commit
    PROVE  Contents'
  <1>0. SpaceInv /\ SpaceType
    BY DEF RingInv, SpaceInv
  <1>1. held' = {} /\ UNCHANGED <<completed, arena>>
    BY DEF Commit, reclaimPage
  <1> DEFINE e == slot'[slotOf(published + 1)]
  <1>2. PICK r \in held :
           /\ r.body # -1 /\ r.sequence = published + 1 /\ r.start = arenaWrite
           /\ published < completed + Depth /\ published' = published + 1
           /\ \A n \in Window : n # published + 1 => Frame(n)' = Frame(n)
           /\ e.start = arenaWrite /\ e.length = r.length /\ e.body = r.body
    BY <1>0, FramesAfterCommit
  <1>3. ASSUME NEW n, n = published + 1
        PROVE  Frame(n)' = e
    BY <1>3 DEF Frame, slotOf
  <1> HIDE DEF e
  <1>4. ASSUME NEW n \in Live', n # published + 1
        PROVE  n \in Live /\ n \in Window
    <2>1. n \in (completed + 1)..(published + 1)
      BY <1>1, <1>2 DEF Live
    <2>2. completed \in Nat /\ published \in Nat /\ Depth \in Nat
      BY <1>0, Cursors
    <2>3. n \in (completed + 1)..published /\ n \in (completed + 1)..(completed + Depth)
      BY <1>2, <1>4, <2>1, <2>2
    <2> QED
      BY <2>3 DEF Live, Window
  <1>5. ASSUME NEW n \in Live'
        PROVE  /\ Frame(n)'.body <= Frame(n)'.length
               /\ Frame(n)'.completion # n => IntactIn(arena', n, Frame(n)'.start, Frame(n)'.body)
    <2>1. CASE n = published + 1
      <3>1. r.body <= r.length /\ IntactIn(arena, r.sequence, r.start, r.body)
        BY <1>2 DEF Contents
      <3> QED
        BY <1>1, <1>2, <1>3, <2>1, <3>1
    <2>2. CASE n # published + 1
      <3>1. Frame(n)' = Frame(n)
        BY <1>2, <1>4, <2>2
      <3>2. /\ Frame(n).body <= Frame(n).length
            /\ Frame(n).completion # n => IntactIn(arena, n, Frame(n).start, Frame(n).body)
        BY <1>4, <2>2 DEF Contents
      <3> QED
        BY <1>1, <3>1, <3>2
    <2> QED
      BY <2>1, <2>2
  <1> QED
    BY <1>1, <1>5 DEF Contents

----------------------------------------------------------------------------
(* Steps on the slots of live frames *)

\* Descriptor and completion of frame n after a step.
SameDescriptor(n) ==
    /\ Frame(n)'.start = Frame(n).start /\ Frame(n)'.length = Frame(n).length
    /\ Frame(n)'.body = Frame(n).body

LEMMA AbortFrames ==
    ASSUME SpaceInv, Abort
    PROVE  \A n \in Live : Frame(n)' = Frame(n)
  <1>0. SpaceType /\ HeldFits
    BY DEF SpaceInv
  <1>1. \A q \in held : q.sequence = published + 1 /\ published < completed + Depth
    BY <1>0 DEF HeldFits
  <1>2. held # {}
    BY DEF Abort
  <1>3. \A n \in Live : n \in Window /\ slotOf(n) # slotOf(published + 1)
    BY <1>1, <1>2, NextSlot
  <1>4. \A n \in Live : slotOf(n) \in Slots
    <2>1. \A n \in Live : n \in Int
      BY <1>0, Cursors DEF Live
    <2> QED
      BY <1>0, <2>1, Cursors
  <1>5. \A i \in Slots : i # slotOf(published + 1) => slot'[i] = slot[i]
    BY <1>1 DEF Abort
  <1>6. ASSUME NEW n \in Live
        PROVE  Frame(n)' = Frame(n)
    <2>1. slot'[slotOf(n)] = slot[slotOf(n)]
      BY <1>3, <1>4, <1>5
    <2> QED
      BY <2>1 DEF Frame, slotOf
  <1> QED
    BY <1>6

LEMMA CommitFailsFrames ==
    ASSUME SpaceInv, CommitFails
    PROVE  \A n \in Live : /\ SameDescriptor(n) /\ Frame(n)'.completion = Frame(n).completion
                           /\ Frame(n)'.state = IF n = published THEN "free" ELSE Frame(n).state
  <1>0. SpaceType /\ Spans
    BY DEF SpaceInv
  <1> DEFINE j == slotOf(published)
  <1>1. UNCHANGED <<published, arenaWrite, completed, reclaimed>>
    BY DEF CommitFails, producerPage, reclaimPage
  <1>2. PICK f \in SlotRecord :
           /\ slot' = [slot EXCEPT ![j] = f] /\ f.state = "free" /\ f.completion = slot[j].completion
           /\ f.sequence = slot[j].sequence /\ f.start = slot[j].start
           /\ f.length = slot[j].length /\ f.body = slot[j].body
    BY SlotAfterCommitFails
  <1>3. j \in Slots /\ completed \in Nat /\ published \in Nat /\ published <= completed + Depth /\ Depth \in Nat
    BY <1>0, Cursors DEF Spans
  <1> HIDE DEF j
  <1>4. \A n \in Int : /\ slotOf(n) # j => Frame(n)' = Frame(n)
                       /\ slotOf(n) = j => Frame(n)' = f
                       /\ Frame(n)'.start = Frame(n).start
                       /\ Frame(n)'.length = Frame(n).length /\ Frame(n)'.body = Frame(n).body
    BY <1>1, <1>2, <1>3, OneSlot
  <1>5. ASSUME NEW n \in Live
        PROVE  n \in Int /\ (slotOf(n) = j <=> n = published)
    <2>1. /\ n \in Int /\ n \in (completed + 1)..(completed + Depth)
          /\ published \in (completed + 1)..(completed + Depth)
      BY <1>3 DEF Live
    <2>2. n # published => slotOf(n) # slotOf(published)
      BY <1>3, <2>1, SlotsDiffer
    <2> QED
      BY <2>1, <2>2 DEF j
  <1> QED
    BY <1>2, <1>4, <1>5 DEF SameDescriptor, Frame

LEMMA ReceiveFrames ==
    ASSUME SpaceInv, Receive
    PROVE  /\ consumed + 1 \in Live /\ consumed' = consumed + 1
           /\ UNCHANGED <<published, completed, arena, held>>
           /\ \A n \in Live : /\ SameDescriptor(n) /\ Frame(n)'.completion = Frame(n).completion
                              /\ Frame(n)'.state = IF n = consumed + 1 THEN "leased" ELSE Frame(n).state
  <1>0. SpaceType
    BY DEF SpaceInv
  <1> DEFINE m == consumed + 1
             f == [slot[slotOf(m)] EXCEPT !.state = "leased"]
  <1>1. /\ published # consumed /\ consumed' = m
        /\ UNCHANGED <<published, arenaWrite, completed, reclaimed, arena, held>>
    BY DEF Receive, CanReceive, dataAvailable, producerPage, reclaimPage, holding
  <1>2. m \in Live /\ m \in Int
    BY <1>0, <1>1, Cursors DEF Live
  <1>3. slot \in [Slots -> SlotRecord] /\ slotOf(m) \in Slots /\ slot[slotOf(m)] \in SlotRecord
    BY <1>0, <1>2, Cursors DEF SpaceType
  <1>4. slot' = [slot EXCEPT ![slotOf(m)] = f]
    BY <1>3 DEF Receive
  <1>5. /\ f \in SlotRecord /\ f.state = "leased" /\ f.completion = Frame(m).completion
        /\ f.sequence = Frame(m).sequence /\ f.start = Frame(m).start
        /\ f.length = Frame(m).length /\ f.body = Frame(m).body
    BY <1>3 DEF SlotRecord, SlotStates, Frame
  <1> HIDE DEF f, m
  <1>6. /\ \A n \in Live : n \in Window
        /\ \A n \in Window : Frame(n)' = IF n = m THEN f ELSE Frame(n)
    BY <1>1, <1>2, <1>4, <1>5, OneFrame
  <1>7. \A n \in Live : /\ SameDescriptor(n) /\ Frame(n)'.completion = Frame(n).completion
                        /\ Frame(n)'.state = IF n = m THEN "leased" ELSE Frame(n).state
    BY <1>5, <1>6 DEF SameDescriptor
  <1> QED
    BY <1>1, <1>2, <1>7 DEF m

LEMMA ReleaseFrames ==
    ASSUME SpaceInv, NEW m \in FrameNumbers, Release(m)
    PROVE  /\ m \in Live /\ Frame(m).state = "leased"
           /\ UNCHANGED <<published, consumed, completed, arena, held>>
           /\ \A n \in Live : /\ SameDescriptor(n)
                              /\ Frame(n)'.completion = IF n = m THEN m ELSE Frame(n).completion
                              /\ Frame(n)'.state = IF n = m THEN "pending" ELSE Frame(n).state
  <1>0. SpaceType
    BY DEF SpaceInv
  <1> DEFINE f == AsPending(slot[slotOf(m)], m)
  <1>1. /\ Frame(m).sequence = m /\ Frame(m).state = "leased"
        /\ UNCHANGED <<published, arenaWrite, consumed, completed, reclaimed, arena, held>>
    BY DEF Release, producerPage, reclaimPage, holding
  <1>2. m \in Live /\ m \in Int
    BY <1>1, LeasedIsLive DEF FrameNumbers
  <1>3. slot \in [Slots -> SlotRecord] /\ slotOf(m) \in Slots /\ slot[slotOf(m)] \in SlotRecord
    BY <1>0, <1>2, Cursors DEF SpaceType
  <1>4. slot' = [slot EXCEPT ![slotOf(m)] = f]
    <2>1. slot' = [slot EXCEPT ![slotOf(m)].state = "pending", ![slotOf(m)].completion = m]
      BY DEF Release
    <2> DEFINE j == slotOf(m)
    <2> HIDE DEF j
    <2>2. slot' = [slot EXCEPT ![j].state = "pending", ![j].completion = m] /\ j \in Slots
      BY <1>3, <2>1 DEF j
    <2>3. slot' = [slot EXCEPT ![j] = AsPending(slot[j], m)]
      BY <1>3, <2>2 DEF AsPending
    <2> QED
      BY <2>3 DEF j
  <1>5. /\ f \in SlotRecord /\ f.state = "pending" /\ f.completion = m
        /\ f.sequence = Frame(m).sequence /\ f.start = Frame(m).start
        /\ f.length = Frame(m).length /\ f.body = Frame(m).body
    BY <1>3, CompletedRecord DEF Frame
  <1> HIDE DEF f
  <1>6. /\ \A n \in Live : n \in Window
        /\ \A n \in Window : Frame(n)' = IF n = m THEN f ELSE Frame(n)
    BY <1>1, <1>2, <1>4, <1>5, OneFrame
  <1>7. \A n \in Live : /\ SameDescriptor(n)
                        /\ Frame(n)'.completion = IF n = m THEN m ELSE Frame(n).completion
                        /\ Frame(n)'.state = IF n = m THEN "pending" ELSE Frame(n).state
    BY <1>5, <1>6 DEF SameDescriptor
  <1> QED
    BY <1>1, <1>2, <1>7

\* Steps that leave slots, cursors of frames, arena and reservation alone.
StillFrames == UNCHANGED <<slot, published, consumed, completed, arena, held>>

LEMMA WhichStep ==
    ASSUME [Next]_vars
    PROVE  \/ StillFrames \/ TryReserve \/ ReclaimFails \/ Write \/ Commit \/ CommitFails \/ Abort
           \/ Receive \/ \E n \in FrameNumbers : Release(n)
  <1>1. ASSUME NEW s \in Sides, WaitStep(s) \/ SignalStep(s) \/ WaitEnds(s)
        PROVE  StillFrames
    BY <1>1 DEF WaitStep, ReadGeneration, Park, Compare, Drain, Wakes, Unpark, WaitEnds, GivesUp, OtherEvent, Interrupted, DrainFails, SignalStep,
           Bump, SwapPark, Ring, StillFrames, storage, producerPage, consumerPage, reclaimPage, holding
  <1>2. ASSUME Reserve \/ TryQuarantined \/ DeadlinePasses \/ ArmDataWait \/ LookForData \/ ReleaseFails \/ UNCHANGED vars
        PROVE  StillFrames
    BY <1>2 DEF Reserve, TryQuarantined, DeadlinePasses, ArmDataWait, LookForData, ReleaseFails, vars,
           StillFrames, storage, producerPage, consumerPage, reclaimPage, holding
  <1> QED
    BY <1>1, <1>2 DEF Next, ProducerStep, ConsumerStep

LEMMA StepContents ==
    ASSUME RingInv, OneAtATime, Contents, [Next]_vars
    PROVE  Contents'
  <1>0. SpaceInv /\ SpaceType
    BY DEF RingInv, SpaceInv
  <1>1. CASE StillFrames
    <2>1. /\ UNCHANGED <<arena, published, completed>> /\ held' \subseteq held
          /\ \A n \in Live : Frame(n)' = Frame(n)
      BY <1>1 DEF StillFrames, Frame, slotOf
    <2> QED
      BY <1>0, <2>1, SlotStepContents
  <1>2. CASE Abort
    <2>1. UNCHANGED <<arena, published, completed>> /\ held' \subseteq held
      BY <1>2 DEF Abort, producerPage, reclaimPage
    <2> QED
      BY <1>0, <1>2, <2>1, AbortFrames, SlotStepContents
  <1>3. CASE CommitFails
    <2>1. UNCHANGED <<arena, published, completed>> /\ held' \subseteq held
      BY <1>3 DEF CommitFails, producerPage, reclaimPage
    <2> QED
      BY <1>0, <1>3, <2>1, CommitFailsFrames, SlotStepContents DEF SameDescriptor
  <1>4. CASE Receive
    <2>1. UNCHANGED <<arena, published, completed>> /\ held' \subseteq held
      BY <1>0, <1>4, ReceiveFrames
    <2> QED
      BY <1>0, <1>4, <2>1, ReceiveFrames, SlotStepContents DEF SameDescriptor
  <1>5. ASSUME NEW m \in FrameNumbers, Release(m)
        PROVE  Contents'
    <2>1. UNCHANGED <<arena, published, completed>> /\ held' \subseteq held
      BY <1>0, <1>5, ReleaseFrames
    <2>2. \A n \in Live : SameDescriptor(n) /\ (Frame(n)'.completion # n => Frame(n).completion # n)
      BY <1>0, <1>5, ReleaseFrames
    <2> QED
      BY <1>0, <2>1, <2>2, SlotStepContents DEF SameDescriptor
  <1> QED
    BY <1>1, <1>2, <1>3, <1>4, <1>5, WhichStep, ReclaimContents, WriteContents, CommitContents

LEMMA StepOneAtATime ==
    ASSUME ~ Nested, RingInv, OneAtATime, [Next]_vars
    PROVE  OneAtATime'
  <1>0. pc \in [Sides -> Waits] /\ "producer" \in Sides /\ Sides = {"producer", "consumer"}
    BY DEF RingInv, WaitType, Sides
  <1>1. ASSUME NEW s \in Sides, WaitStep(s) \/ SignalStep(s) \/ WaitEnds(s)
        PROVE  OneAtATime'
    <2>1. held' = held
      BY <1>1, SideStep DEF holding
    <2>2. CASE Unpark(s)
      <3>1. pc[s] \notin {"idle", "leave"} \/ Goto(s, "idle")
        BY <2>2 DEF Unpark
      <3>2. \E place : Goto(s, place)
        BY <2>2 DEF Unpark
      <3> QED
        BY <1>0, <2>1, <3>1, <3>2 DEF OneAtATime, Goto
    <2>3. CASE SignalStep(s)
      BY <2>1, <2>3 DEF SignalStep, Bump, SwapPark, Ring, OneAtATime
    <2>4. CASE ~Unpark(s) /\ ~SignalStep(s)
      <3>1. pc[s] \notin {"idle", "leave"} /\ \E place : Goto(s, place)
        BY <1>1, <2>4 DEF WaitStep, ReadGeneration, Park, Compare, Drain, Wakes, WaitEnds, GivesUp, OtherEvent, Interrupted, DrainFails
      <3> QED
        BY <1>0, <2>1, <3>1 DEF OneAtATime, Goto
    <2> QED
      BY <2>2, <2>3, <2>4
  <1>2. CASE ConsumerStep
    <2>1. held' = held
      BY <1>2 DEF ConsumerStep, Receive, ArmDataWait, LookForData, ReleaseFails, Release, holding
    <2>2. pc' = pc \/ \E place : Goto("consumer", place)
      BY <1>2 DEF ConsumerStep, Receive, ArmDataWait, LookForData, ReleaseFails, Release, waiting, Found, Missed
    <2> QED
      BY <1>0, <2>1, <2>2 DEF OneAtATime, Goto
  <1>3. CASE Reserve
    BY <1>0, <1>3 DEF Reserve, OneAtATime
  <1>4. CASE TryReserve
    <2>1. pc["producer"] \notin {"idle", "leave"}
      BY <1>4 DEF TryReserve, Tries
    <2>2. held' = held \/ Found("producer")
      BY <1>4 DEF TryReserve
    <2> QED
      BY <1>0, <2>1, <2>2 DEF OneAtATime, Found, Goto
  <1>5. CASE ReclaimFails \/ TryQuarantined \/ DeadlinePasses
    <2>1. pc'["producer"] \in {"idle", "leave"}
      BY <1>0, <1>5 DEF ReclaimFails, TryQuarantined, DeadlinePasses, Found, Goto
    <2> QED
      BY <2>1 DEF OneAtATime
  <1>6. CASE Write \/ Commit \/ Abort
    BY <1>6 DEF Write, Commit, Abort, waiting, OneAtATime
  <1>7. CASE CommitFails
    BY <1>7 DEF CommitFails, waiting, OneAtATime
  <1>8. CASE UNCHANGED vars
    BY <1>8 DEF vars, waiting, holding, OneAtATime
  <1> QED
    BY <1>1, <1>2, <1>3, <1>4, <1>5, <1>6, <1>7, <1>8 DEF Next, ProducerStep

----------------------------------------------------------------------------
(* The ring is a channel of frames *)

LeasedLive == {n \in Live : Frame(n).state = "leased"}

LEMMA LeasedIs == RingInv => Leased = LeasedLive
  <1> SUFFICES ASSUME RingInv PROVE Leased = LeasedLive
    OBVIOUS
  <1>0. SpaceInv /\ SpaceType /\ Spans
    BY DEF RingInv, SpaceInv
  <1>1. ASSUME NEW n \in Leased
        PROVE  n \in LeasedLive
    <2>1. n \in FrameNumbers /\ Frame(n).sequence = n /\ Frame(n).state = "leased"
      BY <1>1 DEF Leased
    <2>2. n \in Live
      BY <1>0, <2>1, LeasedIsLive
    <2> QED
      BY <2>1, <2>2 DEF LeasedLive
  <1>2. ASSUME NEW n \in LeasedLive
        PROVE  n \in Leased
    <2>1. n \in Live /\ Frame(n).state = "leased"
      BY <1>2 DEF LeasedLive
    <2>2. Frame(n).sequence = n
      BY <1>0, <2>1 DEF Spans
    <2>3. n \in FrameNumbers
      BY <1>0, <2>1, Cursors DEF Live, FrameNumbers
    <2> QED
      BY <2>1, <2>2, <2>3 DEF Leased
  <1> QED
    BY <1>1, <1>2

\* The frames c+1 to p, as a queue.
RunOf(c, p) == [i \in 1..(p - c) |-> c + i]

LEMMA RunGrows ==
    ASSUME NEW c \in Nat, NEW p \in Nat, c <= p
    PROVE  RunOf(c, p + 1) = Append(RunOf(c, p), p + 1)
  <1> DEFINE q == RunOf(c, p)
  <1>1. q \in Seq(Nat) /\ Len(q) = p - c /\ \A i \in 1..(p - c) : q[i] = c + i
    BY DEF RunOf
  <1>2. 1..(p + 1 - c) = 1..(Len(q) + 1)
    BY <1>1
  <1>3. RunOf(c, p + 1) = [i \in 1..(p + 1 - c) |-> c + i]
    BY DEF RunOf
  <1> HIDE DEF q
  <1>4. Append(q, p + 1) = [i \in 1..(Len(q) + 1) |-> IF i <= Len(q) THEN q[i] ELSE p + 1]
    BY <1>1
  <1>5. \A i \in 1..(p + 1 - c) : c + i = IF i <= Len(q) THEN q[i] ELSE p + 1
    <2>1. ASSUME NEW i \in 1..(p + 1 - c)
          PROVE  c + i = IF i <= Len(q) THEN q[i] ELSE p + 1
      <3>1. CASE i <= Len(q)
        <4>1. i \in 1..(p - c)
          BY <1>1, <3>1
        <4> QED
          BY <1>1, <3>1, <4>1
      <3>2. CASE ~(i <= Len(q))
        BY <1>1, <3>2
      <3> QED
        BY <3>1, <3>2
    <2> QED
      BY <2>1
  <1> QED
    BY <1>2, <1>3, <1>4, <1>5 DEF q

LEMMA RunShrinks ==
    ASSUME NEW c \in Nat, NEW p \in Nat, c < p
    PROVE  /\ RunOf(c, p) # <<>> /\ Head(RunOf(c, p)) = c + 1
           /\ Tail(RunOf(c, p)) = RunOf(c + 1, p)
  <1> DEFINE q == RunOf(c, p)
             r == RunOf(c + 1, p)
             u == Tail(q)
  <1>1. q \in Seq(Nat) /\ Len(q) = p - c /\ \A i \in 1..(p - c) : q[i] = c + i
    BY DEF RunOf
  <1>2. /\ r \in Seq(Nat) /\ Len(r) = p - (c + 1)
        /\ \A i \in 1..(p - (c + 1)) : r[i] = c + 1 + i
    BY DEF RunOf
  <1> HIDE DEF q, r
  <1>3. q # <<>> /\ Head(q) = c + 1
    BY <1>1
  <1>4. u \in Seq(Nat) /\ Len(u) = Len(q) - 1 /\ \A i \in 1..Len(u) : u[i] = q[i + 1]
    BY <1>1, <1>3, HeadTailProperties
  <1> HIDE DEF u
  <1>5. Len(u) = Len(r)
    BY <1>1, <1>2, <1>4
  <1>6. \A i \in 1..Len(u) : u[i] = r[i]
    <2>1. ASSUME NEW i \in 1..Len(u)
          PROVE  u[i] = r[i]
      <3>1. i \in 1..(p - (c + 1)) /\ i + 1 \in 1..(p - c)
        BY <1>1, <1>4
      <3> QED
        BY <1>1, <1>2, <1>4, <3>1
    <2> QED
      BY <2>1
  <1>7. u = r
    BY <1>2, <1>4, <1>5, <1>6, SeqEqual
  <1> QED
    BY <1>3, <1>7 DEF q, r, u

Queue == [i \in 1..(published - consumed) |-> Payload(consumed + i)]
LeasedPayloads == {Payload(n) : n \in Leased}

\* Frames that are queued or leased carry the bytes they were written with.
LEMMA FramesAreIntact == RingInv /\ Contents => /\ Queue = RunOf(consumed, published)
                                                /\ LeasedPayloads = LeasedLive
  <1> SUFFICES ASSUME RingInv, Contents
               PROVE  Queue = RunOf(consumed, published) /\ LeasedPayloads = LeasedLive
    OBVIOUS
  <1>0. SpaceInv /\ SpaceType /\ Spans /\ SlotsInUse
    BY DEF RingInv, SpaceInv
  <1>1. /\ completed \in Nat /\ consumed \in Nat /\ published \in Nat /\ completed <= consumed
        /\ consumed <= published /\ published <= completed + Depth /\ Depth \in Nat
    BY <1>0, Cursors DEF Spans
  <1>2. ASSUME NEW n \in Live, Frame(n).completion # n
        PROVE  Payload(n) = n
    <2>1. IntactIn(arena, n, Frame(n).start, Frame(n).body)
      BY <1>2 DEF Contents
    <2> QED
      BY <2>1 DEF Payload, Intact, IntactIn
  <1>3. ASSUME NEW i \in 1..(published - consumed)
        PROVE  Payload(consumed + i) = consumed + i
    <2> DEFINE n == consumed + i
    <2>1. n \in Live /\ n \in Window /\ ~(n <= consumed)
      BY <1>1 DEF Live, Window
    <2>2. Frame(n).completion # n
      BY <1>0, <2>1 DEF SlotsInUse
    <2> HIDE DEF n
    <2>3. Payload(n) = n
      BY <1>2, <2>1, <2>2
    <2> QED
      BY <2>3 DEF n
  <1>4. Queue = RunOf(consumed, published)
    BY <1>3 DEF Queue, RunOf
  <1>5. Leased = LeasedLive
    BY LeasedIs
  <1>6. \A n \in LeasedLive : Payload(n) = n
    BY <1>0, <1>2 DEF LeasedLive, SlotsInUse
  <1>7. LeasedPayloads = LeasedLive
    BY <1>5, <1>6 DEF LeasedPayloads
  <1> QED
    BY <1>4, <1>7

\* What a step does to the frames: nothing, or it publishes the next one,
\* leases the next one or completes one that is leased.
StepKind ==
    \/ UNCHANGED <<published, consumed, LeasedLive>>
    \/ published' = published + 1 /\ UNCHANGED <<consumed, LeasedLive>>
    \/ /\ consumed < published /\ consumed' = consumed + 1 /\ published' = published
       /\ LeasedLive' = LeasedLive \cup {consumed + 1}
    \/ /\ UNCHANGED <<published, consumed>>
       /\ \E m \in LeasedLive : LeasedLive' = LeasedLive \ {m}

LEMMA StepKindIs ==
    ASSUME RingInv, [Next]_vars
    PROVE  StepKind
  <1>0. SpaceInv /\ SpaceType /\ WaitType /\ Handshake
    BY DEF RingInv, SpaceInv
  <1>1. completed \in Nat /\ consumed \in Nat /\ published \in Nat /\ completed <= consumed /\ consumed <= published
    BY <1>0, Cursors
  <1>2. CASE StillFrames \/ ReclaimFails \/ Write
    <2>1. UNCHANGED <<slot, published, consumed, completed>>
      BY <1>2 DEF StillFrames, ReclaimFails, Write, producerPage, consumerPage, reclaimPage
    <2>2. LeasedLive' = LeasedLive
      BY <2>1 DEF LeasedLive, Live, Frame, slotOf
    <2> QED
      BY <2>1, <2>2 DEF StepKind
  <1>3. CASE TryReserve
    <2> DEFINE L == LastCompleted
    <2>1. /\ completed' = L /\ UNCHANGED <<published, consumed>>
          /\ \A n \in (L + 1)..published : Frame(n)'.state = Frame(n).state
      BY <1>0, <1>3, FramesAfterTry
    <2>2. /\ L \in Nat /\ completed <= L /\ L <= consumed
          /\ \A k \in (completed + 1)..L : Frame(k).completion = k
      BY <1>0, HeadRun
    <2> HIDE DEF L
    <2>3. \A k \in (completed + 1)..L : Frame(k).state = "pending"
      <3>1. \A k \in (completed + 1)..L : k \in Live /\ ~(k > consumed)
        BY <1>1, <2>2 DEF Live
      <3>2. ~ quarantined
        BY <1>3 DEF TryReserve
      <3> QED
        BY <1>0, <2>2, <3>1, <3>2 DEF Handshake
    <2>4. LeasedLive' = {n \in (L + 1)..published : Frame(n)'.state = "leased"}
      BY <2>1 DEF LeasedLive, Live
    <2>5. \A n : n \in Live <=> n \in (completed + 1)..L \/ n \in (L + 1)..published
      BY <1>1, <2>2 DEF Live
    <2>6. LeasedLive' = LeasedLive
      BY <2>1, <2>3, <2>4, <2>5 DEF LeasedLive
    <2> QED
      BY <2>1, <2>6 DEF StepKind
  <1>4. CASE Commit
    <2> DEFINE e == slot'[slotOf(published + 1)]
    <2>1. /\ published < completed + Depth /\ published' = published + 1
          /\ \A n \in Window : n # published + 1 => Frame(n)' = Frame(n)
          /\ e.state = "published"
      BY <1>0, <1>4, FramesAfterCommit
    <2>2. UNCHANGED <<completed, consumed>>
      BY <1>4 DEF Commit, consumerPage, reclaimPage
    <2>3. ASSUME NEW n, n = published + 1
          PROVE  Frame(n)'.state # "leased"
      <3>1. Frame(n)' = e
        BY <2>3 DEF Frame, slotOf
      <3> QED
        BY <2>1, <3>1
    <2> HIDE DEF e
    <2>4. \A n : n \in Live' <=> n \in Live \/ n = published + 1
      <3>1. Live' = (completed + 1)..(published + 1)
        BY <2>1, <2>2 DEF Live
      <3>2. Live = (completed + 1)..published
        BY DEF Live
      <3>3. \A n : n \in (completed + 1)..(published + 1) <=> n \in (completed + 1)..published \/ n = published + 1
        BY <1>1
      <3> QED
        BY <3>1, <3>2, <3>3
    <2>5. \A n \in Live : n \in Window /\ n # published + 1
      BY <1>0, <2>1, <1>1, Cursors DEF Live, Window
    <2>6. LeasedLive' = LeasedLive
      BY <2>1, <2>3, <2>4, <2>5 DEF LeasedLive
    <2> QED
      BY <2>1, <2>2, <2>6 DEF StepKind
  <1>5. CASE CommitFails
    <2>1. UNCHANGED <<published, consumed, completed>>
      BY <1>5 DEF CommitFails, producerPage, consumerPage, reclaimPage
    <2>2. Live' = Live
      BY <2>1 DEF Live
    <2>3. \A n \in Live : Frame(n)'.state = IF n = published THEN "free" ELSE Frame(n).state
      BY <1>0, <1>5, CommitFailsFrames
    <2>4. LeasedLive' = LeasedLive \ {published}
      BY <2>2, <2>3 DEF LeasedLive
    <2> QED
      BY <2>1, <2>4 DEF StepKind
  <1>6. CASE Abort
    <2>1. UNCHANGED <<published, consumed, completed>>
      BY <1>6 DEF Abort, producerPage, consumerPage, reclaimPage
    <2>2. Live' = Live
      BY <2>1 DEF Live
    <2>3. LeasedLive' = LeasedLive
      BY <1>0, <1>6, <2>2, AbortFrames DEF LeasedLive
    <2> QED
      BY <2>1, <2>3 DEF StepKind
  <1>7. CASE Receive
    <2>1. /\ consumed + 1 \in Live /\ consumed' = consumed + 1 /\ UNCHANGED <<published, completed>>
          /\ \A n \in Live : Frame(n)'.state = IF n = consumed + 1 THEN "leased" ELSE Frame(n).state
      BY <1>0, <1>7, ReceiveFrames
    <2>2. Live' = Live /\ consumed < published
      BY <1>1, <2>1 DEF Live
    <2>3. LeasedLive' = LeasedLive \cup {consumed + 1}
      BY <2>1, <2>2 DEF LeasedLive
    <2> QED
      BY <2>1, <2>2, <2>3 DEF StepKind
  <1>8. ASSUME NEW m \in FrameNumbers, Release(m)
        PROVE  StepKind
    <2>1. /\ m \in Live /\ Frame(m).state = "leased" /\ UNCHANGED <<published, consumed, completed>>
          /\ \A n \in Live : Frame(n)'.state = IF n = m THEN "pending" ELSE Frame(n).state
      BY <1>0, <1>8, ReleaseFrames
    <2>2. Live' = Live
      BY <2>1 DEF Live
    <2>3. m \in LeasedLive /\ LeasedLive' = LeasedLive \ {m}
      BY <2>1, <2>2 DEF LeasedLive
    <2> QED
      BY <2>1, <2>3 DEF StepKind
  <1> QED
    BY <1>2, <1>3, <1>4, <1>5, <1>6, <1>7, <1>8, WhichStep

FrameInv == RingInv /\ OneAtATime /\ Contents

\* The ring is a FIFO channel: for every depth, arena, page size, number of
\* leases and of frames, and with failures of page removal and doorbells, the
\* receiver gets every frame once, in order of publication and with the bytes
\* that were written, and keeps them until it completes the frame.  Callers
\* that nest reservations lose this for what they wrote into the first one.
THEOREM RingIsChannel ==
    ASSUME ~ Nested
    PROVE  Spec => DeliversFrames
  <1>1. Init => FrameInv
    <2>1. Init => OneAtATime /\ Contents
      BY DEF Init, OneAtATime, Contents, Live, Sides
    <2> QED
      BY <2>1, InitRing DEF FrameInv
  <1>2. FrameInv /\ [Next]_vars => FrameInv'
    BY RingInductive, StepOneAtATime, StepContents DEF FrameInv
  <1>3. FrameInv => /\ Queue = RunOf(consumed, published) /\ LeasedPayloads = LeasedLive
                    /\ consumed \in Nat /\ published \in Nat /\ consumed <= published
    BY FramesAreIntact, Cursors DEF FrameInv, RingInv, SpaceInv
  <1>4. Init => Channel!Init
    <2> SUFFICES ASSUME Init PROVE Channel!Init
      OBVIOUS
    <2>1. published = 0 /\ consumed = 0 /\ completed = 0
      BY DEF Init
    <2>2. Queue = <<>> /\ LeasedPayloads = {}
      <3>1. Queue = RunOf(0, 0) /\ LeasedPayloads = LeasedLive
        BY <1>1, <1>3, <2>1
      <3>2. RunOf(0, 0) = <<>>
        BY DEF RunOf
      <3>3. LeasedLive = {}
        BY <2>1 DEF LeasedLive, Live
      <3> QED
        BY <3>1, <3>2, <3>3
    <2> QED
      BY <2>1, <2>2 DEF Channel!Init, Queue, LeasedPayloads
  <1>5. FrameInv /\ FrameInv' /\ [Next]_vars =>
           \/ Channel!Publish \/ Channel!Lease \/ Channel!Complete
           \/ UNCHANGED <<published, Queue, LeasedPayloads>>
    <2> SUFFICES ASSUME FrameInv, FrameInv', [Next]_vars
                 PROVE  \/ Channel!Publish \/ Channel!Lease \/ Channel!Complete
                        \/ UNCHANGED <<published, Queue, LeasedPayloads>>
      OBVIOUS
    <2>1. /\ Queue = RunOf(consumed, published) /\ LeasedPayloads = LeasedLive
          /\ consumed \in Nat /\ published \in Nat /\ consumed <= published
      BY <1>3
    <2>2. Queue' = RunOf(consumed', published') /\ LeasedPayloads' = LeasedLive'
      <3>1. (Queue = RunOf(consumed, published) /\ LeasedPayloads = LeasedLive)'
        BY <1>3, PTL
      <3> QED
        BY <3>1 DEF RunOf
    <2>3. StepKind
      BY StepKindIs DEF FrameInv
    <2>4. CASE UNCHANGED <<published, consumed, LeasedLive>>
      BY <2>1, <2>2, <2>4
    <2>5. CASE published' = published + 1 /\ UNCHANGED <<consumed, LeasedLive>>
      <3>1. Queue' = Append(Queue, published + 1) /\ LeasedPayloads' = LeasedPayloads
        BY <2>1, <2>2, <2>5, RunGrows
      <3> QED
        BY <2>5, <3>1 DEF Channel!Publish, Queue, LeasedPayloads
    <2>6. CASE /\ consumed < published /\ consumed' = consumed + 1 /\ published' = published
               /\ LeasedLive' = LeasedLive \cup {consumed + 1}
      <3>1. Queue # <<>> /\ Head(Queue) = consumed + 1 /\ Queue' = Tail(Queue)
        BY <2>1, <2>2, <2>6, RunShrinks
      <3>2. LeasedPayloads' = LeasedPayloads \cup {Head(Queue)}
        BY <2>1, <2>2, <2>6, <3>1
      <3> QED
        BY <2>6, <3>1, <3>2 DEF Channel!Lease, Queue, LeasedPayloads
    <2>7. CASE /\ UNCHANGED <<published, consumed>>
               /\ \E m \in LeasedLive : LeasedLive' = LeasedLive \ {m}
      <3>1. Queue' = Queue /\ \E m \in LeasedPayloads : LeasedPayloads' = LeasedPayloads \ {m}
        BY <2>1, <2>2, <2>7
      <3> QED
        BY <2>7, <3>1 DEF Channel!Complete, Queue, LeasedPayloads
    <2> QED
      BY <2>3, <2>4, <2>5, <2>6, <2>7 DEF StepKind
  <1>6. FrameInv /\ FrameInv' /\ [Next]_vars =>
           [Channel!Publish \/ Channel!Lease \/ Channel!Complete]_<<published,
               [i \in 1..(published - consumed) |-> Payload(consumed + i)], {Payload(n) : n \in Leased}>>
    BY <1>5 DEF Queue, LeasedPayloads
  <1> QED
    BY <1>1, <1>2, <1>4, <1>6, PTL DEF Spec, DeliversFrames, Channel!Spec

----------------------------------------------------------------------------
(* Counting bytes *)

LEMMA SameSize ==
    ASSUME NEW S, NEW T, NEW f \in [S -> T], \A a, b \in S : f[a] = f[b] => a = b,
           \A t \in T : \E s \in S : f[s] = t, IsFiniteSet(S) \/ IsFiniteSet(T)
    PROVE  IsFiniteSet(S) /\ IsFiniteSet(T) /\ Cardinality(T) = Cardinality(S)
  <1>1. f \in Bijection(S, T)
    BY Fun_IsBij
  <1>2. ExistsBijection(S, T) /\ ExistsBijection(T, S)
    BY <1>1, Fun_ExistsBij, Fun_ExistsBijSymmetric
  <1> QED
    BY <1>2, FS_Bijection

\* Blocks that lie one behind the other have together as many places as there
\* are between the first and the last end: block n has ends[n] - ends[n-1].
Places(c, t, ends) == {u \in ((c + 1)..t) \X Nat : u[2] >= 1 /\ u[2] <= ends[u[1]] - ends[u[1] - 1]}

\* Place b of block n and place d of block m are one number.
SamePlace(ends, n, b, m, d) ==
    /\ b >= 1 /\ b <= ends[n] - ends[n - 1] /\ d >= 1 /\ d <= ends[m] - ends[m - 1]
    /\ ends[n - 1] + b - 1 = ends[m - 1] + d - 1

LEMMA BlocksApart ==
    ASSUME NEW c \in Nat, NEW t \in Nat, NEW ends \in [c..t -> Nat],
           \A m \in c..t : \A n \in m..t : ends[m] <= ends[n]
    PROVE  \A n, m \in (c + 1)..t, b, d \in Nat : SamePlace(ends, n, b, m, d) => n = m
  <1> SUFFICES ASSUME NEW n \in (c + 1)..t, NEW m \in (c + 1)..t, NEW b \in Nat, NEW d \in Nat,
                      b >= 1, b <= ends[n] - ends[n - 1], d >= 1, d <= ends[m] - ends[m - 1],
                      ends[n - 1] + b - 1 = ends[m - 1] + d - 1
               PROVE  n = m
    BY DEF SamePlace
  <1>1. /\ n \in c..t /\ m \in c..t /\ n - 1 \in c..t /\ m - 1 \in c..t
        /\ ends[n] \in Nat /\ ends[m] \in Nat /\ ends[n - 1] \in Nat /\ ends[m - 1] \in Nat
    OBVIOUS
  <1>2. ~(n < m)
    <2>1. n < m => m - 1 \in n..t
      OBVIOUS
    <2>2. n < m => ends[n] <= ends[m - 1]
      BY <1>1, <2>1
    <2> QED
      BY <1>1, <2>2
  <1>3. ~(m < n)
    <2>1. m < n => n - 1 \in m..t
      OBVIOUS
    <2>2. m < n => ends[m] <= ends[n - 1]
      BY <1>1, <2>1
    <2> QED
      BY <1>1, <2>2
  <1> QED
    BY <1>2, <1>3

LEMMA Tiling ==
    ASSUME NEW c \in Nat, NEW t \in Nat, c <= t, NEW ends \in [c..t -> Nat],
           \A m \in c..t : \A n \in m..t : ends[m] <= ends[n]
    PROVE  IsFiniteSet(Places(c, t, ends)) /\ Cardinality(Places(c, t, ends)) = ends[t] - ends[c]
  <1> DEFINE P == Places(c, t, ends)
             R == ends[c]..(ends[t] - 1)
             f == [u \in P |-> ends[u[1] - 1] + u[2] - 1]
  <1>0. c \in c..t /\ t \in c..t
    OBVIOUS
  <1>1. ends[c] \in Nat /\ ends[t] \in Nat /\ ends[c] <= ends[t]
    BY <1>0
  <1>2. ASSUME NEW u \in P
        PROVE  /\ u[1] \in (c + 1)..t /\ u[2] \in Nat /\ u[2] >= 1 /\ u[2] <= ends[u[1]] - ends[u[1] - 1]
               /\ u[1] - 1 \in c..t /\ u[1] \in c..t /\ u = <<u[1], u[2]>>
               /\ ends[u[1] - 1] \in Nat /\ ends[u[1]] \in Nat
               /\ ends[c] <= ends[u[1] - 1] /\ ends[u[1]] <= ends[t]
    <2>1. /\ u[1] \in (c + 1)..t /\ u[2] \in Nat /\ u[2] >= 1 /\ u[2] <= ends[u[1]] - ends[u[1] - 1]
          /\ u = <<u[1], u[2]>>
      BY DEF Places
    <2>2. u[1] - 1 \in c..t /\ u[1] \in c..t /\ t \in u[1]..t
      BY <2>1
    <2>3. ends[u[1] - 1] \in Nat /\ ends[u[1]] \in Nat
      BY <2>2
    <2>4. ends[c] <= ends[u[1] - 1] /\ ends[u[1]] <= ends[t]
      BY <1>0, <2>2
    <2> QED
      BY <2>1, <2>2, <2>3, <2>4
  <1> HIDE DEF P
  <1>3. \A n, m \in (c + 1)..t, b, d \in Nat : SamePlace(ends, n, b, m, d) => n = m
    BY BlocksApart
  <1>4. f \in [P -> R]
    <2>1. ASSUME NEW u \in P
          PROVE  ends[u[1] - 1] + u[2] - 1 \in R
      BY <1>1, <1>2
    <2> QED
      BY <2>1
  <1>5. ASSUME NEW u \in P, NEW v \in P, f[u] = f[v]
        PROVE  u = v
    <2>1. PICK n \in (c + 1)..t, b \in Nat : /\ u = <<n, b>> /\ b >= 1 /\ b <= ends[n] - ends[n - 1]
                                             /\ f[u] = ends[n - 1] + b - 1
      BY <1>2
    <2>2. PICK m \in (c + 1)..t, d \in Nat : /\ v = <<m, d>> /\ d >= 1 /\ d <= ends[m] - ends[m - 1]
                                             /\ f[v] = ends[m - 1] + d - 1
      BY <1>2
    <2> HIDE DEF f
    <2>3. ends[n - 1] + b - 1 = ends[m - 1] + d - 1
      BY <1>5, <2>1, <2>2
    <2>4. n = m
      BY <1>3, <2>1, <2>2, <2>3 DEF SamePlace
    <2>5. b = d
      <3>1. n - 1 \in c..t
        OBVIOUS
      <3>2. ends[n - 1] \in Nat
        BY <3>1
      <3>3. ends[n - 1] + b - 1 = ends[n - 1] + d - 1
        BY <2>3, <2>4
      <3> QED
        BY <3>2, <3>3
    <2> QED
      BY <2>1, <2>2, <2>4, <2>5
  <1>6. ASSUME NEW x \in R
        PROVE  \E u \in P : f[u] = x
    <2> DEFINE H == {n \in c..t : ends[n] > x}
               T == {t - k : k \in H}
    <2>1. x \in Nat /\ ends[c] <= x /\ x < ends[t]
      BY <1>1
    <2>2. t \in H
      BY <1>0, <2>1
    <2>3. T \in SUBSET (0..t) /\ T # {}
      BY <2>2
    <2>4. PICK n \in H : \A k \in H : n <= k
      <3> HIDE DEF T
      <3>1. 0 \in Nat /\ t \in Nat
        OBVIOUS
      <3>2. Max(T) \in T /\ \A y \in T : y <= Max(T)
        BY <2>3, <3>1, HasMax
      <3>3. PICK n \in H : Max(T) = t - n
        BY <3>2 DEF T
      <3>4. ASSUME NEW k \in H
            PROVE  n <= k
        <4>1. t - k <= t - n
          BY <3>2, <3>3 DEF T
        <4>2. k \in Int /\ n \in Int
          OBVIOUS
        <4> QED
          BY <4>1, <4>2
      <3> QED
        BY <3>4
    <2>5. n \in c..t /\ ends[n] > x /\ ends[n] \in Nat
      BY <2>4
    <2>6. n # c
      BY <1>1, <2>1, <2>5
    <2>7. n - 1 \in c..t /\ n \in (c + 1)..t /\ ~(n <= n - 1)
      BY <2>5, <2>6
    <2>8. n - 1 \notin H
      BY <2>4, <2>7
    <2>9. ends[n - 1] \in Nat /\ ends[n - 1] <= x
      <3>1. ~(ends[n - 1] > x) /\ ends[n - 1] \in Nat
        BY <2>7, <2>8
      <3> QED
        BY <2>1, <3>1
    <2> DEFINE b == x - ends[n - 1] + 1
    <2>10. b \in Nat /\ b >= 1 /\ b <= ends[n] - ends[n - 1] /\ ends[n - 1] + b - 1 = x
      BY <2>1, <2>5, <2>9
    <2> HIDE DEF b
    <2>11. <<n, b>> \in P
      BY <2>7, <2>10 DEF P, Places
    <2>12. f[<<n, b>>] = x
      BY <2>10, <2>11
    <2> QED
      BY <2>11, <2>12
  <1>7. IsFiniteSet(R) /\ Cardinality(R) = ends[t] - ends[c]
    <2>1. ends[c] \in Int /\ ends[t] - 1 \in Int
      BY <1>1
    <2>2. IsFiniteSet(R) /\ Cardinality(R) = IF ends[c] > ends[t] - 1 THEN 0 ELSE (ends[t] - 1) - ends[c] + 1
      BY <2>1, FS_Interval
    <2> HIDE DEF R
    <2> QED
      BY <1>1, <2>2
  <1> HIDE DEF f, R
  <1>8. IsFiniteSet(P) /\ Cardinality(R) = Cardinality(P)
    BY <1>4, <1>5, <1>6, <1>7, SameSize
  <1> QED
    BY <1>7, <1>8 DEF P

----------------------------------------------------------------------------
(* What slots are charged with *)

\* Until a failure, a live frame is charged with its bytes, the reservation's
\* slot with the reservation's, and no other slot with anything.
Charges ==
    ~ quarantined =>
        /\ \A n \in Live : Frame(n).reserved = Frame(n).length
        /\ \A r \in held : Frame(published + 1).reserved = r.length
        /\ \A n \in Window : n > published /\ (held = {} \/ n # published + 1) => Frame(n).reserved = 0

OneHeld == \A r, q \in held : r = q

\* After a failure the ring stays quarantined.
LEMMA QuarantineStays ==
    ASSUME [Next]_vars, ~ quarantined'
    PROVE  ~ quarantined
  <1>1. CASE UNCHANGED vars
    BY <1>1 DEF vars
  <1>2. ASSUME NEW s \in Sides, WaitStep(s) \/ SignalStep(s) \/ WaitEnds(s)
        PROVE  quarantined' = quarantined
    BY <1>2 DEF WaitStep, SignalStep, WaitEnds, GivesUp, OtherEvent, Interrupted, DrainFails, ReadGeneration, Park, Compare, Drain, Wakes,
                Unpark, Bump, SwapPark, Ring
  <1>3. CASE ProducerStep
    BY <1>3 DEF ProducerStep, Reserve, TryReserve, ReclaimFails, TryQuarantined, DeadlinePasses, Write,
                Commit, CommitFails, Abort
  <1>4. CASE ConsumerStep
    BY <1>4 DEF ConsumerStep, Receive, ArmDataWait, LookForData, ReleaseFails, Release
  <1> QED
    BY <1>1, <1>2, <1>3, <1>4 DEF Next

LEMMA ChargeAfterTry ==
    ASSUME SpaceType, bound \in 0..Arena, TryReserve
    PROVE  /\ \A i \in Slots : slot'[i].reserved = IF Fits /\ i = slotOf(published + 1) THEN bound
                                                   ELSE IF i \in Freed THEN 0 ELSE slot[i].reserved
           /\ Fits => \E r : held' = {r} /\ r.length = bound
           /\ ~ Fits => held' = held
  <1>0. slot \in [Slots -> SlotRecord] /\ published \in Nat
    BY Cursors DEF SpaceType
  <1> DEFINE R == ReclaimedSlots
             j == slotOf(published + 1)
  <1>1. /\ R = [i \in Slots |-> R[i]]
        /\ \A i \in Slots : R[i] = IF i \in Freed THEN AsFreed(slot[i]) ELSE slot[i]
    BY DEF ReclaimedSlots, AsFreed
  <1> HIDE DEF R
  <1>2. ASSUME NEW i \in Slots
        PROVE  R[i] \in SlotRecord /\ R[i].reserved = IF i \in Freed THEN 0 ELSE slot[i].reserved
    <2>1. slot[i] \in SlotRecord
      BY <1>0
    <2>2. CASE i \in Freed
      <3>1. AsFreed(slot[i]) \in SlotRecord
        BY <2>1, FreedRecord
      <3>2. AsFreed(slot[i]).reserved = 0
        BY <2>1 DEF AsFreed, SlotRecord
      <3> QED
        BY <1>1, <2>2, <3>1, <3>2
    <2>3. CASE i \notin Freed
      BY <1>1, <2>1, <2>3
    <2> QED
      BY <2>2, <2>3
  <1>3. R \in [Slots -> SlotRecord]
    BY <1>1, <1>2
  <1>4. \/ Fits /\ slot' = [R EXCEPT ![j].state = "reserved", ![j].reserved = bound]
        \/ ~ Fits /\ slot' = R
    BY DEF TryReserve, R
  <1>5. ASSUME Fits, slot' = [R EXCEPT ![j].state = "reserved", ![j].reserved = bound], NEW i \in Slots
        PROVE  slot'[i].reserved = IF i = j THEN bound ELSE R[i].reserved
    <2>1. j \in Slots
      BY <1>0, SlotExists
    <2> HIDE DEF j
    <2> DEFINE f == AsReserved(R[j], "reserved", bound)
    <2>2. slot' = [R EXCEPT ![j] = f]
      BY <1>3, <1>5, <2>1 DEF AsReserved
    <2>3. f.reserved = bound
      <3>1. R[j] \in SlotRecord
        BY <1>2, <2>1
      <3> QED
        BY <3>1 DEF AsReserved, SlotRecord
    <2> HIDE DEF f
    <2> QED
      BY <1>3, <2>1, <2>2, <2>3
  <1>6. ASSUME NEW i \in Slots
        PROVE  slot'[i].reserved = IF Fits /\ i = j THEN bound
                                   ELSE IF i \in Freed THEN 0 ELSE slot[i].reserved
    <2> HIDE DEF j
    <2>1. CASE Fits
      BY <1>2, <1>4, <1>5, <2>1 DEF j
    <2>2. CASE ~ Fits
      BY <1>2, <1>4, <2>2
    <2> QED
      BY <2>1, <2>2
  <1>7. Fits => \E r : held' = {r} /\ r.length = bound
    <2> DEFINE r == [sequence |-> published + 1, start |-> arenaWrite, length |-> bound, body |-> -1]
    <2>1. Fits => held' = {r}
      BY DEF TryReserve
    <2>2. r.length = bound
      OBVIOUS
    <2> HIDE DEF r
    <2> QED
      BY <2>1, <2>2
  <1>8. ~ Fits => held' = held
    BY DEF TryReserve
  <1> QED
    BY <1>6, <1>7, <1>8

LEMMA TryReserveCharges ==
    ASSUME RingInv, Charges, OneHeld, TryReserve
    PROVE  Charges' /\ OneHeld'
  <1> DEFINE L == LastCompleted
             c == completed
             p == published
  <1>0. SpaceInv /\ WaitType /\ SpaceType /\ Spans /\ HeldFits /\ ~ quarantined
    BY DEF RingInv, SpaceInv, TryReserve
  <1>1. bound \in 0..Arena
    BY <1>0, Constants DEF WaitType
  <1>2. /\ \A i \in Slots : slot'[i].reserved = IF Fits /\ i = slotOf(p + 1) THEN bound
                                                ELSE IF i \in Freed THEN 0 ELSE slot[i].reserved
        /\ Fits => \E r : held' = {r} /\ r.length = bound
        /\ ~ Fits => held' = held
    BY <1>0, <1>1, ChargeAfterTry
  <1>3. /\ c \in Nat /\ p \in Nat /\ c <= p /\ p <= c + Depth /\ Depth \in Nat \ {0}
        /\ \A n \in Int : slotOf(n) \in Slots
    BY <1>0, Cursors DEF Spans
  <1>4. /\ L \in Nat /\ c <= L /\ L <= p /\ L <= c + Depth
        /\ \A n \in (L + 1)..(c + Depth) : slotOf(n) \notin Freed
        /\ \A n \in (c + Depth + 1)..(L + Depth) : slotOf(n) \in Freed
    BY <1>0, HeadRun, Cursors
  <1>5. /\ completed' = L /\ published' = p
        /\ \A n \in Int : Frame(n)'.length = Frame(n).length
    BY <1>0, FramesAfterTry
  <1>6. Live' = (L + 1)..p /\ Window' = (L + 1)..(L + Depth)
    BY <1>5 DEF Live, Window
  <1>7. Fits => p - L < Depth
    BY DEF Fits
  <1>8. ASSUME NEW n \in Int
        PROVE  Frame(n)'.reserved = slot'[slotOf(n)].reserved /\ Frame(n).reserved = slot[slotOf(n)].reserved
    BY DEF Frame, slotOf
  <1>9. /\ \A n \in Live : Frame(n).reserved = Frame(n).length
        /\ \A r \in held : Frame(p + 1).reserved = r.length
        /\ \A n \in Window : n > p /\ (held = {} \/ n # p + 1) => Frame(n).reserved = 0
    BY <1>0 DEF Charges
  <1> HIDE DEF L, c, p
  <1>10. ASSUME NEW n \in (L + 1)..(L + Depth), Fits, n # p + 1
         PROVE  slotOf(n) # slotOf(p + 1)
    <2>1. p + 1 \in (L + 1)..(L + Depth)
      BY <1>3, <1>4, <1>7, <1>10
    <2> QED
      BY <1>4, <1>10, <2>1, SlotsDiffer
  <1>11. ASSUME NEW n \in Live'
         PROVE  Frame(n)'.reserved = Frame(n)'.length
    <2>1. n \in (L + 1)..p
      BY <1>6, <1>11
    <2>2. n \in Int /\ n \in (L + 1)..(c + Depth) /\ n \in (L + 1)..(L + Depth) /\ n # p + 1 /\ n \in (c + 1)..p
      BY <1>3, <1>4, <2>1
    <2>3. slotOf(n) \in Slots /\ slotOf(n) \notin Freed /\ (Fits => slotOf(n) # slotOf(p + 1))
      BY <1>3, <1>4, <1>10, <2>2
    <2>4. slot'[slotOf(n)].reserved = slot[slotOf(n)].reserved
      BY <1>2, <2>3
    <2>5. Frame(n).reserved = Frame(n).length
      BY <1>9, <2>2 DEF Live, c, p
    <2> QED
      BY <1>5, <1>8, <2>2, <2>4, <2>5
  <1>12. ASSUME NEW r \in held'
         PROVE  slot'[slotOf(p + 1)].reserved = r.length
    <2>0. p + 1 \in Int /\ slotOf(p + 1) \in Slots
      BY <1>3
    <2>1. CASE Fits
      BY <1>2, <1>12, <2>0, <2>1
    <2>2. CASE ~ Fits
      <3>1. r \in held
        BY <1>2, <1>12, <2>2
      <3>2. p < c + Depth
        BY <1>0, <3>1 DEF HeldFits, c, p
      <3>3. p + 1 \in (L + 1)..(c + Depth)
        BY <1>3, <1>4, <3>2
      <3>4. slot'[slotOf(p + 1)].reserved = slot[slotOf(p + 1)].reserved
        BY <1>2, <1>4, <2>0, <2>2, <3>3
      <3> QED
        BY <1>8, <1>9, <2>0, <3>1, <3>4
    <2> QED
      BY <2>1, <2>2
  <1>13. ASSUME NEW n \in Window', n > p, held' = {} \/ n # p + 1
         PROVE  Frame(n)'.reserved = 0
    <2>1. n \in (L + 1)..(L + Depth) /\ n \in Int
      BY <1>4, <1>6, <1>13
    <2>2. Fits => slotOf(n) # slotOf(p + 1)
      BY <1>2, <1>10, <1>13, <2>1
    <2>3. slotOf(n) \in Slots
      BY <1>3, <2>1
    <2>4. slot'[slotOf(n)].reserved = IF slotOf(n) \in Freed THEN 0 ELSE slot[slotOf(n)].reserved
      BY <1>2, <2>2, <2>3
    <2>5. CASE n <= c + Depth
      <3>1. n \in (c + 1)..(c + Depth)
        BY <1>3, <1>4, <2>1, <2>5
      <3>2. held = {} \/ n # p + 1
        BY <1>2, <1>13
      <3>3. Frame(n).reserved = 0
        BY <1>9, <1>13, <3>1, <3>2 DEF Window, c
      <3> QED
        BY <1>8, <2>1, <2>4, <3>3
    <2>6. CASE n > c + Depth
      <3>1. n \in (c + Depth + 1)..(L + Depth)
        BY <1>3, <1>4, <2>1, <2>6
      <3> QED
        BY <1>4, <1>8, <2>1, <2>4, <3>1
    <2> QED
      BY <1>3, <2>1, <2>5, <2>6
  <1>14. \A r \in held' : (Frame(published + 1).reserved)' = r.length
    <2>1. (Frame(published + 1).reserved)' = slot'[slotOf(p + 1)].reserved
      BY <1>5 DEF Frame, slotOf
    <2> QED
      BY <1>12, <2>1
  <1>15. Charges'
    BY <1>5, <1>11, <1>13, <1>14 DEF Charges
  <1>16. OneHeld'
    BY <1>2 DEF OneHeld
  <1> QED
    BY <1>15, <1>16

LEMMA CommitCharges ==
    ASSUME RingInv, Charges, Commit, ~ quarantined
    PROVE  Charges'
  <1>0. SpaceInv /\ SpaceType /\ Spans
    BY DEF RingInv, SpaceInv
  <1> DEFINE j == slotOf(published + 1)
  <1>1. PICK r \in held :
           /\ r \in Reservation /\ r.body # -1 /\ r.sequence = published + 1
           /\ published < completed + Depth /\ published' = published + 1
           /\ slot' = [slot EXCEPT ![j] = AsPublished(slot[j], r)]
    <2>1. PICK r \in held :
             /\ r.body # -1
             /\ slot' = [slot EXCEPT ![slotOf(r.sequence)] =
                            [@ EXCEPT !.state = "published", !.sequence = r.sequence,
                                      !.start = r.start, !.length = r.length, !.body = r.body]]
             /\ published' = r.sequence
      BY DEF Commit
    <2>2. r \in Reservation /\ r.sequence = published + 1 /\ published < completed + Depth
      BY <1>0 DEF SpaceInv, SpaceType, HeldFits
    <2> QED
      BY <2>1, <2>2 DEF AsPublished
  <1>2. completed' = completed /\ held' = {}
    BY DEF Commit, reclaimPage
  <1>3. /\ completed \in Nat /\ published \in Nat /\ completed <= published /\ Depth \in Nat \ {0}
        /\ \A n \in Int : slotOf(n) \in Slots
    BY <1>0, Cursors
  <1>4. /\ published + 1 \in Window
        /\ \A n \in Window : n # published + 1 => slotOf(n) # j
        /\ \A n \in Live : n \in Window /\ slotOf(n) # j
    BY <1>0, <1>1, NextSlot
  <1>5. j \in Slots /\ slot \in [Slots -> SlotRecord] /\ slot[j] \in SlotRecord
    BY <1>0, <1>3 DEF SpaceType
  <1>6. /\ \A n \in Live : Frame(n).reserved = Frame(n).length
        /\ slot[j].reserved = r.length
        /\ \A n \in Window : n > published /\ n # published + 1 => Frame(n).reserved = 0
    BY DEF Charges, Frame
  <1>7. LET f == AsPublished(slot[j], r) IN f.reserved = slot[j].reserved /\ f.length = r.length
    BY <1>5 DEF AsPublished, SlotRecord
  <1>8. slot'[j].reserved = r.length /\ slot'[j].length = r.length
    BY <1>1, <1>5, <1>6, <1>7
  <1>9. ASSUME NEW n \in Window, n # published + 1
        PROVE  Frame(n)' = Frame(n)
    <2>1. n \in Int /\ slotOf(n) \in Slots /\ slotOf(n) # j
      BY <1>3, <1>4, <1>9 DEF Window
    <2>2. slot'[slotOf(n)] = slot[slotOf(n)]
      BY <1>1, <1>5, <2>1
    <2> QED
      BY <2>2 DEF Frame, slotOf
  <1>10. ASSUME NEW n \in Live'
         PROVE  Frame(n)'.reserved = Frame(n)'.length
    <2>1. n \in (completed + 1)..(published + 1)
      BY <1>1, <1>2, <1>10 DEF Live
    <2>2. CASE n = published + 1
      <3>1. Frame(n)' = slot'[j]
        BY <2>2 DEF Frame, slotOf
      <3> QED
        BY <1>8, <3>1
    <2>3. CASE n # published + 1
      <3>1. n \in Live
        BY <1>3, <2>1, <2>3 DEF Live
      <3>2. n \in Window
        BY <1>4, <3>1
      <3> QED
        BY <1>6, <1>9, <2>3, <3>1, <3>2
    <2> QED
      BY <2>2, <2>3
  <1>11. ASSUME NEW n \in Window', n > published'
         PROVE  Frame(n)'.reserved = 0
    <2>1. n \in Window /\ n > published + 1
      BY <1>1, <1>2, <1>11 DEF Window
    <2>2. n # published + 1 /\ n > published
      BY <1>3, <2>1 DEF Window
    <2> QED
      BY <1>6, <1>9, <2>1, <2>2
  <1> QED
    BY <1>2, <1>10, <1>11 DEF Charges

LEMMA AbortCharges ==
    ASSUME RingInv, Charges, Abort, ~ quarantined
    PROVE  Charges'
  <1>0. SpaceInv /\ SpaceType /\ HeldFits
    BY DEF RingInv, SpaceInv
  <1> DEFINE j == slotOf(published + 1)
  <1>1. held # {} /\ \A q \in held : q.sequence = published + 1 /\ published < completed + Depth
    BY <1>0 DEF HeldFits, Abort
  <1>2. UNCHANGED <<published, completed>> /\ held' = {}
    BY DEF Abort, producerPage, reclaimPage
  <1>3. completed \in Nat /\ published \in Nat /\ Depth \in Nat \ {0} /\ \A n \in Int : slotOf(n) \in Slots
    BY <1>0, Cursors
  <1>4. Live' = Live /\ Window' = Window
    BY <1>2 DEF Live, Window
  <1>5. \A n \in Window : n # published + 1 => slotOf(n) # j
    BY <1>0, <1>1, NextSlot
  <1>6. \A i \in Slots : slot'[i] = IF i = j THEN [slot[i] EXCEPT !.state = "free", !.reserved = 0] ELSE slot[i]
    BY <1>1 DEF Abort
  <1>7. j \in Slots /\ slot[j] \in SlotRecord
    BY <1>0, <1>3 DEF SpaceType
  <1>8. slot'[j].reserved = 0
    BY <1>6, <1>7 DEF SlotRecord
  <1>9. ASSUME NEW n \in Window, n > published
        PROVE  Frame(n)'.reserved = 0
    <2>1. CASE n = published + 1
      <3>1. Frame(n)' = slot'[j]
        BY <2>1 DEF Frame, slotOf
      <3> QED
        BY <1>8, <3>1
    <2>2. CASE n # published + 1
      <3>1. n \in Int /\ slotOf(n) \in Slots /\ slotOf(n) # j
        BY <1>3, <1>5, <2>2 DEF Window
      <3>2. slot'[slotOf(n)] = slot[slotOf(n)]
        BY <1>6, <3>1
      <3>3. Frame(n)' = Frame(n)
        BY <3>2 DEF Frame, slotOf
      <3>4. Frame(n).reserved = 0
        BY <1>9, <2>2 DEF Charges
      <3> QED
        BY <3>3, <3>4
    <2> QED
      BY <2>1, <2>2
  <1>10. ASSUME NEW n \in Live
         PROVE  Frame(n)'.reserved = Frame(n)'.length
    <2>1. Frame(n)' = Frame(n)
      BY <1>0, AbortFrames
    <2>2. Frame(n).reserved = Frame(n).length
      BY DEF Charges
    <2> QED
      BY <2>1, <2>2
  <1> QED
    BY <1>2, <1>4, <1>9, <1>10 DEF Charges

\* A step that changes neither what slots and frames are charged with nor how
\* much is reserved.
LEMMA SameCharges ==
    ASSUME RingInv, Charges, ~ quarantined, UNCHANGED <<published, completed>>,
           \A i \in Slots : slot'[i].reserved = slot[i].reserved /\ slot'[i].length = slot[i].length,
           \A q \in held' : \E r \in held : q.length = r.length,
           held' = {} => held = {}
    PROVE  Charges'
  <1>0. SpaceInv /\ SpaceType
    BY DEF RingInv, SpaceInv
  <1>1. completed \in Nat /\ published \in Nat /\ Depth \in Nat \ {0} /\ \A n \in Int : slotOf(n) \in Slots
    BY <1>0, Cursors
  <1>2. Live' = Live /\ Window' = Window
    BY DEF Live, Window
  <1>3. \A n \in Int : Frame(n)'.reserved = Frame(n).reserved /\ Frame(n)'.length = Frame(n).length
    <2>1. ASSUME NEW n \in Int
          PROVE  Frame(n)'.reserved = Frame(n).reserved /\ Frame(n)'.length = Frame(n).length
      <3>1. Frame(n)' = slot'[slotOf(n)] /\ Frame(n) = slot[slotOf(n)]
        BY DEF Frame, slotOf
      <3> QED
        BY <1>1, <3>1
    <2> QED
      BY <2>1
  <1>4. published + 1 \in Int /\ (\A n \in Live : n \in Int) /\ (\A n \in Window : n \in Int)
    BY <1>1 DEF Live, Window
  <1>5. (Frame(published + 1).reserved)' = Frame(published + 1).reserved
    <2>1. slot'[slotOf(published + 1)].reserved = slot[slotOf(published + 1)].reserved
      BY <1>1, <1>4
    <2> QED
      BY <2>1 DEF Frame, slotOf
  <1> QED
    BY <1>2, <1>3, <1>4, <1>5 DEF Charges

LEMMA ReceiveCharges ==
    ASSUME RingInv, Receive
    PROVE  \A i \in Slots : slot'[i].reserved = slot[i].reserved /\ slot'[i].length = slot[i].length
  <1> DEFINE j == slotOf(consumed + 1)
  <1>0. slot \in [Slots -> SlotRecord] /\ consumed \in Nat /\ SpaceType
    BY Cursors DEF RingInv, SpaceInv, SpaceType
  <1>1. j \in Slots /\ slot[j] \in SlotRecord
    BY <1>0, SlotExists
  <1>2. slot' = [slot EXCEPT ![j].state = "leased"]
    BY DEF Receive
  <1> HIDE DEF j
  <1> QED
    BY <1>0, <1>1, <1>2 DEF SlotRecord

LEMMA ReleaseCharges ==
    ASSUME RingInv, NEW m \in FrameNumbers, Release(m)
    PROVE  \A i \in Slots : slot'[i].reserved = slot[i].reserved /\ slot'[i].length = slot[i].length
  <1> DEFINE j == slotOf(m)
             f == AsPending(slot[j], m)
  <1>0. slot \in [Slots -> SlotRecord] /\ m \in Int
    BY Constants DEF RingInv, SpaceInv, SpaceType, FrameNumbers
  <1>1. j \in Slots /\ slot[j] \in SlotRecord
    BY <1>0, SlotExists
  <1>2. slot' = [slot EXCEPT ![j].state = "pending", ![j].completion = m]
    BY DEF Release
  <1> HIDE DEF j
  <1>3. slot' = [slot EXCEPT ![j] = f]
    BY <1>0, <1>1, <1>2 DEF AsPending
  <1>4. f.reserved = slot[j].reserved /\ f.length = slot[j].length
    BY <1>1 DEF AsPending, SlotRecord
  <1> HIDE DEF f
  <1> QED
    BY <1>0, <1>1, <1>3, <1>4

LEMMA StepCharges ==
    ASSUME RingInv, Charges, OneHeld, [Next]_vars
    PROVE  Charges' /\ OneHeld'
  <1>0. SpaceInv /\ SpaceType
    BY DEF RingInv, SpaceInv
  <1>1. ~ quarantined' => ~ quarantined
    BY QuarantineStays
  <1>2. CASE StillFrames
    <2>1. UNCHANGED <<slot, published, completed, held>>
      BY <1>2 DEF StillFrames
    <2>2. ~ quarantined' => Charges'
      BY <1>1, <2>1, SameCharges
    <2> QED
      BY <2>1, <2>2 DEF Charges, OneHeld
  <1>3. CASE TryReserve
    BY <1>3, TryReserveCharges
  <1>4. CASE ReclaimFails \/ CommitFails
    <2>1. quarantined' /\ held' = held
      BY <1>4 DEF ReclaimFails, CommitFails, holding
    <2> QED
      BY <2>1 DEF Charges, OneHeld
  <1>5. CASE Write
    <2>1. UNCHANGED <<slot, published, completed>>
      BY <1>5 DEF Write, producerPage, reclaimPage
    <2>2. PICK r \in held, body \in 0..Arena : held' = {[r EXCEPT !.body = body]}
      BY <1>5 DEF Write
    <2>3. r \in Reservation
      BY <1>0 DEF SpaceType
    <2> DEFINE q == [r EXCEPT !.body = body]
    <2>4. q.length = r.length
      BY <2>3 DEF Reservation
    <2> HIDE DEF q
    <2>5. held' = {q}
      BY <2>2 DEF q
    <2>6. ~ quarantined' => Charges'
      BY <1>1, <2>1, <2>4, <2>5, SameCharges
    <2> QED
      BY <2>5, <2>6 DEF Charges, OneHeld
  <1>6. CASE Commit
    <2>1. held' = {}
      BY <1>6 DEF Commit
    <2>2. ~ quarantined' => Charges'
      BY <1>1, <1>6, CommitCharges
    <2> QED
      BY <2>1, <2>2 DEF Charges, OneHeld
  <1>7. CASE Abort
    <2>1. held' = {}
      BY <1>7 DEF Abort
    <2>2. ~ quarantined' => Charges'
      BY <1>1, <1>7, AbortCharges
    <2> QED
      BY <2>1, <2>2 DEF Charges, OneHeld
  <1>8. ASSUME Receive \/ \E m \in FrameNumbers : Release(m)
        PROVE  Charges' /\ OneHeld'
    <2>1. UNCHANGED <<published, completed, held>>
      BY <1>8 DEF Receive, Release, producerPage, reclaimPage, holding
    <2>2. \A i \in Slots : slot'[i].reserved = slot[i].reserved /\ slot'[i].length = slot[i].length
      BY <1>8, ReceiveCharges, ReleaseCharges
    <2>3. ~ quarantined' => Charges'
      BY <1>1, <2>1, <2>2, SameCharges
    <2> QED
      BY <2>1, <2>3 DEF Charges, OneHeld
  <1> QED
    BY <1>2, <1>3, <1>4, <1>5, <1>6, <1>7, <1>8, WhichStep

----------------------------------------------------------------------------
(* Conservation *)

\* The bytes of the reservation, and the last frame with bytes.
Extra == IF held = {} THEN 0 ELSE (CHOOSE r \in held : TRUE).length
Top == IF held = {} THEN published ELSE published + 1

\* Where the bytes of the frames and of the reservation end.
Ends == [n \in completed..Top |-> IF n <= published THEN EndOf(n) ELSE arenaWrite + Extra]

LEMMA ExtraIs ==
    ASSUME SpaceInv, OneHeld
    PROVE  /\ Extra \in Nat /\ Top \in Nat /\ completed <= Top /\ Top <= completed + Depth
           /\ \A r \in held : held = {r} /\ r.length = Extra
           /\ Top = published => Extra = 0
           /\ arenaWrite + Extra <= reclaimed + Arena
  <1>0. SpaceType /\ Spans /\ HeldFits
    BY DEF SpaceInv
  <1>1. /\ completed \in Nat /\ published \in Nat /\ completed <= published /\ Depth \in Nat \ {0}
        /\ published <= completed + Depth /\ arenaWrite \in Nat /\ reclaimed \in Nat /\ Arena \in Nat
        /\ arenaWrite <= reclaimed + Arena
    BY <1>0, Cursors DEF Spans
  <1>2. CASE held = {}
    BY <1>1, <1>2 DEF Extra, Top
  <1>3. CASE held # {}
    <2>1. PICK r \in held : r = CHOOSE q \in held : TRUE
      BY <1>3
    <2>2. held = {r}
      BY <2>1 DEF OneHeld
    <2>3. Extra = r.length /\ Top = published + 1
      BY <1>3, <2>1 DEF Extra, Top
    <2>4. r.length \in Nat
      <3>1. r \in Reservation
        BY <1>0 DEF SpaceType
      <3> QED
        BY <1>1, <3>1 DEF Reservation
    <2>5. published < completed + Depth /\ arenaWrite + r.length <= reclaimed + Arena
      BY <1>0 DEF HeldFits
    <2> QED
      BY <1>1, <2>2, <2>3, <2>4, <2>5
  <1> QED
    BY <1>2, <1>3

LEMMA EndsAre ==
    ASSUME SpaceInv, OneHeld
    PROVE  /\ Ends \in [completed..Top -> Nat]
           /\ \A m \in completed..Top : \A n \in m..Top : Ends[m] <= Ends[n]
           /\ Ends[completed] = reclaimed /\ Ends[Top] = arenaWrite + Extra
  <1>0. SpaceType /\ Spans
    BY DEF SpaceInv
  <1>1. /\ completed \in Nat /\ published \in Nat /\ completed <= published
        /\ arenaWrite \in Nat /\ reclaimed \in Nat
    BY <1>0, Cursors
  <1>2. /\ Extra \in Nat /\ Top \in Nat /\ completed <= Top /\ (Top = published => Extra = 0)
        /\ (Top = published \/ Top = published + 1)
    BY ExtraIs DEF Top
  <1>3. /\ \A n \in Int : EndOf(n) \in Nat
        /\ arenaWrite = EndOf(published) /\ EndOf(completed) = reclaimed
        /\ \A m \in completed..published : \A n \in m..published : EndOf(m) <= EndOf(n)
    BY <1>0, EndsAreNumbers DEF Spans, EndOf
  <1>4. \A n \in completed..Top : Ends[n] = IF n <= published THEN EndOf(n) ELSE arenaWrite + Extra
    BY DEF Ends
  <1>5. Ends \in [completed..Top -> Nat]
    <2>1. \A n \in completed..Top : n \in Int
      BY <1>1, <1>2
    <2>2. ASSUME NEW n \in completed..Top
          PROVE  (IF n <= published THEN EndOf(n) ELSE arenaWrite + Extra) \in Nat
      BY <1>1, <1>2, <1>3, <2>1
    <2> QED
      BY <2>2 DEF Ends
  <1> HIDE DEF Ends, Extra, Top, EndOf
  <1>6. ASSUME NEW m \in completed..Top, NEW n \in m..Top
        PROVE  Ends[m] <= Ends[n]
    <2>0. n \in completed..Top
      BY <1>1, <1>2
    <2>1. CASE n <= published
      <3>1. m \in completed..published /\ n \in m..published /\ m <= published
        BY <1>1, <1>2, <2>0, <2>1
      <3> QED
        BY <1>3, <1>4, <2>0, <2>1, <3>1
    <2>2. CASE n > published /\ m <= published
      <3>1. m \in completed..published /\ published \in m..published
        BY <1>1, <1>2, <2>2
      <3>2. EndOf(m) <= arenaWrite /\ EndOf(m) \in Nat
        BY <1>3, <3>1
      <3>3. Ends[n] = arenaWrite + Extra /\ Ends[m] = EndOf(m)
        BY <1>1, <1>4, <2>0, <2>2
      <3> QED
        BY <1>1, <1>2, <3>2, <3>3
    <2>3. CASE m > published
      <3>1. n > published /\ ~(n <= published) /\ ~(m <= published)
        BY <1>1, <1>2, <2>3
      <3>2. Ends[n] = arenaWrite + Extra /\ Ends[m] = arenaWrite + Extra
        BY <1>4, <2>0, <3>1
      <3> QED
        BY <1>1, <1>2, <3>2
    <2> QED
      BY <1>1, <1>2, <2>0, <2>1, <2>2, <2>3
  <1>7. Ends[completed] = reclaimed
    <2>1. completed \in completed..Top
      BY <1>1, <1>2
    <2> QED
      BY <1>1, <1>3, <1>4, <2>1
  <1>8. Ends[Top] = arenaWrite + Extra
    <2>1. Top \in completed..Top
      BY <1>1, <1>2
    <2>2. CASE Top = published
      BY <1>1, <1>2, <1>3, <1>4, <2>1, <2>2
    <2>3. CASE Top = published + 1
      BY <1>1, <1>4, <2>1, <2>3
    <2> QED
      BY <1>2, <2>2, <2>3
  <1> QED
    BY <1>5, <1>6, <1>7, <1>8

\* Every block has as many places as its slot is charged with.
LEMMA BlocksAreCharged ==
    ASSUME SpaceInv, OneHeld, Charges, ~ quarantined, NEW n \in (completed + 1)..Top
    PROVE  Ends[n] - Ends[n - 1] = Frame(n).reserved
  <1>0. SpaceType /\ Spans
    BY DEF SpaceInv
  <1>1. completed \in Nat /\ published \in Nat /\ completed <= published /\ arenaWrite \in Nat
    BY <1>0, Cursors
  <1>2. /\ Extra \in Nat /\ Top \in Nat /\ (Top = published \/ Top = published + 1)
        /\ (Top = published + 1 => held # {})
    BY <1>1, ExtraIs DEF Top
  <1>3. /\ \A k \in Int : EndOf(k) \in Nat /\ Frame(k).length \in Nat /\ Frame(k).start \in Nat
        /\ arenaWrite = EndOf(published)
    <2>1. \A k \in 0..Arena : k \in Nat
      BY Constants
    <2> QED
      BY <1>0, <2>1, EndsAreNumbers DEF Spans
  <1>4. \A k \in completed..Top : Ends[k] = IF k <= published THEN EndOf(k) ELSE arenaWrite + Extra
    BY DEF Ends
  <1>5. n \in Int /\ n \in completed..Top /\ n - 1 \in completed..Top /\ n # completed
        /\ n - 1 <= published /\ n - 1 \in Int
    BY <1>1, <1>2
  <1> HIDE DEF Ends, Extra, Top
  <1>6. Ends[n - 1] = EndOf(n - 1)
    BY <1>4, <1>5
  <1>7. CASE n <= published
    <2>1. n \in Live
      BY <1>1, <1>2, <1>5, <1>7 DEF Live
    <2>2. Frame(n).start = EndOf(n - 1) /\ Frame(n).reserved = Frame(n).length
      BY <1>0, <2>1 DEF Spans, Charges
    <2>3. Ends[n] = Frame(n).start + Frame(n).length
      BY <1>4, <1>5, <1>7 DEF EndOf
    <2> QED
      BY <1>3, <1>5, <1>6, <2>2, <2>3
  <1>8. CASE n > published
    <2>1. n = published + 1 /\ n - 1 = published /\ held # {}
      BY <1>1, <1>2, <1>5, <1>8
    <2>2. Ends[n] = arenaWrite + Extra
      BY <1>1, <1>4, <1>5, <1>8
    <2>3. Frame(n).reserved = Extra
      <3>1. PICK r \in held : TRUE
        BY <2>1
      <3>2. r.length = Extra
        BY ExtraIs
      <3> QED
        BY <2>1, <3>1, <3>2 DEF Charges
    <2>4. Ends[n - 1] = arenaWrite
      BY <1>3, <1>6, <2>1
    <2> QED
      BY <1>1, <1>2, <2>2, <2>3, <2>4
  <1> QED
    BY <1>1, <1>5, <1>7, <1>8

\* A charged slot belongs to a frame that has bytes, or to the reservation.
LEMMA ChargedHasFrame ==
    ASSUME SpaceInv, Charges, ~ quarantined, NEW i \in Slots, slot[i].reserved # 0
    PROVE  \E n \in (completed + 1)..Top : slotOf(n) = i
  <1>0. SpaceType
    BY DEF SpaceInv
  <1>1. completed \in Nat /\ published \in Nat /\ completed <= published /\ Depth \in Nat \ {0}
    BY <1>0, Cursors
  <1>2. i \in Nat /\ slotOf(i + 1) = i
    <2>1. i \in 0..(Depth - 1)
      BY DEF Slots
    <2>2. i \in Nat /\ i + 1 - 1 = i
      BY <1>1, <2>1
    <2>3. i % Depth = i
      BY <1>1, <2>1
    <2> QED
      BY <2>2, <2>3 DEF slotOf
  <1>3. PICK n \in (completed + 1)..(completed + Depth) : slotOf(n) = i
    <2>1. i + 1 \in Nat
      BY <1>2
    <2>2. \E k \in (completed + 1)..(completed + Depth) : slotOf(k) = slotOf(i + 1)
      BY <1>1, <2>1, SlotsCover
    <2> QED
      BY <1>2, <2>2
  <1>4. n \in Window /\ Frame(n).reserved # 0
    BY <1>3 DEF Window, Frame
  <1>5. ~(n > published) \/ (held # {} /\ n = published + 1)
    BY <1>4 DEF Charges
  <1>6. n \in (completed + 1)..Top
    BY <1>1, <1>3, <1>5 DEF Top
  <1> QED
    BY <1>3, <1>6

LEMMA ChargedCount ==
    ASSUME SpaceInv, OneHeld, Charges, ~ quarantined
    PROVE  Cardinality(ChargedBytes) = arenaWrite + Extra - reclaimed
  <1> DEFINE c == completed
             t == Top
             P == Places(c, t, Ends)
             Q == ChargedBytes
             g == [u \in P |-> <<slotOf(u[1]), u[2]>>]
  <1>0. SpaceType
    BY DEF SpaceInv
  <1>1. /\ c \in Nat /\ t \in Nat /\ c <= t /\ t <= c + Depth /\ Depth \in Nat \ {0} /\ Arena \in Nat
        /\ Ends \in [c..t -> Nat] /\ \A m \in c..t : \A n \in m..t : Ends[m] <= Ends[n]
        /\ Ends[c] = reclaimed /\ Ends[t] = arenaWrite + Extra
    BY <1>0, Cursors, ExtraIs, EndsAre
  <1>2. IsFiniteSet(P) /\ Cardinality(P) = arenaWrite + Extra - reclaimed
    <2>1. IsFiniteSet(P) /\ Cardinality(P) = Ends[t] - Ends[c]
      <3> HIDE DEF c, t
      <3> QED
        BY <1>1, Tiling
    <2>2. arenaWrite \in Nat /\ reclaimed \in Nat /\ Extra \in Nat
      BY <1>0, Cursors, ExtraIs
    <2>3. Ends[c] = reclaimed /\ Ends[t] = arenaWrite + Extra
      BY <1>1
    <2> HIDE DEF P, c, t
    <2> QED
      BY <2>1, <2>2, <2>3
  <1>3. \A n \in (c + 1)..t : /\ n \in Int /\ slotOf(n) \in Slots /\ Frame(n) = slot[slotOf(n)]
                              /\ slot[slotOf(n)].reserved \in 0..Arena
                              /\ Ends[n] - Ends[n - 1] = slot[slotOf(n)].reserved
    <2>1. ASSUME NEW n \in (c + 1)..t
          PROVE  /\ n \in Int /\ slotOf(n) \in Slots /\ Frame(n) = slot[slotOf(n)]
                 /\ slot[slotOf(n)].reserved \in 0..Arena
                 /\ Ends[n] - Ends[n - 1] = slot[slotOf(n)].reserved
      <3>1. n \in Int /\ Frame(n) = slot[slotOf(n)]
        BY <1>1 DEF Frame
      <3>2. slotOf(n) \in Slots /\ Frame(n) \in SlotRecord
        BY <1>0, <3>1, Cursors
      <3>3. Ends[n] - Ends[n - 1] = Frame(n).reserved
        BY BlocksAreCharged
      <3> QED
        BY <3>1, <3>2, <3>3 DEF SlotRecord
    <2> QED
      BY <2>1
  <1>4. \A u \in P : \E n \in (c + 1)..t, b \in 1..Arena :
           /\ u = <<n, b>> /\ b <= slot[slotOf(n)].reserved /\ g[u] = <<slotOf(n), b>>
    <2>1. ASSUME NEW u \in P
          PROVE  \E n \in (c + 1)..t, b \in 1..Arena :
                    /\ u = <<n, b>> /\ b <= slot[slotOf(n)].reserved /\ g[u] = <<slotOf(n), b>>
      <3>1. PICK n \in (c + 1)..t, b \in Nat : u = <<n, b>> /\ b >= 1 /\ b <= Ends[n] - Ends[n - 1]
        BY DEF Places
      <3>2. b <= slot[slotOf(n)].reserved /\ slot[slotOf(n)].reserved \in 0..Arena
        BY <1>3, <3>1
      <3>3. b \in 1..Arena
        BY <1>1, <3>1, <3>2
      <3>4. g[u] = <<slotOf(n), b>>
        BY <3>1
      <3> QED
        BY <3>1, <3>2, <3>3, <3>4
    <2> QED
      BY <2>1
  <1>5. \A n \in (c + 1)..t, b \in 1..Arena :
           b <= slot[slotOf(n)].reserved => <<n, b>> \in P /\ g[<<n, b>>] = <<slotOf(n), b>>
    <2>1. ASSUME NEW n \in (c + 1)..t, NEW b \in 1..Arena, b <= slot[slotOf(n)].reserved
          PROVE  <<n, b>> \in P /\ g[<<n, b>>] = <<slotOf(n), b>>
      <3>1. b \in Nat /\ b >= 1
        BY <1>1
      <3>2. b <= Ends[n] - Ends[n - 1]
        BY <1>3, <2>1
      <3>3. <<n, b>> \in P
        BY <3>1, <3>2 DEF Places
      <3> QED
        BY <3>3
    <2> QED
      BY <2>1
  <1> HIDE DEF P
  <1>6. \A i \in Slots, b \in 1..Arena : b <= slot[i].reserved <=> <<i, b>> \in Q
    BY DEF ChargedBytes
  <1>7. g \in [P -> Q]
    <2>1. ASSUME NEW u \in P
          PROVE  g[u] \in Q
      <3>1. PICK n \in (c + 1)..t, b \in 1..Arena :
                /\ u = <<n, b>> /\ b <= slot[slotOf(n)].reserved /\ g[u] = <<slotOf(n), b>>
        BY <1>4
      <3> HIDE DEF g, Q
      <3> QED
        BY <1>3, <1>6, <3>1
    <2> QED
      BY <2>1
  <1> HIDE DEF g
  <1>8. ASSUME NEW u \in P, NEW v \in P, g[u] = g[v]
        PROVE  u = v
    <2>1. PICK n \in (c + 1)..t, b \in 1..Arena : u = <<n, b>> /\ g[u] = <<slotOf(n), b>>
      BY <1>4
    <2>2. PICK m \in (c + 1)..t, d \in 1..Arena : v = <<m, d>> /\ g[v] = <<slotOf(m), d>>
      BY <1>4
    <2>3. slotOf(n) = slotOf(m) /\ b = d
      <3> HIDE DEF Q, c, t
      <3>1. <<slotOf(n), b>> = <<slotOf(m), d>>
        BY <1>8, <2>1, <2>2
      <3> QED
        BY <3>1
    <2>4. n \in (c + 1)..(c + Depth) /\ m \in (c + 1)..(c + Depth)
      BY <1>1
    <2>5. n = m
      BY <1>1, <2>3, <2>4, SlotsDiffer
    <2> QED
      BY <2>1, <2>2, <2>3, <2>5
  <1>9. ASSUME NEW w \in Q
        PROVE  \E u \in P : g[u] = w
    <2>1. PICK i \in Slots, b \in 1..Arena : w = <<i, b>> /\ b <= slot[i].reserved
      BY DEF ChargedBytes
    <2>2. slot[i].reserved # 0
      BY <1>1, <2>1
    <2>3. PICK n \in (c + 1)..t : slotOf(n) = i
      BY <2>2, ChargedHasFrame
    <2>4. <<n, b>> \in P /\ g[<<n, b>>] = <<i, b>>
      BY <1>5, <2>1, <2>3
    <2> QED
      BY <2>1, <2>4
  <1>10. Cardinality(Q) = Cardinality(P)
    <2> HIDE DEF Q
    <2> QED
      BY <1>2, <1>7, <1>8, <1>9, SameSize
  <1> QED
    BY <1>2, <1>10

LEMMA ReservedCount ==
    ASSUME SpaceInv, OneHeld
    PROVE  Cardinality(ReservedBytes) = Extra
  <1>1. CASE held = {}
    <2>1. ReservedBytes = {}
      BY <1>1 DEF ReservedBytes
    <2>2. Extra = 0
      BY <1>1 DEF Extra
    <2> QED
      BY <2>1, <2>2, FS_EmptySet
  <1>2. CASE held # {}
    <2>1. PICK r \in held : TRUE
      BY <1>2
    <2>2. held = {r} /\ r.length = Extra /\ Extra \in Nat
      BY ExtraIs
    <2>3. r.length <= Arena /\ Arena \in Nat
      <3>1. r \in Reservation
        BY DEF SpaceInv, SpaceType
      <3> QED
        BY <3>1, Constants DEF Reservation
    <2> DEFINE S == 1..Extra
               h == [b \in S |-> <<r, b>>]
    <2>4. \A b \in S : b \in 1..Arena /\ b <= r.length
      BY <2>2, <2>3
    <2>5. \A w : w \in ReservedBytes <=> \E b \in S : w = <<r, b>>
      <3>1. ASSUME NEW w \in ReservedBytes
            PROVE  \E b \in S : w = <<r, b>>
        <4>1. PICK q \in held, b \in 1..Arena : w = <<q, b>> /\ b <= q.length
          BY DEF ReservedBytes
        <4>2. q = r
          BY <2>2
        <4>3. b \in S
          BY <2>2, <2>3, <4>1, <4>2
        <4> QED
          BY <4>1, <4>2, <4>3
      <3>2. ASSUME NEW b \in S
            PROVE  <<r, b>> \in ReservedBytes
        BY <2>4 DEF ReservedBytes
      <3> QED
        BY <3>1, <3>2
    <2>6. h \in [S -> ReservedBytes]
      BY <2>5
    <2>7. \A a, b \in S : h[a] = h[b] => a = b
      OBVIOUS
    <2>8. \A w \in ReservedBytes : \E b \in S : h[b] = w
      BY <2>5
    <2>9. IsFiniteSet(S) /\ Cardinality(S) = Extra
      <3>1. IsFiniteSet(1..Extra) /\ Cardinality(1..Extra) = IF 1 > Extra THEN 0 ELSE Extra - 1 + 1
        BY <2>2, FS_Interval
      <3> QED
        BY <2>2, <3>1
    <2> HIDE DEF h, S
    <2> QED
      BY <2>6, <2>7, <2>8, <2>9, SameSize
  <1> QED
    BY <1>1, <1>2

ChargeInv == RingInv /\ Charges /\ OneHeld

\* Conservation of bytes: for every depth, arena, page size and number of
\* frames, also when callers nest reservations, the lengths the slots are
\* charged with add up to what lies between the reclaim cursor and the write
\* cursor and what is reserved, and never to more than the arena, as long as
\* the ring is not quarantined.
THEOREM BytesAreConserved == Spec => []BytesConserved
  <1>1. Init => ChargeInv
    <2> SUFFICES ASSUME Init PROVE Charges /\ OneHeld
      BY InitRing DEF ChargeInv
    <2>1. held = {} /\ completed = 0 /\ published = 0 /\ slot = [i \in Slots |-> EmptySlot]
      BY DEF Init
    <2>2. \A n \in Int : Frame(n) = EmptySlot
      BY <2>1, SlotExists DEF Frame
    <2>3. EmptySlot.reserved = 0 /\ Live = {} /\ \A n \in Window : n \in Int
      BY <2>1, Constants DEF EmptySlot, Live, Window
    <2> QED
      BY <2>1, <2>2, <2>3 DEF Charges, OneHeld
  <1>2. ChargeInv /\ [Next]_vars => ChargeInv'
    BY RingInductive, StepCharges DEF ChargeInv
  <1>3. ChargeInv => BytesConserved
    <2> SUFFICES ASSUME ChargeInv, ~ quarantined
                 PROVE  /\ Cardinality(ChargedBytes) = arenaWrite - reclaimed + Cardinality(ReservedBytes)
                        /\ Cardinality(ChargedBytes) <= Arena
      BY DEF BytesConserved
    <2>1. SpaceInv /\ SpaceType /\ OneHeld /\ Charges
      BY DEF ChargeInv, RingInv, SpaceInv
    <2>2. /\ Cardinality(ChargedBytes) = arenaWrite + Extra - reclaimed
          /\ Cardinality(ReservedBytes) = Extra
      BY <2>1, ChargedCount, ReservedCount
    <2>3. /\ arenaWrite \in Nat /\ reclaimed \in Nat /\ Extra \in Nat /\ Arena \in Nat
          /\ arenaWrite + Extra <= reclaimed + Arena
      BY <2>1, Cursors, ExtraIs
    <2> QED
      BY <2>2, <2>3
  <1> QED
    BY <1>1, <1>2, <1>3, PTL DEF Spec

=============================================================================
