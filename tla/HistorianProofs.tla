----------------------------- MODULE HistorianProofs -----------------------------
(***************************************************************************)
(* Safety of compartment publication for any number of processes, messages *)
(* and clock ticks, with crashes and clock steps.                          *)
(*                                                                         *)
(* ContiguousHistory is not inductive: Publish appends a draft that was    *)
(* cut minutes earlier.  The strengthening says what a draft is (a split   *)
(* of the chunk that its run cut) and that the run named in the lease row  *)
(* has read the current end of the history.                                *)
(***************************************************************************)
EXTENDS Historian, SequenceTheorems, TLAPS

----------------------------------------------------------------------------
(* Lists of compartments *)

\* The last covered ordinal of a list of rows is a number.
LEMMA LastEndType ==
    ASSUME NEW list \in Seq(Compartment)
    PROVE  LastEnd(list) \in Nat
<1>1. CASE list = <<>>
  BY <1>1 DEF LastEnd
<1>2. CASE list # <<>>
  <2>1. Len(list) \in 1..Len(list)
    BY <1>2, EmptySeq
  <2>2. list[Len(list)] \in Compartment
    BY <2>1, ElementOfSeq
  <2> QED BY <1>2, <2>2 DEF LastEnd, Compartment
<1> QED BY <1>1, <1>2

\* MAX(sequence) + 1 is the number of rows when rows are numbered from 0.
LEMMA NextSequenceIsLen ==
    ASSUME NEW list \in Seq(Compartment), NumberedFrom(list, 0)
    PROVE  NextSequence(list) = Len(list)
<1>1. CASE list = <<>>
  BY <1>1 DEF NextSequence
<1>2. CASE list # <<>>
  <2> DEFINE S == {list[i].sequence : i \in 1..Len(list)}
  <2> DEFINE IsMax(m) == m \in S /\ \A i \in 1..Len(list) : list[i].sequence <= m
  <2>1. Len(list) \in Nat /\ Len(list) >= 1
    BY <1>2
  <2>2. \A i \in 1..Len(list) : list[i].sequence = i - 1
    BY <2>1 DEF NumberedFrom
  <2>3. IsMax(Len(list) - 1)
    <3>1. list[Len(list)].sequence = Len(list) - 1
      BY <2>1, <2>2
    <3> QED BY <2>1, <2>2, <3>1
  <2>4. \A m : IsMax(m) => m = Len(list) - 1
    <3> SUFFICES ASSUME NEW m, IsMax(m) PROVE m = Len(list) - 1
      OBVIOUS
    <3>1. PICK i \in 1..Len(list) : m = list[i].sequence
      OBVIOUS
    <3>2. m = i - 1 /\ Len(list) - 1 <= m
      BY <2>1, <2>2, <3>1
    <3> QED BY <2>1, <3>2
  <2>5. (CHOOSE m \in S : \A i \in 1..Len(list) : list[i].sequence <= m) = Len(list) - 1
    BY <2>3, <2>4
  <2> HIDE DEF IsMax
  <2>6. NextSequence(list) = (Len(list) - 1) + 1
    BY <1>2, <2>5 DEF NextSequence
  <2> QED BY <2>1, <2>6
<1> QED BY <1>1, <1>2

\* A non-empty list of increasing ends is a sequence of numbers of its range.
LEMMA EndListsType ==
    ASSUME NEW f \in Nat, NEW l \in Nat, NEW ends \in EndLists(f, l)
    PROVE  /\ ends \in Seq(Nat) /\ Len(ends) \in 1..(l + 1 - f)
           /\ ends \in [1..Len(ends) -> f..l] /\ DOMAIN ends = 1..Len(ends)
           /\ \A i \in 2..Len(ends) : ends[i-1] < ends[i]
<1>1. PICK n \in 1..(l + 1 - f) : ends \in [1..n -> f..l]
  BY DEF EndLists
<1>2. n \in Nat /\ \A i \in 1..n : ends[i] \in Nat
  BY <1>1
<1>3. ends \in Seq(Nat) /\ Len(ends) = n
  BY <1>1, <1>2
<1>4. \A i \in 2..Len(ends) : ends[i-1] < ends[i]
  BY DEF EndLists
<1> QED BY <1>1, <1>3, <1>4

\* What the historian may publish for f..l: rows that begin at f, adjoin and
\* are numbered from n.
LEMMA SplitProperties ==
    ASSUME NEW f \in Nat, NEW l \in Nat, NEW n \in Nat, NEW ends \in EndLists(f, l)
    PROVE  LET block == Split(f, ends, n) IN
           /\ block \in Seq(Compartment) /\ Len(block) = Len(ends) /\ block # <<>>
           /\ ContiguousFrom(block, f) /\ NumberedFrom(block, n)
           /\ LastEnd(block) \in f..l
<1> DEFINE block == Split(f, ends, n)
<1>1. /\ Len(ends) \in Nat /\ Len(ends) >= 1 /\ DOMAIN ends = 1..Len(ends)
      /\ \A i \in 1..Len(ends) : ends[i] \in f..l
      /\ \A i \in 2..Len(ends) : ends[i-1] < ends[i]
  <2>1. /\ Len(ends) \in 1..(l + 1 - f) /\ ends \in [1..Len(ends) -> f..l]
        /\ DOMAIN ends = 1..Len(ends)
        /\ \A i \in 2..Len(ends) : ends[i-1] < ends[i]
    BY EndListsType
  <2> QED BY <2>1
<1>2. \A i \in 1..Len(ends) :
         /\ block[i] \in Compartment
         /\ block[i].sequence = n + i - 1
         /\ block[i].endMessage = ends[i]
         /\ block[i].startMessage = IF i = 1 THEN f ELSE ends[i-1] + 1
  BY <1>1 DEF Split, Compartment
<1>3. block \in Seq(Compartment) /\ Len(block) = Len(ends)
  BY <1>1, <1>2 DEF Split
<1>4. block # <<>>
  BY <1>1, <1>3
<1>5. ContiguousFrom(block, f)
  <2> SUFFICES ASSUME NEW i \in 1..Len(ends)
               PROVE  /\ block[i].startMessage = IF i = 1 THEN f ELSE block[i-1].endMessage + 1
                      /\ block[i].startMessage <= block[i].endMessage
    BY <1>3 DEF ContiguousFrom
  <2>1. CASE i = 1
    BY <1>1, <1>2, <2>1
  <2>2. CASE i # 1
    <3>1. i \in 2..Len(ends) /\ i - 1 \in 1..Len(ends)
      BY <1>1, <2>2
    <3>2. ends[i-1] < ends[i] /\ ends[i-1] \in Nat /\ ends[i] \in Nat
      BY <1>1, <3>1
    <3>3. /\ block[i].startMessage = ends[i-1] + 1 /\ block[i].endMessage = ends[i]
          /\ block[i-1].endMessage = ends[i-1]
      BY <1>2, <2>2, <3>1
    <3> HIDE DEF block
    <3> QED BY <2>2, <3>2, <3>3
  <2> QED BY <2>1, <2>2
<1>6. NumberedFrom(block, n)
  BY <1>2, <1>3 DEF NumberedFrom
<1>7. LastEnd(block) \in f..l
  <2>1. LastEnd(block) = block[Len(ends)].endMessage
    BY <1>3, <1>4 DEF LastEnd
  <2> QED BY <1>1, <1>2, <2>1
<1> QED BY <1>3, <1>4, <1>5, <1>6, <1>7

\* Dropping the provisional last row of such a block leaves such a block.
LEMMA SplitWithoutLast ==
    ASSUME NEW f \in Nat, NEW l \in Nat, NEW n \in Nat, NEW ends \in EndLists(f, l),
           Len(Split(f, ends, n)) >= 2
    PROVE  \E e \in EndLists(f, l) :
              SubSeq(Split(f, ends, n), 1, Len(Split(f, ends, n)) - 1) = Split(f, e, n)
<1> DEFINE block == Split(f, ends, n)
           k     == Len(ends) - 1
           e     == [i \in 1..k |-> ends[i]]
<1>1. /\ block \in Seq(Compartment) /\ Len(block) = Len(ends)
      /\ Len(ends) \in 1..(l + 1 - f) /\ ends \in [1..Len(ends) -> f..l]
      /\ DOMAIN ends = 1..Len(ends)
      /\ \A i \in 2..Len(ends) : ends[i-1] < ends[i]
  BY SplitProperties, EndListsType
<1>2. k \in 1..(l + 1 - f) /\ k < Len(ends)
  BY <1>1
<1>3. e \in [1..k -> f..l] /\ Len(e) = k
  BY <1>1, <1>2
<1>4. e \in EndLists(f, l)
  <2>1. \A i \in 2..Len(e) : e[i-1] < e[i]
    BY <1>1, <1>2, <1>3
  <2> HIDE DEF e
  <2> QED BY <1>2, <1>3, <2>1 DEF EndLists
<1>5. /\ SubSeq(block, 1, k) \in Seq(Compartment) /\ Len(SubSeq(block, 1, k)) = k
      /\ \A i \in 1..k : SubSeq(block, 1, k)[i] = block[i]
  BY <1>1, <1>2, ElementOfSeq, SubSeqProperties
<1>6. Split(f, e, n) \in Seq(Compartment) /\ Len(Split(f, e, n)) = k
  BY <1>3, <1>4, SplitProperties
<1>7. \A i \in 1..k : Split(f, e, n)[i] = block[i]
  BY <1>1, <1>2, <1>3 DEF Split
<1>8. SubSeq(block, 1, k) = Split(f, e, n)
  BY <1>5, <1>6, <1>7, SeqEqual
<1> QED BY <1>1, <1>4, <1>8

\* A wider window allows everything a narrower one does.
LEMMA EndListsMonotone ==
    ASSUME NEW f \in Nat, NEW l \in Nat, NEW m \in Nat, l <= m
    PROVE  EndLists(f, l) \subseteq EndLists(f, m)
<1> SUFFICES ASSUME NEW ends \in EndLists(f, l) PROVE ends \in EndLists(f, m)
  OBVIOUS
<1>1. PICK n \in 1..(l + 1 - f) : ends \in [1..n -> f..l]
  BY DEF EndLists
<1>2. n \in 1..(m + 1 - f) /\ ends \in [1..n -> f..m]
  BY <1>1
<1>3. \A i \in 2..Len(ends) : ends[i-1] < ends[i]
  BY DEF EndLists
<1> QED BY <1>2, <1>3 DEF EndLists

\* Appending a block that begins where the list stops keeps the list
\* contiguous and numbered, and moves its end.
LEMMA AppendBlock ==
    ASSUME NEW list \in Seq(Compartment), ContiguousFrom(list, 1), NumberedFrom(list, 0),
           NEW block \in Seq(Compartment), block # <<>>,
           ContiguousFrom(block, LastEnd(list) + 1), NumberedFrom(block, Len(list))
    PROVE  /\ list \o block \in Seq(Compartment)
           /\ ContiguousFrom(list \o block, 1)
           /\ NumberedFrom(list \o block, 0)
           /\ LastEnd(list \o block) = LastEnd(block)
<1> DEFINE all == list \o block
<1>1. /\ all \in Seq(Compartment) /\ Len(all) = Len(list) + Len(block)
      /\ \A i \in 1..Len(all) : all[i] = IF i <= Len(list) THEN list[i] ELSE block[i - Len(list)]
  BY ConcatProperties
<1>2. Len(list) \in Nat /\ Len(block) \in Nat /\ Len(block) >= 1
  BY EmptySeq, LenProperties
<1> HIDE DEF all
<1>3. ContiguousFrom(all, 1)
  <2> SUFFICES ASSUME NEW i \in 1..Len(all)
               PROVE  /\ all[i].startMessage = IF i = 1 THEN 1 ELSE all[i-1].endMessage + 1
                      /\ all[i].startMessage <= all[i].endMessage
    BY DEF ContiguousFrom
  <2>1. CASE i <= Len(list)
    <3>1. all[i] = list[i] /\ (i # 1 => all[i-1] = list[i-1])
      BY <1>1, <1>2, <2>1
    <3>2. i \in 1..Len(list)
      BY <1>2, <2>1
    <3> QED BY <3>1, <3>2 DEF ContiguousFrom
  <2>2. CASE i = Len(list) + 1
    <3>1. all[i] = block[1] /\ 1 \in 1..Len(block)
      BY <1>1, <1>2, <2>2
    <3>2. block[1].startMessage = LastEnd(list) + 1 /\ block[1].startMessage <= block[1].endMessage
      BY <3>1 DEF ContiguousFrom
    <3>3. CASE i = 1
      <4>1. Len(list) = 0 /\ list = <<>>
        BY <1>2, <2>2, <3>3, EmptySeq
      <4> QED BY <3>1, <3>2, <3>3, <4>1 DEF LastEnd
    <3>4. CASE i # 1
      <4>1. list # <<>> /\ all[i-1] = list[Len(list)]
        BY <1>1, <1>2, <2>2, <3>4
      <4> QED BY <3>1, <3>2, <3>4, <4>1 DEF LastEnd
    <3> QED BY <3>3, <3>4
  <2>3. CASE i > Len(list) + 1
    <3> DEFINE j == i - Len(list)
    <3>1. /\ j \in 1..Len(block) /\ j # 1 /\ i # 1
          /\ all[i] = block[j] /\ all[i-1] = block[j-1]
      <4>1. i - 1 \in 1..Len(all) /\ ~(i <= Len(list)) /\ ~(i - 1 <= Len(list))
        BY <1>1, <1>2, <2>3
      <4>2. all[i] = block[i - Len(list)] /\ all[i-1] = block[(i-1) - Len(list)]
        BY <1>1, <4>1
      <4>3. (i-1) - Len(list) = j - 1 /\ j \in 1..Len(block) /\ j # 1 /\ i # 1
        BY <1>1, <1>2, <2>3
      <4> QED BY <4>2, <4>3
    <3> HIDE DEF j
    <3> QED BY <3>1 DEF ContiguousFrom
  <2> QED BY <1>1, <1>2, <2>1, <2>2, <2>3
<1>4. NumberedFrom(all, 0)
  <2> SUFFICES ASSUME NEW i \in 1..Len(all) PROVE all[i].sequence = i - 1
    BY DEF NumberedFrom
  <2>1. CASE i <= Len(list)
    BY <1>1, <1>2, <2>1 DEF NumberedFrom
  <2>2. CASE i > Len(list)
    <3>1. i - Len(list) \in 1..Len(block) /\ all[i] = block[i - Len(list)]
      BY <1>1, <1>2, <2>2
    <3>2. block[i - Len(list)].sequence = Len(list) + (i - Len(list)) - 1
      BY <3>1 DEF NumberedFrom
    <3> QED BY <1>1, <1>2, <3>1, <3>2
  <2> QED BY <1>1, <1>2, <2>1, <2>2
<1>5. LastEnd(all) = LastEnd(block)
  <2>1. all # <<>> /\ all[Len(all)] = block[Len(block)]
    BY <1>1, <1>2
  <2> QED BY <2>1 DEF LastEnd
<1> QED BY <1>1, <1>3, <1>4, <1>5 DEF all

----------------------------------------------------------------------------
(* The inductive invariant *)

USE ProcsAssumption, BoundAssumption

\* A validated draft splits a range that begins at the run's offset.
DraftWellFormed ==
    \A p \in Procs :
        run[p].pc = "drafted" =>
            \E ends \in EndLists(run[p].offset, MaxRaw) :
                run[p].draft = Split(run[p].offset, ends, run[p].sequenceOffset)

IInv == /\ TypeOK
        /\ ContiguousHistory
        /\ PublishIsFresh
        /\ FloorTracksHistory
        /\ DraftWellFormed

----------------------------------------------------------------------------

\* The records a run is built from.
Runs == [pc : RunStates, kind : {"incremental", "wrapup"}, offset : Nat,
         sequenceOffset : Nat, chunkEnd : 0..MaxRaw, draft : Seq(Compartment)]

Wraps == [pc : WrapStates, target : 0..MaxRaw, before : Nat, lost : BOOLEAN]

\* Initial records have their types.
LEMMA InitialRecords == IdleRun \in Runs /\ NoWrapup \in Wraps
<1>1. <<>> \in Seq(Compartment)
  BY EmptySeq
<1> QED BY <1>1 DEF IdleRun, Runs, RunStates, NoWrapup, Wraps, WrapStates

\* The initial state satisfies the inductive invariant.
LEMMA InitInv == Init => IInv
<1> SUFFICES ASSUME Init PROVE IInv
  OBVIOUS
<1>1. TypeOK
  <2>1. <<>> \in Seq(Compartment)
    BY EmptySeq
  <2>2. run \in [Procs -> Runs] /\ wrap \in [Procs -> Wraps]
    BY InitialRecords DEF Init
  <2>3. NoRow \in [holder : Holders, ttl : 0..LeaseTTL] /\ NoRow \in [holder : Holders, ttl : 0..MarkerTTL]
    BY DEF NoRow, Holders
  <2> QED BY <2>1, <2>2, <2>3 DEF Init, TypeOK, Runs, Wraps
<1>2. ContiguousHistory
  BY DEF Init, ContiguousHistory, validateStoredCompartments, ContiguousFrom, NumberedFrom
<1>3. PublishIsFresh /\ DraftWellFormed
  BY DEF Init, PublishIsFresh, DraftWellFormed, IdleRun
<1>4. FloorTracksHistory
  BY DEF Init, FloorTracksHistory, LastEnd
<1> QED BY <1>1, <1>2, <1>3, <1>4 DEF IInv

\* A lease or marker row with a validity of at most t ticks.
Rows(t) == [holder : Holders, ttl : 0..t]

\* Writing, releasing and abandoning rows keeps their type.
LEMMA RowTypes ==
    ASSUME NEW t \in Nat \ {0}, NEW row \in Rows(t), NEW p \in Procs
    PROVE  /\ NoRow \in Rows(t)
           /\ Acquired(p, t) \in Rows(t) /\ Acquired(p, t).holder = p
           /\ Released(row, p) \in Rows(t) /\ Released(row, p).holder \in {Nobody, row.holder}
           /\ Abandoned(row, p) \in Rows(t) /\ Abandoned(row, p).holder \in {Orphan, row.holder}
BY DEF NoRow, Acquired, Released, Abandoned, Holders, Rows

\* Time does not change the holder of a row.
LEMMA AgedRow ==
    ASSUME NEW t \in Nat \ {0}, NEW row \in Rows(t)
    PROVE  /\ Older(row) \in Rows(t) /\ Older(row).holder = row.holder
           /\ [row EXCEPT !.ttl = t] \in Rows(t) /\ [row EXCEPT !.ttl = t].holder = row.holder
BY DEF Older, Rows

\* The type invariant in terms of the record sets above.
TypeParts ==
    /\ raw \in 0..MaxRaw
    /\ compartments \in Seq(Compartment)
    /\ floor \in Nat /\ pending \in Nat
    /\ flag \in BOOLEAN /\ emergency \in BOOLEAN
    /\ lease \in Rows(LeaseTTL) /\ marker \in Rows(MarkerTTL)
    /\ run \in [Procs -> Runs] /\ wrap \in [Procs -> Wraps]

\* It is the type invariant, in both states of a step.
LEMMA TypeOKParts == (TypeOK <=> TypeParts) /\ (TypeOK' <=> TypeParts')
BY DEF TypeOK, TypeParts, Runs, Wraps, Rows

\* A run moves to another control point and keeps what it read.
LEMMA MoveRunEffect ==
    ASSUME NEW p \in Procs, NEW pc \in RunStates, run \in [Procs -> Runs], MoveRun(p, pc)
    PROVE  /\ run' \in [Procs -> Runs] /\ run'[p].pc = pc
           /\ \A q \in Procs : q # p => run'[q] = run[q]
BY DEF MoveRun, Runs

\* A run ends: what it read and drafted is gone.
LEMMA EndRunEffect ==
    ASSUME NEW p \in Procs, NEW pc \in RunStates, run \in [Procs -> Runs], EndRun(p, pc)
    PROVE  /\ run' \in [Procs -> Runs] /\ run'[p].pc = pc
           /\ \A q \in Procs : q # p => run'[q] = run[q]
<1>1. run[p].kind \in {"incremental", "wrapup"}
  BY DEF Runs
<1>2. [IdleRun EXCEPT !.pc = pc, !.kind = run[p].kind] \in Runs
  BY <1>1, InitialRecords DEF Runs
<1>3. [IdleRun EXCEPT !.pc = pc, !.kind = run[p].kind].pc = pc
  BY DEF IdleRun
<1> QED BY <1>2, <1>3 DEF EndRun

\* A reaped marker is a row.
LEMMA ReapedMarkerType ==
    ASSUME TypeOK PROVE ReapedMarker \in Rows(MarkerTTL)
BY DEF TypeOK, ReapedMarker, NoRow, Holders, Rows

\* A wrapup that ends, with or without success, leaves a typed state.
LEMMA EndWrapupEffect ==
    ASSUME NEW p \in Procs, NEW success \in BOOLEAN, TypeOK, EndWrapup(p, success)
    PROVE  marker' \in Rows(MarkerTTL) /\ wrap' \in [Procs -> Wraps]
<1>1. [NoWrapup EXCEPT !.pc = "closing"] \in Wraps /\ NoWrapup \in Wraps
  <2>1. "closing" \in WrapStates
    BY DEF WrapStates
  <2> QED BY <2>1, InitialRecords DEF Wraps
<1>2. wrap \in [Procs -> Wraps] /\ marker \in Rows(MarkerTTL)
  BY TypeOKParts DEF TypeParts
<1>3. wrap' \in [Procs -> Wraps]
  BY <1>1, <1>2 DEF EndWrapup
<1>4. marker' \in Rows(MarkerTTL)
  BY <1>2, RowTypes DEF EndWrapup
<1> QED BY <1>3, <1>4

----------------------------------------------------------------------------
(* Steps that neither read nor publish compartments *)

\* The control points between the snapshot and the publication.
Drafts == {"drafting", "drafted"}

\* A step that leaves the history alone, keeps every run that goes on
\* drafting as it is, and gives the lease row to no such run.
Quiet == /\ UNCHANGED <<compartments, floor>>
         /\ pending' \in {0, pending}
         /\ \A q \in Procs : run'[q] = run[q] \/ run'[q].pc \notin Drafts
         /\ \A q \in Procs : lease'.holder = q => lease.holder = q \/ run'[q].pc \notin Drafts

\* Such a step keeps the invariant.
LEMMA QuietStep ==
    ASSUME IInv, TypeOK', Quiet
    PROVE  IInv'
<1>1. ContiguousHistory'
  BY DEF IInv, Quiet, ContiguousHistory, validateStoredCompartments
<1>2. PublishIsFresh'
  BY DEF IInv, Quiet, PublishIsFresh, Drafts
<1>3. FloorTracksHistory'
  BY DEF IInv, Quiet, FloorTracksHistory
<1>4. DraftWellFormed'
  BY DEF IInv, Quiet, DraftWellFormed, Drafts
<1> QED BY <1>1, <1>2, <1>3, <1>4 DEF IInv

\* The clock, the user, the provider and the postprocess phase.
LEMMA EnvironmentStep ==
    ASSUME IInv, Environment
    PROVE  TypeOK' /\ Quiet
<1>0. TypeOK
  BY DEF IInv
<1> USE DEF store, Quiet
<1>1. CASE MessageArrives
  BY <1>0, <1>1 DEF MessageArrives, TypeOK
<1>2. CASE OverflowDetected
  BY <1>0, <1>2 DEF OverflowDetected, TypeOK
<1>3. CASE DrainPendingMarker
  BY <1>0, <1>3 DEF DrainPendingMarker, TypeOK
<1>4. CASE Tick
  <2>1. lease' = Older(lease) /\ marker' = Older(marker)
    BY <1>4 DEF Tick
  <2>2. lease' \in Rows(LeaseTTL) /\ marker' \in Rows(MarkerTTL) /\ lease'.holder = lease.holder
    BY <1>0, <2>1, TypeOKParts, AgedRow DEF TypeParts
  <2> QED BY <1>0, <1>4, <2>2 DEF Tick, TypeOK, Rows
<1>5. CASE ClockStepsBack
  <2>1. /\ lease' \in {lease, [lease EXCEPT !.ttl = LeaseTTL]}
        /\ marker' \in {marker, [marker EXCEPT !.ttl = MarkerTTL]}
    BY <1>5 DEF ClockStepsBack
  <2>2. lease \in Rows(LeaseTTL) /\ marker \in Rows(MarkerTTL)
    BY <1>0, TypeOKParts DEF TypeParts
  <2>3. /\ [lease EXCEPT !.ttl = LeaseTTL] \in Rows(LeaseTTL)
        /\ [lease EXCEPT !.ttl = LeaseTTL].holder = lease.holder
        /\ [marker EXCEPT !.ttl = MarkerTTL] \in Rows(MarkerTTL)
    BY <2>2, AgedRow
  <2>4. lease' \in Rows(LeaseTTL) /\ lease'.holder = lease.holder /\ marker' \in Rows(MarkerTTL)
    BY <2>1, <2>2, <2>3
  <2> QED BY <1>0, <1>5, <2>4 DEF ClockStepsBack, TypeOK, Rows
<1> QED BY <1>1, <1>2, <1>3, <1>4, <1>5 DEF Environment

\* A process dies.
LEMMA CrashStep ==
    ASSUME IInv, NEW p \in Procs, Crash(p)
    PROVE  TypeOK' /\ Quiet
<1>1. TypeOK
  BY DEF IInv
<1>2. /\ lease' \in Rows(LeaseTTL) /\ marker' \in Rows(MarkerTTL)
      /\ \A q \in Procs : lease'.holder = q => lease.holder = q
  <2>1. lease \in Rows(LeaseTTL) /\ marker \in Rows(MarkerTTL)
    BY <1>1, TypeOKParts DEF TypeParts
  <2>2. lease' = Abandoned(lease, p) /\ marker' = Abandoned(marker, p)
    BY DEF Crash
  <2>3. /\ lease' \in Rows(LeaseTTL) /\ lease'.holder \in {Orphan, lease.holder}
        /\ marker' \in Rows(MarkerTTL)
    BY <2>1, <2>2, RowTypes
  <2> QED BY <2>3
<1>3. /\ run' \in [Procs -> Runs] /\ wrap' \in [Procs -> Wraps]
      /\ \A q \in Procs : run'[q] = run[q] \/ run'[q].pc \notin Drafts
  BY <1>1, TypeOKParts, InitialRecords DEF TypeParts, Crash, IdleRun, Drafts
<1> QED BY <1>1, <1>2, <1>3, TypeOKParts DEF TypeParts, Crash, store, Quiet

\* Starting a run: trigger, stale flag, startCompartmentAgent.
LEMMA StartingStep ==
    ASSUME IInv, NEW p \in Procs, StartStep(p)
    PROVE  TypeOK' /\ Quiet
<1>0. TypeOK /\ run \in [Procs -> Runs] /\ lease \in Rows(LeaseTTL)
  BY TypeOKParts DEF TypeParts, IInv
<1>a. {"idle", "starting", "leased", "granted"} \subseteq RunStates
  BY DEF RunStates
<1>b. \A pc \in {"idle", "starting", "leased", "granted"} :
         MoveRun(p, pc) => /\ run' \in [Procs -> Runs] /\ run'[p].pc \notin Drafts
                           /\ \A q \in Procs : run'[q] = run[q] \/ run'[q].pc \notin Drafts
  BY <1>0, <1>a, MoveRunEffect DEF Drafts
<1>1. CASE TriggerFires(p)
  BY <1>0, <1>1 DEF TriggerFires, TypeOK, store, Quiet
<1>2. CASE ClearStaleFlag(p)
  BY <1>0, <1>2 DEF ClearStaleFlag, TypeOK, store, Quiet
<1>3. CASE StartAgent(p)
  <2>1. /\ marker' \in Rows(MarkerTTL) /\ flag' \in BOOLEAN /\ run' \in [Procs -> Runs]
        /\ \A q \in Procs : run'[q] = run[q] \/ run'[q].pc \notin Drafts
    BY <1>0, <1>b, <1>3, ReapedMarkerType DEF StartAgent, TypeOK
  <2> QED BY <1>0, <1>3, <2>1 DEF StartAgent, TypeOK, store, Quiet, Rows, Runs
<1>4. CASE AcquireLease(p)
  <2>1. lease' \in Rows(LeaseTTL) /\ lease'.holder = p
    BY <1>0, <1>4, RowTypes DEF AcquireLease
  <2>2. /\ run' \in [Procs -> Runs] /\ run'[p].pc \notin Drafts
        /\ \A q \in Procs : run'[q] = run[q] \/ run'[q].pc \notin Drafts
    BY <1>0, <1>b, <1>4 DEF AcquireLease
  <2> QED BY <1>0, <1>4, <2>1, <2>2 DEF AcquireLease, TypeOK, store, Quiet, Rows, Runs
<1>5. CASE LeaseRefused(p)
  <2>1. /\ run' \in [Procs -> Runs]
        /\ \A q \in Procs : run'[q] = run[q] \/ run'[q].pc \notin Drafts
    BY <1>b, <1>5 DEF LeaseRefused
  <2> QED BY <1>0, <1>5, <2>1 DEF LeaseRefused, TypeOK, store, Quiet, Runs
<1>6. CASE RecheckWrapup(p)
  <2>1. /\ run' \in [Procs -> Runs]
        /\ \A q \in Procs : run'[q] = run[q] \/ run'[q].pc \notin Drafts
    BY <1>b, <1>6 DEF RecheckWrapup
  <2>2. lease' \in Rows(LeaseTTL) /\ lease'.holder \in {Nobody, lease.holder}
    BY <1>0, <1>6, RowTypes DEF RecheckWrapup
  <2>3. marker' \in Rows(MarkerTTL) /\ flag' \in BOOLEAN
    BY <1>0, <1>6, ReapedMarkerType DEF RecheckWrapup, TypeOK
  <2> QED BY <1>0, <1>6, <2>1, <2>2, <2>3 DEF RecheckWrapup, TypeOK, store, Quiet, Rows, Runs
<1> QED BY <1>1, <1>2, <1>3, <1>4, <1>5, <1>6 DEF StartStep

\* The steps of a run other than its snapshot, its draft and its publication.
LEMMA QuietRunStep ==
    ASSUME IInv, NEW p \in Procs,
           \/ BeginNoOp(p) \/ QuotaExhausted(p) \/ RunFails(p) \/ PublishRefused(p)
           \/ FinishRun(p) \/ ReleaseLease(p) \/ RenewLease(p)
    PROVE  TypeOK' /\ Quiet
<1>0. /\ TypeOK /\ run \in [Procs -> Runs] /\ wrap \in [Procs -> Wraps] /\ lease \in Rows(LeaseTTL)
  BY TypeOKParts DEF TypeParts, IInv
<1>a. EndRun(p, "settling") =>
         /\ run' \in [Procs -> Runs]
         /\ \A q \in Procs : run'[q] = run[q] \/ run'[q].pc \notin Drafts
  <2>1. "settling" \in RunStates
    BY DEF RunStates
  <2> QED BY <1>0, <2>1, EndRunEffect DEF Drafts
<1>1. CASE BeginNoOp(p)
  <2>1. marker' \in Rows(MarkerTTL)
    BY <1>0, <1>1, ReapedMarkerType DEF BeginNoOp, TypeOK, Rows
  <2>2. emergency' \in BOOLEAN
    BY <1>1 DEF BeginNoOp
  <2> QED BY <1>0, <1>a, <1>1, <2>1, <2>2 DEF BeginNoOp, TypeOK, Quiet, Runs, Rows
<1>2. CASE QuotaExhausted(p)
  BY <1>0, <1>a, <1>2 DEF QuotaExhausted, TypeOK, store, Quiet, Runs
<1>3. CASE RunFails(p)
  BY <1>0, <1>a, <1>3 DEF RunFails, TypeOK, store, Quiet, Runs
<1>4. CASE PublishRefused(p)
  BY <1>0, <1>a, <1>4 DEF PublishRefused, TypeOK, store, Quiet, Runs
<1>5. CASE FinishRun(p)
  BY <1>0, <1>a, <1>5 DEF FinishRun, TypeOK, store, Quiet, Runs
<1>6. CASE ReleaseLease(p)
  <2>1. lease' \in Rows(LeaseTTL) /\ lease'.holder \in {Nobody, lease.holder}
    BY <1>0, <1>6, RowTypes DEF ReleaseLease
  <2>2. /\ run' \in [Procs -> Runs]
        /\ \A q \in Procs : run'[q] = run[q] \/ run'[q].pc \notin Drafts
    BY <1>0, <1>6, InitialRecords DEF ReleaseLease, IdleRun, Drafts
  <2>3. wrap' \in [Procs -> Wraps]
    BY <1>0, <1>6 DEF ReleaseLease, Wraps, WrapStates
  <2> QED BY <1>0, <1>6, <2>1, <2>2, <2>3, TypeOKParts DEF ReleaseLease, TypeParts, store, Quiet
<1>7. CASE RenewLease(p)
  <2>1. lease' \in Rows(LeaseTTL) /\ lease'.holder = lease.holder
    BY <1>0, <1>7, AgedRow DEF RenewLease
  <2> QED BY <1>0, <1>7, <2>1 DEF RenewLease, TypeOK, store, Quiet, Rows
<1> QED BY <1>1, <1>2, <1>3, <1>4, <1>5, <1>6, <1>7

\* The steps of /ctx-wrapup: its compartments are published by its runs.
LEMMA WrapupQuiet ==
    ASSUME IInv, NEW p \in Procs, WrapupStep(p)
    PROVE  TypeOK' /\ Quiet
<1>0. /\ TypeOK /\ run \in [Procs -> Runs] /\ wrap \in [Procs -> Wraps]
      /\ lease \in Rows(LeaseTTL) /\ marker \in Rows(MarkerTTL)
      /\ raw \in 0..MaxRaw /\ emergency \in BOOLEAN /\ compartments \in Seq(Compartment)
  BY TypeOKParts DEF TypeParts, IInv
<1>a. RenewedMarker \in Rows(MarkerTTL)
  BY <1>0, AgedRow DEF RenewedMarker
<1>b. \A success \in BOOLEAN :
         EndWrapup(p, success) => marker' \in Rows(MarkerTTL) /\ wrap' \in [Procs -> Wraps]
  BY <1>0, EndWrapupEffect
<1>c. LastEnd(compartments) \in Nat
  BY <1>0, LastEndType
<1> DEFINE Frame == UNCHANGED <<raw, compartments, floor, pending, flag>>
           Typed == /\ marker' \in Rows(MarkerTTL) /\ wrap' \in [Procs -> Wraps]
                    /\ run' \in [Procs -> Runs] /\ lease' \in Rows(LeaseTTL)
                    /\ emergency' \in BOOLEAN
           Inert == \A q \in Procs :
                       /\ run'[q] = run[q] \/ run'[q].pc \notin Drafts
                       /\ lease'.holder = q => lease.holder = q \/ run'[q].pc \notin Drafts
<1> SUFFICES Typed /\ Frame /\ Inert
  BY <1>0, TypeOKParts DEF TypeParts, Quiet
<1>d. UNCHANGED <<raw, store, flag, lease, run>> =>
         Frame /\ Inert /\ run' \in [Procs -> Runs] /\ lease' \in Rows(LeaseTTL) /\ emergency' \in BOOLEAN
  BY <1>0 DEF store
<1>1. CASE StartWrapup(p)
  <2>1. marker' \in Rows(MarkerTTL)
    BY <1>0, <1>1, RowTypes DEF StartWrapup
  <2>2. PICK target \in (LastEnd(compartments) + 2)..raw :
           wrap' = [wrap EXCEPT ![p] = [NoWrapup EXCEPT !.pc = "waiting", !.target = target]]
    BY <1>1 DEF StartWrapup
  <2>3. target \in 0..MaxRaw
    BY <1>0, <1>c, <2>2
  <2>4. [NoWrapup EXCEPT !.pc = "waiting", !.target = target] \in Wraps
    BY <2>3, InitialRecords DEF Wraps, WrapStates
  <2> QED BY <1>0, <1>d, <1>1, <2>1, <2>2, <2>4 DEF StartWrapup
<1>2. CASE RenewMarker(p)
  <2>1. marker' \in Rows(MarkerTTL) /\ wrap' \in [Procs -> Wraps]
    <3>1. [wrap[p] EXCEPT !.lost = TRUE] \in Wraps
      BY <1>0 DEF Wraps
    <3>2. wrap' \in {wrap, [wrap EXCEPT ![p] = [wrap[p] EXCEPT !.lost = TRUE]]}
      BY <1>2 DEF RenewMarker
    <3> QED BY <1>0, <1>a, <1>2, <3>1, <3>2 DEF RenewMarker
  <2> QED BY <1>d, <1>2, <2>1 DEF RenewMarker
<1>3. CASE WrapupEnters(p)
  <2>1. marker' \in Rows(MarkerTTL) /\ wrap' \in [Procs -> Wraps]
    BY <1>0, <1>3 DEF WrapupEnters, Wraps, WrapStates
  <2> QED BY <1>d, <1>3, <2>1 DEF WrapupEnters
<1>4. CASE WrapupLoop(p)
  <2>1. marker' \in Rows(MarkerTTL) /\ wrap' \in [Procs -> Wraps]
    <3> DEFINE owns == ~wrap[p].lost /\ IsHeldBy(marker, p)
    <3>1. CASE EndWrapup(p, owns)
      BY <1>b, <3>1
    <3>2. CASE /\ marker' = RenewedMarker
               /\ wrap' = [wrap EXCEPT ![p].pc = "leasing", ![p].before = LastEnd(compartments)]
      BY <1>0, <1>a, <1>c, <3>2 DEF Wraps, WrapStates
    <3> QED BY <1>4, <3>1, <3>2 DEF WrapupLoop
  <2> QED BY <1>d, <1>4, <2>1 DEF WrapupLoop
<1>5. CASE WrapupAcquiresLease(p)
  <2>1. lease' \in Rows(LeaseTTL) /\ lease'.holder = p
    BY <1>0, <1>5, RowTypes DEF WrapupAcquiresLease
  <2>2. [IdleRun EXCEPT !.pc = "granted", !.kind = "wrapup"] \in Runs
    BY InitialRecords DEF Runs, RunStates
  <2>3. [IdleRun EXCEPT !.pc = "granted", !.kind = "wrapup"].pc = "granted"
    BY DEF IdleRun
  <2>4. /\ run' \in [Procs -> Runs] /\ run'[p].pc \notin Drafts
        /\ \A q \in Procs : q # p => run'[q] = run[q]
    BY <1>0, <1>5, <2>2, <2>3 DEF WrapupAcquiresLease, Drafts
  <2>5. Inert
    BY <2>1, <2>4
  <2>6. Frame /\ marker' \in Rows(MarkerTTL) /\ wrap' \in [Procs -> Wraps] /\ emergency' \in BOOLEAN
    BY <1>0, <1>5 DEF WrapupAcquiresLease, store, Wraps, WrapStates
  <2> QED BY <2>1, <2>4, <2>5, <2>6
<1>6. CASE WrapupWaitsForLease(p)
  <2>1. marker' \in Rows(MarkerTTL) /\ wrap' \in [Procs -> Wraps]
    BY <1>0, <1>a, <1>b, <1>6 DEF WrapupWaitsForLease
  <2> QED BY <1>d, <1>6, <2>1 DEF WrapupWaitsForLease
<1>7. CASE WrapupTimesOut(p)
  <2>1. marker' \in Rows(MarkerTTL) /\ wrap' \in [Procs -> Wraps]
    BY <1>b, <1>7 DEF WrapupTimesOut
  <2> QED BY <1>d, <1>7, <2>1 DEF WrapupTimesOut
<1>8. CASE WrapupIterationDone(p)
  <2>1. marker' \in Rows(MarkerTTL) /\ wrap' \in [Procs -> Wraps]
    <3>1. CASE EndWrapup(p, FALSE)
      BY <1>b, <3>1
    <3>2. CASE wrap' = [wrap EXCEPT ![p].pc = "loop"] /\ UNCHANGED marker
      BY <1>0, <3>2 DEF Wraps, WrapStates
    <3> QED BY <1>8, <3>1, <3>2 DEF WrapupIterationDone
  <2> QED BY <1>d, <1>8, <2>1 DEF WrapupIterationDone
<1>9. CASE WrapupCloses(p)
  <2>1. wrap' \in [Procs -> Wraps]
    BY <1>0, <1>9, InitialRecords DEF WrapupCloses
  <2> QED BY <1>0, <1>9, <2>1 DEF WrapupCloses
<1> QED
  BY <1>1, <1>2, <1>3, <1>4, <1>5, <1>6, <1>7, <1>8, <1>9 DEF WrapupStep

----------------------------------------------------------------------------
(* The snapshot, the draft and the publication *)

\* The run cuts its chunk from the compartments as they are now.
LEMMA BeginRunStep ==
    ASSUME IInv, NEW p \in Procs, BeginRun(p)
    PROVE  IInv'
<1> DEFINE offset == LastEnd(compartments) + 1
           n      == NextSequence(compartments)
<1>0. TypeOK /\ TypeParts /\ run \in [Procs -> Runs] /\ wrap \in [Procs -> Wraps]
  BY TypeOKParts DEF TypeParts, IInv
<1>1. offset \in Nat /\ n \in Nat
  <2>1. n = Len(compartments) /\ compartments \in Seq(Compartment)
    BY <1>0, NextSequenceIsLen DEF IInv, ContiguousHistory, TypeParts
  <2> QED BY <2>1, LastEndType
<1> HIDE DEF offset, n
<1>2. PICK last \in offset..(RunEligibleEnd(p) - 1) :
         run' = [run EXCEPT ![p] = [@ EXCEPT !.pc = "drafting", !.offset = offset,
                                    !.sequenceOffset = n, !.chunkEnd = last]]
  BY DEF BeginRun, offset, n
<1>3. last \in 0..MaxRaw
  <2>1. RunEligibleEnd(p) \in Int /\ RunEligibleEnd(p) - 1 <= MaxRaw
    BY <1>0 DEF RunEligibleEnd, EligibleEnd, TypeParts, Wraps
  <2> QED BY <1>1, <1>2, <2>1
<1>4. /\ run' \in [Procs -> Runs]
      /\ run'[p].pc = "drafting" /\ run'[p].offset = offset /\ run'[p].sequenceOffset = n
      /\ \A q \in Procs : q # p => run'[q] = run[q]
  <2> DEFINE r == [run[p] EXCEPT !.pc = "drafting", !.offset = offset,
                              !.sequenceOffset = n, !.chunkEnd = last]
  <2>1. "drafting" \in RunStates /\ run[p] \in Runs
    BY <1>0 DEF RunStates
  <2>2. r \in Runs /\ r.pc = "drafting" /\ r.offset = offset /\ r.sequenceOffset = n
    BY <1>1, <1>3, <2>1 DEF Runs
  <2>3. run' = [run EXCEPT ![p] = r]
    BY <1>2
  <2> HIDE DEF r
  <2> QED BY <1>0, <2>2, <2>3
<1>5. UNCHANGED <<raw, compartments, floor, pending, emergency, lease, marker, wrap>> /\ flag' = TRUE
  BY DEF BeginRun, store
<1>6. TypeOK'
  BY <1>0, <1>4, <1>5, TypeOKParts DEF TypeParts
<1>7. ContiguousHistory' /\ FloorTracksHistory'
  BY <1>5 DEF IInv, ContiguousHistory, FloorTracksHistory, validateStoredCompartments
<1>8. PublishIsFresh'
  BY <1>4, <1>5 DEF IInv, PublishIsFresh, offset, n
<1>9. DraftWellFormed'
  BY <1>4 DEF IInv, DraftWellFormed
<1> QED BY <1>6, <1>7, <1>8, <1>9 DEF IInv

\* The answer, with or without its provisional last row, splits the chunk.
LEMMA HistorianReturnsStep ==
    ASSUME IInv, NEW p \in Procs, HistorianReturns(p)
    PROVE  IInv'
<1> DEFINE f == run[p].offset
           l == run[p].chunkEnd
           n == run[p].sequenceOffset
<1>0. TypeOK /\ TypeParts /\ run \in [Procs -> Runs]
  BY TypeOKParts DEF TypeParts, IInv
<1>1. f \in Nat /\ l \in Nat /\ l <= MaxRaw /\ n \in Nat
  BY <1>0 DEF Runs
<1> HIDE DEF f, l, n
<1>a. PICK ends \in EndLists(f, l) :
         \E kept \in {Split(f, ends, n), WithoutLast(Split(f, ends, n))} :
            /\ kept # Split(f, ends, n) => Len(Split(f, ends, n)) >= 2
            /\ run' = [run EXCEPT ![p] = [@ EXCEPT !.pc = "drafted", !.draft = kept]]
  BY DEF HistorianReturns, ShouldDiscardLast, f, l, n
<1>2. PICK kept \in {Split(f, ends, n), WithoutLast(Split(f, ends, n))} :
         /\ kept # Split(f, ends, n) => Len(Split(f, ends, n)) >= 2
         /\ run' = [run EXCEPT ![p] = [@ EXCEPT !.pc = "drafted", !.draft = kept]]
  BY <1>a
<1>3. \E e \in EndLists(f, l) : kept = Split(f, e, n)
  <2>1. CASE kept = Split(f, ends, n)
    BY <2>1
  <2>2. CASE kept # Split(f, ends, n)
    <3>1. Len(Split(f, ends, n)) >= 2 /\ kept = WithoutLast(Split(f, ends, n))
      BY <1>2, <2>2
    <3>2. \E e \in EndLists(f, l) :
             SubSeq(Split(f, ends, n), 1, Len(Split(f, ends, n)) - 1) = Split(f, e, n)
      BY <1>1, <3>1, SplitWithoutLast
    <3> QED BY <3>1, <3>2 DEF WithoutLast
  <2> QED BY <2>1, <2>2
<1>4. PICK e \in EndLists(f, MaxRaw) : kept = Split(f, e, n)
  BY <1>1, <1>3, EndListsMonotone
<1>5. kept \in Seq(Compartment)
  BY <1>1, <1>4, SplitProperties
<1>6. /\ run' \in [Procs -> Runs]
      /\ run'[p].pc = "drafted" /\ run'[p].draft = kept
      /\ run'[p].offset = f /\ run'[p].sequenceOffset = n
      /\ \A q \in Procs : q # p => run'[q] = run[q]
  BY <1>0, <1>2, <1>5 DEF Runs, RunStates, f, n
<1>7. run[p].pc = "drafting" /\ UNCHANGED <<raw, compartments, floor, pending, emergency, flag, lease, marker, wrap>>
  BY DEF HistorianReturns, store
<1>8. TypeOK'
  BY <1>0, <1>6, <1>7, TypeOKParts DEF TypeParts
<1>9. ContiguousHistory' /\ FloorTracksHistory'
  BY <1>7 DEF IInv, ContiguousHistory, FloorTracksHistory, validateStoredCompartments
<1>10. PublishIsFresh'
  BY <1>6, <1>7 DEF IInv, PublishIsFresh, f, n
<1>11. DraftWellFormed'
  BY <1>4, <1>6 DEF IInv, DraftWellFormed
<1> QED BY <1>8, <1>9, <1>10, <1>11 DEF IInv

\* An accepted publication appends the block the history was waiting for.
LEMMA PublishAppends ==
    ASSUME IInv, NEW p \in Procs, Publish(p)
    PROVE  LET first == LastEnd(compartments) + 1
               n     == NextSequence(compartments) IN
           /\ first \in Nat /\ n = Len(compartments)
           /\ \E ends \in EndLists(first, MaxRaw) :
                 /\ compartments' = compartments \o Split(first, ends, n)
                 /\ floor' = LastEnd(Split(first, ends, n)) + 1
                 /\ pending' = LastEnd(Split(first, ends, n))
<1> DEFINE first == LastEnd(compartments) + 1
           n     == NextSequence(compartments)
<1>1. compartments \in Seq(Compartment) /\ n = Len(compartments) /\ n \in Nat
  BY NextSequenceIsLen DEF IInv, TypeOK, ContiguousHistory
<1>2. first \in Nat
  BY <1>1, LastEndType
<1>3. run[p].pc = "drafted" /\ lease.holder = p
  BY DEF Publish, IsHeldBy
<1>4. run[p].offset = first /\ run[p].sequenceOffset = n
  BY <1>3 DEF IInv, PublishIsFresh
<1>5. PICK ends \in EndLists(first, MaxRaw) : run[p].draft = Split(first, ends, n)
  BY <1>3, <1>4 DEF IInv, DraftWellFormed
<1>6. LastEnd(Split(first, ends, n)) \in first..MaxRaw
  BY <1>1, <1>2, <1>5, SplitProperties
<1>7. floor = first
  BY DEF IInv, FloorTracksHistory
<1> HIDE DEF first, n
<1>8. /\ compartments' = compartments \o Split(first, ends, n)
      /\ floor' = LastEnd(Split(first, ends, n)) + 1
      /\ pending' = LastEnd(Split(first, ends, n))
  BY <1>2, <1>5, <1>6, <1>7 DEF Publish
<1> QED BY <1>1, <1>2, <1>5, <1>8 DEF first, n

\* The appended history is contiguous again and floor and marker moved along.
LEMMA PublishStep ==
    ASSUME IInv, NEW p \in Procs, Publish(p)
    PROVE  IInv'
<1> DEFINE first == LastEnd(compartments) + 1
           n     == NextSequence(compartments)
<1>0. TypeOK /\ TypeParts /\ compartments \in Seq(Compartment) /\ run \in [Procs -> Runs]
  BY TypeOKParts DEF TypeParts, IInv
<1>1. first \in Nat /\ n = Len(compartments) /\ n \in Nat
  BY <1>0, PublishAppends
<1>2. PICK ends \in EndLists(first, MaxRaw) :
         /\ compartments' = compartments \o Split(first, ends, n)
         /\ floor' = LastEnd(Split(first, ends, n)) + 1
         /\ pending' = LastEnd(Split(first, ends, n))
  BY PublishAppends
<1> DEFINE block == Split(first, ends, n)
<1>3. /\ block \in Seq(Compartment) /\ block # <<>>
      /\ ContiguousFrom(block, first) /\ NumberedFrom(block, n)
      /\ LastEnd(block) \in first..MaxRaw
  BY <1>1, <1>2, SplitProperties
<1> HIDE DEF block
<1>4. ContiguousFrom(compartments, 1) /\ NumberedFrom(compartments, 0)
  BY DEF IInv, ContiguousHistory, validateStoredCompartments
<1>5. /\ compartments' \in Seq(Compartment)
      /\ ContiguousFrom(compartments', 1) /\ NumberedFrom(compartments', 0)
      /\ LastEnd(compartments') = LastEnd(block)
  BY <1>0, <1>1, <1>2, <1>3, <1>4, AppendBlock DEF block
<1>6. /\ run' \in [Procs -> Runs] /\ run'[p].pc \notin Drafts
      /\ \A q \in Procs : q # p => run'[q] = run[q]
  <2>1. "committed" \in RunStates /\ "committed" \notin Drafts
    BY DEF RunStates, Drafts
  <2> QED BY <1>0, <2>1, EndRunEffect DEF Publish
<1>7. UNCHANGED <<raw, flag, lease, marker, wrap>> /\ emergency' \in BOOLEAN /\ lease.holder = p
  BY DEF Publish, IsHeldBy
<1>8. TypeOK'
  <2>1. floor' \in Nat /\ pending' \in Nat
    BY <1>1, <1>2, <1>3 DEF block
  <2> QED BY <1>0, <1>5, <1>6, <1>7, <2>1, TypeOKParts DEF TypeParts
<1>9. ContiguousHistory'
  BY <1>5 DEF ContiguousHistory, validateStoredCompartments
<1>10. PublishIsFresh'
  BY <1>6, <1>7 DEF PublishIsFresh, Drafts
<1>11. FloorTracksHistory'
  BY <1>2, <1>5 DEF FloorTracksHistory, block
<1>12. DraftWellFormed'
  BY <1>6 DEF IInv, DraftWellFormed, Drafts
<1> QED BY <1>8, <1>9, <1>10, <1>11, <1>12 DEF IInv

----------------------------------------------------------------------------
(* Theorems *)

\* Every step keeps the inductive invariant.
LEMMA NextInv == IInv /\ [Next]_vars => IInv'
<1> SUFFICES ASSUME IInv, [Next]_vars PROVE IInv'
  OBVIOUS
<1>1. CASE Environment
  BY <1>1, EnvironmentStep, QuietStep
<1>2. ASSUME NEW p \in Procs, Crash(p) PROVE IInv'
  BY <1>2, CrashStep, QuietStep
<1>3. ASSUME NEW p \in Procs, StartStep(p) PROVE IInv'
  BY <1>3, StartingStep, QuietStep
<1>4. ASSUME NEW p \in Procs, RunStep(p) PROVE IInv'
  <2>1. CASE BeginRun(p)
    BY <2>1, BeginRunStep
  <2>2. CASE HistorianReturns(p)
    BY <2>2, HistorianReturnsStep
  <2>3. CASE Publish(p)
    BY <2>3, PublishStep
  <2>4. CASE \/ BeginNoOp(p) \/ QuotaExhausted(p) \/ RunFails(p) \/ PublishRefused(p)
             \/ FinishRun(p) \/ ReleaseLease(p) \/ RenewLease(p)
    BY <2>4, QuietRunStep, QuietStep
  <2> QED BY <1>4, <2>1, <2>2, <2>3, <2>4 DEF RunStep
<1>5. ASSUME NEW p \in Procs, WrapupStep(p) PROVE IInv'
  BY <1>5, WrapupQuiet, QuietStep
<1>6. CASE UNCHANGED vars
  <2>1. TypeOK' /\ Quiet
    BY <1>6, TypeOKParts DEF IInv, vars, store, Quiet, TypeParts
  <2> QED BY <2>1, QuietStep
<1> QED BY <1>1, <1>2, <1>3, <1>4, <1>5, <1>6 DEF Next

\* The inductive invariant holds in every reachable state.
THEOREM InvariantHolds == Spec => []IInv
BY InitInv, NextInv, PTL DEF Spec

\* Rows, runs and wrapups keep their types, for any number of processes and
\* any sequence of crashes, expiries and clock steps.
THEOREM TypeCorrect == Spec => []TypeOK
<1>1. IInv => TypeOK
  BY DEF IInv
<1> QED BY <1>1, InvariantHolds, PTL

\* Published compartments never leave a gap, overlap or repeat a sequence
\* number, whatever stale runs attempt.
THEOREM HistoryIsContiguous == Spec => []ContiguousHistory
<1>1. IInv => ContiguousHistory
  BY DEF IInv
<1> QED BY <1>1, InvariantHolds, PTL

\* The run that the lease row names still holds the offset and the sequence
\* number its publication needs.
THEOREM LeasedRunIsFresh == Spec => []PublishIsFresh
<1>1. IInv => PublishIsFresh
  BY DEF IInv
<1> QED BY <1>1, InvariantHolds, PTL

\* Floor and pending marker stand at the last published message.
THEOREM FloorFollows == Spec => []FloorTracksHistory
<1>1. IInv => FloorTracksHistory
  BY DEF IInv
<1> QED BY <1>1, InvariantHolds, PTL

----------------------------------------------------------------------------
(* Refinement of the append-only history *)

\* The instance computes with the same operators.
LEMMA HistoryOperators ==
    /\ \A l : History!LastEnd(l) = LastEnd(l)
    /\ \A l : History!NextSequence(l) = NextSequence(l)
    /\ \A f, l : History!EndLists(f, l) = EndLists(f, l)
    /\ \A f, e, n : History!Split(f, e, n) = Split(f, e, n)
BY DEF History!LastEnd, LastEnd, History!NextSequence, NextSequence,
       History!EndLists, EndLists, History!Split, Split

\* Publish is the only step that touches the history.
LEMMA OnlyPublishWrites ==
    ASSUME IInv, [Next]_vars, ~(UNCHANGED <<compartments, floor>>)
    PROVE  \E p \in Procs : Publish(p)
<1>1. CASE Environment
  BY <1>1, EnvironmentStep DEF Quiet
<1>2. ASSUME NEW p \in Procs, Crash(p) PROVE FALSE
  BY <1>2, CrashStep DEF Quiet
<1>3. ASSUME NEW p \in Procs, StartStep(p) PROVE FALSE
  BY <1>3, StartingStep DEF Quiet
<1>4. ASSUME NEW p \in Procs, WrapupStep(p) PROVE FALSE
  BY <1>4, WrapupQuiet DEF Quiet
<1>5. ASSUME NEW p \in Procs, RunStep(p), ~Publish(p) PROVE FALSE
  <2>1. CASE BeginRun(p) \/ HistorianReturns(p)
    BY <2>1 DEF BeginRun, HistorianReturns, store
  <2>2. CASE ~(BeginRun(p) \/ HistorianReturns(p))
    BY <1>5, <2>2, QuietRunStep DEF RunStep, Quiet
  <2> QED BY <2>1, <2>2
<1>6. CASE UNCHANGED vars
  BY <1>6 DEF vars, store
<1> QED BY <1>1, <1>2, <1>3, <1>4, <1>5, <1>6 DEF Next

\* Every step publishes a block at the end of the history or leaves it alone.
LEMMA StepRefines ==
    ASSUME IInv, [Next]_vars
    PROVE  [History!Publish]_(History!vars)
<1> SUFFICES ASSUME ~(UNCHANGED <<compartments, floor>>) PROVE History!Publish
  BY DEF History!vars
<1>1. PICK p \in Procs : Publish(p)
  BY OnlyPublishWrites
<1>2. PICK ends \in EndLists(LastEnd(compartments) + 1, MaxRaw) :
         compartments' = compartments \o Split(LastEnd(compartments) + 1, ends, NextSequence(compartments))
  BY <1>1, PublishAppends
<1>3. floor' = LastEnd(compartments') + 1
  BY <1>1, PublishStep DEF IInv, FloorTracksHistory
<1> QED BY <1>2, <1>3, HistoryOperators DEF History!Publish

\* The historian implements the append-only history: crashes, expired leases
\* and stale runs are invisible to the readers of the compartments.
THEOREM HistorianRefinesHistory == Spec => HistoryRefined
<1>1. Init => History!Init
  BY DEF Init, History!Init
<1>2. IInv /\ [Next]_vars => [History!Publish]_(History!vars)
  BY StepRefines
<1> QED BY <1>1, <1>2, InvariantHolds, PTL DEF Spec, HistoryRefined, History!Spec

----------------------------------------------------------------------------
(* Owners of the two rows *)

\* A step of p: crashes included, everything but the environment.
StepOf(p) == Crash(p) \/ StartStep(p) \/ RunStep(p) \/ WrapupStep(p)

\* The rest of a run's record when its control point moves or the run ends.
LEMMA RunKeepsKind ==
    ASSUME NEW p \in Procs, NEW pc \in RunStates, run \in [Procs -> Runs],
           MoveRun(p, pc) \/ EndRun(p, pc)
    PROVE  /\ run'[p].pc = pc /\ run'[p].kind = run[p].kind
           /\ \A q \in Procs : q # p => run'[q] = run[q]
<1>1. CASE MoveRun(p, pc)
  BY <1>1 DEF MoveRun, Runs
<1>2. CASE EndRun(p, pc)
  BY <1>2 DEF EndRun, Runs, IdleRun
<1> QED BY <1>1, <1>2

\* A wrapup that ends gives the marker back.
LEMMA EndWrapupGivesBack ==
    ASSUME NEW p \in Procs, NEW success \in BOOLEAN, TypeOK, EndWrapup(p, success)
    PROVE  /\ wrap'[p].pc \in {"off", "closing"} /\ wrap'[p].target = 0
           /\ \A q \in Procs : q # p => wrap'[q] = wrap[q]
           /\ marker'.holder \in {marker.holder, Nobody} /\ marker'.holder # p
<1>1. wrap \in [Procs -> Wraps]
  BY TypeOKParts DEF TypeParts
<1>2. /\ wrap'[p] = IF success THEN [NoWrapup EXCEPT !.pc = "closing"] ELSE NoWrapup
      /\ \A q \in Procs : q # p => wrap'[q] = wrap[q]
  BY <1>1 DEF EndWrapup
<1>3. wrap'[p].pc \in {"off", "closing"} /\ wrap'[p].target = 0
  BY <1>2 DEF NoWrapup
<1>4. marker'.holder \in {marker.holder, Nobody} /\ marker'.holder # p
  BY DEF EndWrapup, Released, NoRow
<1> QED BY <1>2, <1>3, <1>4

\* What a step of p does to the control points of its run and its wrapup,
\* and to the holders of the rows.
Owners(p) ==
    /\ \A q \in Procs : q # p => run'[q] = run[q] /\ wrap'[q] = wrap[q]
    /\ lease'.holder \in {lease.holder, Nobody, Orphan, p}
    /\ marker'.holder \in {marker.holder, Nobody, Orphan, p}
    /\ lease'.holder = p => run'[p].pc \notin {"idle", "starting"}
    /\ marker'.holder = p => wrap'[p].pc \notin {"off", "closing"}

\* Crashes abandon both rows.
LEMMA CrashOwners ==
    ASSUME TypeOK, NEW p \in Procs, Crash(p)
    PROVE  Owners(p)
<1>1. run \in [Procs -> Runs] /\ wrap \in [Procs -> Wraps]
      /\ lease \in Rows(LeaseTTL) /\ marker \in Rows(MarkerTTL)
  BY TypeOKParts DEF TypeParts
<1>2. /\ lease'.holder = IF lease.holder = p THEN Orphan ELSE lease.holder
      /\ marker'.holder = IF marker.holder = p THEN Orphan ELSE marker.holder
  BY <1>1 DEF Crash, Abandoned, Rows
<1>3. \A q \in Procs : q # p => run'[q] = run[q] /\ wrap'[q] = wrap[q]
  BY <1>1 DEF Crash
<1> QED BY <1>2, <1>3 DEF Owners

\* Starting a run: the lease is written last and released on the way back.
LEMMA StartOwners ==
    ASSUME TypeOK, LeaseHasOwner, MarkerHasOwner, NEW p \in Procs, StartStep(p)
    PROVE  Owners(p)
<1>1. run \in [Procs -> Runs]
  BY TypeOKParts DEF TypeParts
<1>2. UNCHANGED wrap /\ marker' \in {marker, NoRow}
  BY DEF StartStep, TriggerFires, ClearStaleFlag, StartAgent, AcquireLease, LeaseRefused,
         RecheckWrapup, ReapedMarker
<1>3. marker'.holder \in {marker.holder, Nobody} /\ (marker'.holder = p => wrap'[p].pc \notin {"off", "closing"})
  BY <1>2 DEF NoRow, MarkerHasOwner
<1>s. {"idle", "starting", "leased", "granted"} \subseteq RunStates
  BY DEF RunStates
<1>4. CASE TriggerFires(p) \/ ClearStaleFlag(p)
  BY <1>2, <1>3, <1>4 DEF TriggerFires, ClearStaleFlag, Owners, LeaseHasOwner
<1>5. CASE StartAgent(p)
  <2>1. UNCHANGED lease /\ run[p].pc = "idle" /\ (UNCHANGED run \/ MoveRun(p, "starting"))
    BY <1>5 DEF StartAgent
  <2>2. \A q \in Procs : q # p => run'[q] = run[q]
    BY <1>1, <1>s, <2>1, RunKeepsKind
  <2> QED BY <1>2, <1>3, <2>1, <2>2 DEF Owners, LeaseHasOwner
<1>6. CASE AcquireLease(p)
  <2>1. lease'.holder = p /\ MoveRun(p, "leased")
    BY <1>6 DEF AcquireLease, Acquired
  <2>2. run'[p].pc = "leased" /\ \A q \in Procs : q # p => run'[q] = run[q]
    BY <1>1, <1>s, <2>1, RunKeepsKind
  <2> QED BY <1>2, <1>3, <2>1, <2>2 DEF Owners
<1>7. CASE LeaseRefused(p)
  <2>1. UNCHANGED lease /\ run[p].pc = "starting" /\ MoveRun(p, "idle")
    BY <1>7 DEF LeaseRefused
  <2>2. \A q \in Procs : q # p => run'[q] = run[q]
    BY <1>1, <1>s, <2>1, RunKeepsKind
  <2> QED BY <1>2, <1>3, <2>1, <2>2 DEF Owners, LeaseHasOwner
<1>8. CASE RecheckWrapup(p)
  <2>1. \/ lease' = Released(lease, p) /\ MoveRun(p, "idle")
        \/ UNCHANGED lease /\ MoveRun(p, "granted")
    BY <1>8 DEF RecheckWrapup
  <2>2. \/ lease'.holder \in {lease.holder, Nobody} /\ lease'.holder # p
        \/ UNCHANGED lease /\ run'[p].pc = "granted"
    BY <1>1, <1>s, <2>1, RunKeepsKind DEF Released, NoRow
  <2>3. \A q \in Procs : q # p => run'[q] = run[q]
    BY <1>1, <1>s, <2>1, RunKeepsKind
  <2> QED BY <1>2, <1>3, <2>2, <2>3 DEF Owners
<1> QED BY <1>4, <1>5, <1>6, <1>7, <1>8 DEF StartStep

\* A run: the lease stays until the run is over.
LEMMA RunOwners ==
    ASSUME TypeOK, LeaseHasOwner, MarkerHasOwner, NEW p \in Procs, RunStep(p)
    PROVE  Owners(p)
<1>1. /\ run \in [Procs -> Runs] /\ wrap \in [Procs -> Wraps]
      /\ lease \in Rows(LeaseTTL) /\ marker \in Rows(MarkerTTL)
  BY TypeOKParts DEF TypeParts
<1>2. marker' \in {marker, NoRow}
  BY DEF RunStep, BeginRun, BeginNoOp, QuotaExhausted, RunFails, HistorianReturns, Publish,
         PublishRefused, FinishRun, ReleaseLease, RenewLease, ReapedMarker
<1>3. marker'.holder \in {marker.holder, Nobody}
  BY <1>2 DEF NoRow
<1>4. CASE ReleaseLease(p)
  <2>1. lease'.holder \in {lease.holder, Nobody} /\ lease'.holder # p
    BY <1>4 DEF ReleaseLease, Released, NoRow
  <2>2. /\ \A q \in Procs : q # p => run'[q] = run[q] /\ wrap'[q] = wrap[q]
        /\ wrap'[p].pc \in {wrap[p].pc, "iterated"} /\ UNCHANGED marker
    BY <1>1, <1>4 DEF ReleaseLease, Wraps
  <2> QED BY <2>1, <2>2 DEF Owners, MarkerHasOwner
<1>5. CASE ~ReleaseLease(p)
  <2>1. UNCHANGED wrap
    BY <1>5 DEF RunStep, BeginRun, BeginNoOp, QuotaExhausted, RunFails, HistorianReturns, Publish,
           PublishRefused, FinishRun, RenewLease
  <2>2. lease'.holder = lease.holder
    BY <1>1, <1>5 DEF RunStep, BeginRun, BeginNoOp, QuotaExhausted, RunFails, HistorianReturns, Publish,
           PublishRefused, FinishRun, RenewLease, Rows
  <2>s. {"committed", "settling"} \subseteq RunStates
    BY DEF RunStates
  <2>3. \/ UNCHANGED run
        \/ /\ run'[p].pc \in {"drafting", "drafted", "committed", "settling"}
           /\ \A q \in Procs : q # p => run'[q] = run[q]
    <3>0. CASE BeginRun(p)
      <4>1. \E offset, n, last : run' = [run EXCEPT ![p] = [@ EXCEPT !.pc = "drafting",
                 !.offset = offset, !.sequenceOffset = n, !.chunkEnd = last]]
        BY <3>0 DEF BeginRun
      <4> QED BY <1>1, <4>1 DEF Runs
    <3>1. CASE HistorianReturns(p)
      <4>1. \E kept : run' = [run EXCEPT ![p] = [@ EXCEPT !.pc = "drafted", !.draft = kept]]
        BY <3>1 DEF HistorianReturns
      <4> QED BY <1>1, <4>1 DEF Runs
    <3>2. CASE RenewLease(p)
      BY <3>2 DEF RenewLease
    <3>3. CASE EndRun(p, "settling") \/ EndRun(p, "committed")
      BY <1>1, <2>s, <3>3, RunKeepsKind
    <3> QED BY <1>5, <3>0, <3>1, <3>2, <3>3 DEF RunStep, BeginNoOp, QuotaExhausted, RunFails, Publish,
               PublishRefused, FinishRun
  <2> QED BY <1>2, <1>3, <2>1, <2>2, <2>3 DEF Owners, LeaseHasOwner, MarkerHasOwner, NoRow
<1> QED BY <1>4, <1>5

\* /ctx-wrapup: every way out releases the marker.
LEMMA WrapupOwners ==
    ASSUME TypeOK, LeaseHasOwner, MarkerHasOwner, NEW p \in Procs, WrapupStep(p)
    PROVE  Owners(p)
<1>1. /\ run \in [Procs -> Runs] /\ wrap \in [Procs -> Wraps]
      /\ lease \in Rows(LeaseTTL) /\ marker \in Rows(MarkerTTL)
  BY TypeOKParts DEF TypeParts
<1>2. RenewedMarker.holder = marker.holder
  BY <1>1 DEF RenewedMarker, Rows
<1>3. ASSUME UNCHANGED <<lease, run>>, NEW success \in BOOLEAN, EndWrapup(p, success) PROVE Owners(p)
  BY <1>3, EndWrapupGivesBack DEF Owners, LeaseHasOwner
<1>4. CASE WrapupAcquiresLease(p)
  <2>1. lease'.holder = p /\ run'[p].pc = "granted" /\ wrap'[p].pc = "running" /\ UNCHANGED marker
    BY <1>1, <1>4 DEF WrapupAcquiresLease, Acquired, IdleRun, Wraps
  <2>2. \A q \in Procs : q # p => run'[q] = run[q] /\ wrap'[q] = wrap[q]
    BY <1>1, <1>4 DEF WrapupAcquiresLease
  <2> QED BY <2>1, <2>2 DEF Owners
<1>5. CASE WrapupCloses(p)
  <2>1. wrap[p].pc = "closing" /\ UNCHANGED <<lease, marker, run>>
    BY <1>5 DEF WrapupCloses
  <2>2. \A q \in Procs : q # p => wrap'[q] = wrap[q]
    BY <1>1, <1>5 DEF WrapupCloses
  <2> QED BY <2>1, <2>2 DEF Owners, LeaseHasOwner, MarkerHasOwner
<1>6. CASE StartWrapup(p)
  <2>1. marker'.holder = p /\ UNCHANGED <<lease, run>>
    BY <1>6 DEF StartWrapup, Acquired
  <2>2. wrap'[p].pc = "waiting" /\ \A q \in Procs : q # p => wrap'[q] = wrap[q]
    BY <1>1, <1>6 DEF StartWrapup, NoWrapup
  <2> QED BY <2>1, <2>2 DEF Owners, LeaseHasOwner
<1>7. ASSUME UNCHANGED <<lease, run>>, marker' \in {marker, RenewedMarker},
             \A q \in Procs : q # p => wrap'[q] = wrap[q],
             wrap'[p].pc \in {wrap[p].pc, "loop", "leasing"}
      PROVE  Owners(p)
  BY <1>2, <1>7 DEF Owners, LeaseHasOwner, MarkerHasOwner
<1>8. CASE RenewMarker(p) \/ WrapupEnters(p)
  BY <1>1, <1>7, <1>8 DEF RenewMarker, WrapupEnters, Wraps
<1>9. CASE WrapupLoop(p)
  <2>1. UNCHANGED <<lease, run>>
    BY <1>9 DEF WrapupLoop
  <2>2. CASE EndWrapup(p, ~wrap[p].lost /\ IsHeldBy(marker, p))
    BY <1>3, <2>1, <2>2
  <2>3. CASE /\ wrap' = [wrap EXCEPT ![p].pc = "leasing", ![p].before = LastEnd(compartments)]
             /\ marker' = RenewedMarker
    BY <1>1, <1>7, <2>1, <2>3 DEF Wraps
  <2> QED BY <1>9, <2>2, <2>3 DEF WrapupLoop
<1>10. CASE WrapupWaitsForLease(p) \/ WrapupTimesOut(p) \/ WrapupIterationDone(p)
  <2>1. UNCHANGED <<lease, run>>
    BY <1>10 DEF WrapupWaitsForLease, WrapupTimesOut, WrapupIterationDone
  <2>2. CASE EndWrapup(p, FALSE)
    BY <1>3, <2>1, <2>2
  <2>3. CASE \/ wrap' = wrap /\ marker' = RenewedMarker
             \/ wrap' = [wrap EXCEPT ![p].pc = "loop"] /\ UNCHANGED marker
    BY <1>1, <1>7, <2>1, <2>3 DEF Wraps
  <2> QED BY <1>10, <2>2, <2>3 DEF WrapupWaitsForLease, WrapupTimesOut, WrapupIterationDone
<1> QED BY <1>4, <1>5, <1>6, <1>8, <1>9, <1>10 DEF WrapupStep

\* The environment moves nobody and takes no row from anybody.
LEMMA EnvironmentOwners ==
    ASSUME TypeOK, Environment \/ UNCHANGED vars
    PROVE  UNCHANGED <<run, wrap>> /\ lease'.holder = lease.holder /\ marker'.holder = marker.holder
<1>1. lease \in Rows(LeaseTTL) /\ marker \in Rows(MarkerTTL)
  BY TypeOKParts DEF TypeParts
<1>2. /\ Older(lease).holder = lease.holder /\ [lease EXCEPT !.ttl = LeaseTTL].holder = lease.holder
      /\ Older(marker).holder = marker.holder /\ [marker EXCEPT !.ttl = MarkerTTL].holder = marker.holder
  BY <1>1, AgedRow
<1> QED BY <1>2 DEF Environment, MessageArrives, OverflowDetected, DrainPendingMarker, Tick, ClockStepsBack, vars

RowOwners == LeaseHasOwner /\ MarkerHasOwner

\* Every step keeps the owners.
LEMMA StepKeepsOwners ==
    ASSUME TypeOK, RowOwners, [Next]_vars
    PROVE  RowOwners'
<1>1. CASE Environment \/ UNCHANGED vars
  BY <1>1, EnvironmentOwners DEF RowOwners, LeaseHasOwner, MarkerHasOwner
<1>2. ASSUME NEW p \in Procs, StepOf(p) PROVE RowOwners'
  <2>1. Owners(p)
    BY <1>2, CrashOwners, StartOwners, RunOwners, WrapupOwners DEF StepOf, RowOwners
  <2> QED BY <2>1 DEF Owners, RowOwners, LeaseHasOwner, MarkerHasOwner
<1> QED BY <1>1, <1>2 DEF Next, StepOf

\* Both rows name their owners in every state.
LEMMA RowOwnersHold == Spec => []RowOwners
<1>1. Init => RowOwners
  BY DEF Init, RowOwners, LeaseHasOwner, MarkerHasOwner, NoRow
<1>2. TypeOK /\ RowOwners /\ [Next]_vars => RowOwners'
  BY StepKeepsOwners
<1> QED BY <1>1, <1>2, TypeCorrect, PTL DEF Spec

\* Every way out of a run gives the lease row back.
THEOREM LeaseIsOwned == Spec => []LeaseHasOwner
<1>1. RowOwners => LeaseHasOwner
  BY DEF RowOwners
<1> QED BY <1>1, RowOwnersHold, PTL

\* Every way out of /ctx-wrapup gives the marker back.
THEOREM MarkerIsOwned == Spec => []MarkerHasOwner
<1>1. RowOwners => MarkerHasOwner
  BY DEF RowOwners
<1> QED BY <1>1, RowOwnersHold, PTL

----------------------------------------------------------------------------
(* Runs of a wrapup, and the messages that stay raw *)

\* The runs of kind wrapup are those a wrapup is waiting for, and its target
\* exists.
WrapupRuns ==
    \A p \in Procs :
        /\ run[p].kind = "wrapup" => wrap[p].pc = "running"
        /\ wrap[p].pc = "running" => run[p].kind = "wrapup" /\ run[p].pc \notin {"idle", "starting", "leased"}
        /\ wrap[p].pc # "off" => p \in Wrappers
        /\ wrap[p].target <= raw

\* No step of a process adds a raw message.
LEMMA RawStays ==
    ASSUME NEW p, StepOf(p)
    PROVE  UNCHANGED raw
BY DEF StepOf, Crash, StartStep, TriggerFires, ClearStaleFlag, StartAgent, AcquireLease, LeaseRefused,
       RecheckWrapup, RunStep, BeginRun, BeginNoOp, QuotaExhausted, RunFails, HistorianReturns, Publish,
       PublishRefused, FinishRun, ReleaseLease, RenewLease, WrapupStep, StartWrapup, RenewMarker,
       WrapupEnters, WrapupLoop, WrapupAcquiresLease, WrapupWaitsForLease, WrapupTimesOut,
       WrapupIterationDone, WrapupCloses

\* Steps of p keep it.
LEMMA StepKeepsWrapupRuns ==
    ASSUME IInv, TypeOK', RowOwners, WrapupRuns, [Next]_vars
    PROVE  WrapupRuns'
<1>0. /\ TypeOK /\ run \in [Procs -> Runs] /\ wrap \in [Procs -> Wraps] /\ raw \in Nat /\ raw' \in Nat
      /\ compartments \in Seq(Compartment)
  BY TypeOKParts DEF TypeParts, IInv
<1>1. CASE Environment \/ UNCHANGED vars
  <2>1. raw <= raw'
    BY <1>0, <1>1 DEF Environment, MessageArrives, OverflowDetected, DrainPendingMarker, Tick, ClockStepsBack, vars
  <2>2. \A p \in Procs : wrap[p].target \in Nat
    BY <1>0 DEF Wraps
  <2> QED BY <1>0, <1>1, <2>1, <2>2, EnvironmentOwners DEF WrapupRuns
<1>2. ASSUME NEW p \in Procs, StepOf(p) PROVE WrapupRuns'
  <2>1. \A q \in Procs : q # p => run'[q] = run[q] /\ wrap'[q] = wrap[q]
    BY <1>0, <1>2, CrashOwners, StartOwners, RunOwners, WrapupOwners DEF StepOf, RowOwners, Owners
  <2>2. UNCHANGED raw
    BY <1>2, RawStays
  <2> DEFINE Mine == /\ run[p].kind = "wrapup" => wrap[p].pc = "running"
                     /\ wrap[p].pc = "running" => run[p].kind = "wrapup" /\ run[p].pc \notin {"idle", "starting", "leased"}
                     /\ wrap[p].pc # "off" => p \in Wrappers
                     /\ wrap[p].target <= raw
             Mine1 == /\ run'[p].kind = "wrapup" => wrap'[p].pc = "running"
                      /\ wrap'[p].pc = "running" => run'[p].kind = "wrapup" /\ run'[p].pc \notin {"idle", "starting", "leased"}
                      /\ wrap'[p].pc # "off" => p \in Wrappers
                      /\ wrap'[p].target <= raw
  <2>3. Mine
    BY DEF WrapupRuns
  <2> SUFFICES Mine1
    BY <2>1, <2>2 DEF WrapupRuns
  <2>s. {"idle", "starting", "leased", "granted", "committed", "settling"} \subseteq RunStates
    BY DEF RunStates
  <2>4. CASE Crash(p)
    BY <1>0, <2>4 DEF Crash, IdleRun, NoWrapup
  <2>5. CASE StartStep(p)
    <3>1. UNCHANGED wrap
      BY <2>5 DEF StartStep, TriggerFires, ClearStaleFlag, StartAgent, AcquireLease, LeaseRefused, RecheckWrapup
    <3>2. \/ UNCHANGED run
          \/ /\ run[p].pc \in {"idle", "starting", "leased"}
             /\ \E pc \in {"idle", "starting", "leased", "granted"} : MoveRun(p, pc)
      BY <2>5 DEF StartStep, TriggerFires, ClearStaleFlag, StartAgent, AcquireLease, LeaseRefused, RecheckWrapup
    <3>3. run'[p].kind = run[p].kind
      BY <1>0, <2>s, <3>2, RunKeepsKind
    <3> QED BY <2>3, <3>1, <3>2, <3>3
  <2>6. CASE RunStep(p) /\ ~ReleaseLease(p)
    <3>1. UNCHANGED wrap
      BY <2>6 DEF RunStep, BeginRun, BeginNoOp, QuotaExhausted, RunFails, HistorianReturns, Publish,
             PublishRefused, FinishRun, RenewLease
    <3>2. \/ UNCHANGED run
          \/ run'[p].kind = run[p].kind /\ run'[p].pc \notin {"idle", "starting", "leased"}
      <4>1. CASE BeginRun(p)
        <5>1. \E offset, n, last : run' = [run EXCEPT ![p] = [@ EXCEPT !.pc = "drafting",
                   !.offset = offset, !.sequenceOffset = n, !.chunkEnd = last]]
          BY <4>1 DEF BeginRun
        <5> QED BY <1>0, <5>1 DEF Runs
      <4>2. CASE HistorianReturns(p)
        <5>1. \E kept : run' = [run EXCEPT ![p] = [@ EXCEPT !.pc = "drafted", !.draft = kept]]
          BY <4>2 DEF HistorianReturns
        <5> QED BY <1>0, <5>1 DEF Runs
      <4>3. CASE EndRun(p, "settling") \/ EndRun(p, "committed")
        BY <1>0, <2>s, <4>3, RunKeepsKind
      <4> QED BY <2>6, <4>1, <4>2, <4>3 DEF RunStep, BeginNoOp, QuotaExhausted, RunFails, Publish,
                 PublishRefused, FinishRun, RenewLease
    <3> QED BY <2>3, <3>1, <3>2
  <2>7. CASE ReleaseLease(p)
    <3>1. /\ run'[p].kind = "incremental"
          /\ wrap'[p].target = wrap[p].target
          /\ wrap'[p].pc = IF run[p].kind = "wrapup" THEN "iterated" ELSE wrap[p].pc
      BY <1>0, <2>7 DEF ReleaseLease, IdleRun, Wraps
    <3> QED BY <2>3, <3>1
  <2>8. CASE WrapupAcquiresLease(p)
    <3>1. /\ run'[p].kind = "wrapup" /\ run'[p].pc = "granted" /\ wrap[p].pc = "leasing"
          /\ wrap'[p].pc = "running" /\ wrap'[p].target = wrap[p].target
      BY <1>0, <2>8 DEF WrapupAcquiresLease, IdleRun, Wraps
    <3> QED BY <2>3, <3>1
  <2>9. CASE StartWrapup(p)
    <3>1. PICK target \in (LastEnd(compartments) + 2)..raw :
             wrap' = [wrap EXCEPT ![p] = [NoWrapup EXCEPT !.pc = "waiting", !.target = target]]
      BY <2>9 DEF StartWrapup
    <3>2. wrap'[p].pc = "waiting" /\ wrap'[p].target = target
      BY <1>0, <3>1 DEF NoWrapup
    <3>3. target <= raw
      BY <1>0, <3>1, LastEndType
    <3> QED BY <2>3, <2>9, <3>2, <3>3 DEF StartWrapup
  <2>10. CASE WrapupStep(p) /\ ~WrapupAcquiresLease(p) /\ ~StartWrapup(p)
    <3>1. UNCHANGED run
      BY <2>10 DEF WrapupStep, RenewMarker, WrapupEnters, WrapupLoop, WrapupWaitsForLease, WrapupTimesOut,
             WrapupIterationDone, WrapupCloses
    <3>2. CASE ~RenewMarker(p) /\ \E success \in BOOLEAN : EndWrapup(p, success) \/ WrapupCloses(p)
      <4>1. wrap'[p].pc \in {"off", "closing"} /\ wrap'[p].target = 0
        <5>1. CASE WrapupCloses(p)
          BY <1>0, <5>1 DEF WrapupCloses, NoWrapup
        <5> QED BY <1>0, <3>2, <5>1, EndWrapupGivesBack
      <4>2. wrap[p].pc # "off" /\ wrap[p].pc # "running"
        BY <2>10, <3>2 DEF WrapupStep, WrapupEnters, WrapupLoop, WrapupWaitsForLease, WrapupTimesOut,
             WrapupIterationDone, WrapupCloses
      <4> QED BY <1>0, <2>3, <3>1, <4>1, <4>2
    <3>3. CASE RenewMarker(p) \/ ~\E success \in BOOLEAN : EndWrapup(p, success) \/ WrapupCloses(p)
      <4>1. \/ UNCHANGED wrap
            \/ wrap' = [wrap EXCEPT ![p].lost = TRUE]
            \/ /\ wrap[p].pc \notin {"off", "running"}
               /\ \/ wrap' = [wrap EXCEPT ![p].pc = "loop"]
                  \/ wrap' = [wrap EXCEPT ![p].pc = "leasing", ![p].before = LastEnd(compartments)]
        BY <2>10, <3>3 DEF WrapupStep, RenewMarker, WrapupEnters, WrapupLoop, WrapupWaitsForLease, WrapupTimesOut,
             WrapupIterationDone
      <4>2. /\ wrap'[p].target = wrap[p].target
            /\ \/ wrap'[p].pc = wrap[p].pc
               \/ wrap[p].pc \notin {"off", "running"} /\ wrap'[p].pc \in {"loop", "leasing"}
        BY <1>0, <4>1 DEF Wraps
      <4> QED BY <2>3, <3>1, <4>2
    <3> QED BY <3>2, <3>3
  <2> QED BY <1>2, <2>4, <2>5, <2>6, <2>7, <2>8, <2>9, <2>10 DEF StepOf, RunStep
<1> QED BY <1>1, <1>2 DEF Next, StepOf

\* It holds in every state.
LEMMA WrapupRunsHold == Spec => []WrapupRuns
<1>1. Init => WrapupRuns
  BY DEF Init, WrapupRuns, IdleRun, NoWrapup
<1>2. IInv /\ TypeOK' /\ RowOwners /\ WrapupRuns /\ [Next]_vars => WrapupRuns'
  BY StepKeepsWrapupRuns
<1> QED BY <1>1, <1>2, InvariantHolds, TypeCorrect, RowOwnersHold, PTL DEF Spec

\* What every run leaves raw: the protected tail, but a wrapup keeps one
\* message only.
Kept == IF Wrappers = {} \/ ProtectedTail = 0 THEN ProtectedTail ELSE 1

\* Chunks end before the messages that are kept, drafts inside their chunk,
\* and so does the published history.
HeadOnly ==
    /\ \A p \in Procs : run[p].pc \in Drafts => run[p].chunkEnd + Kept <= raw
    /\ \A p \in Procs : run[p].pc = "drafted" => LastEnd(run[p].draft) <= run[p].chunkEnd
    /\ compartments # <<>> => LastEnd(compartments) + Kept <= raw

\* A step that neither drafts nor publishes keeps it.
LEMMA QuietKeepsHead ==
    ASSUME TypeOK, TypeOK', HeadOnly, Quiet, raw <= raw'
    PROVE  HeadOnly'
<1>1. /\ raw \in Nat /\ raw' \in Nat /\ Kept \in Nat /\ LastEnd(compartments) \in Nat
      /\ \A p \in Procs : run[p].chunkEnd \in Nat
  BY TypeOKParts, LastEndType DEF TypeParts, Kept, Runs
<1>2. \A p \in Procs : run'[p].pc \in Drafts => run'[p] = run[p]
  BY DEF Quiet
<1>3. \A p \in Procs : run'[p].pc \in Drafts => run'[p].chunkEnd + Kept <= raw'
  BY <1>1, <1>2 DEF HeadOnly
<1>4. \A p \in Procs : run'[p].pc = "drafted" => LastEnd(run'[p].draft) <= run'[p].chunkEnd
  BY <1>2 DEF HeadOnly, Drafts
<1>5. compartments' # <<>> => LastEnd(compartments') + Kept <= raw'
  BY <1>1 DEF HeadOnly, Quiet
<1> QED BY <1>3, <1>4, <1>5 DEF HeadOnly

\* A chunk is cut from the head: a wrapup's before its target, any other
\* before the protected tail.
LEMMA ChunkFromHead ==
    ASSUME IInv, WrapupRuns, HeadOnly, NEW p \in Procs, BeginRun(p)
    PROVE  HeadOnly'
<1>0. /\ run \in [Procs -> Runs] /\ wrap[p].target \in Nat /\ raw \in Nat
      /\ LastEnd(compartments) \in Nat /\ Kept \in Nat
  BY TypeOKParts, LastEndType DEF TypeParts, IInv, Wraps, Kept
<1>1. PICK last \in (LastEnd(compartments) + 1)..(RunEligibleEnd(p) - 1) :
         run' = [run EXCEPT ![p] = [@ EXCEPT !.pc = "drafting", !.offset = LastEnd(compartments) + 1,
                                    !.sequenceOffset = NextSequence(compartments), !.chunkEnd = last]]
  BY DEF BeginRun
<1>2. /\ run'[p].pc = "drafting" /\ run'[p].chunkEnd = last
      /\ \A q \in Procs : q # p => run'[q] = run[q]
  BY <1>0, <1>1 DEF Runs
<1>3. UNCHANGED <<raw, compartments>> /\ run[p].pc = "granted"
  BY DEF BeginRun, store
<1>4. last + Kept <= raw
  <2>1. CASE run[p].kind = "wrapup"
    <3>1. p \in Wrappers /\ wrap[p].target <= raw
      BY <2>1 DEF WrapupRuns
    <3>2. Kept <= 1
      BY <3>1 DEF Kept
    <3> QED BY <1>0, <1>1, <2>1, <3>1, <3>2 DEF RunEligibleEnd
  <2>2. CASE run[p].kind # "wrapup"
    <3>1. Kept <= ProtectedTail
      BY DEF Kept
    <3>2. last \in (LastEnd(compartments) + 1)..(EligibleEnd - 1)
      BY <1>1, <2>2 DEF RunEligibleEnd
    <3> QED BY <1>0, <3>1, <3>2 DEF EligibleEnd
  <2> QED BY <2>1, <2>2
<1> QED BY <1>2, <1>3, <1>4 DEF HeadOnly

\* A draft, with or without its provisional last row, stays in its chunk.
LEMMA DraftInChunk ==
    ASSUME IInv, HeadOnly, NEW p \in Procs, HistorianReturns(p)
    PROVE  HeadOnly'
<1> DEFINE f == run[p].offset
           l == run[p].chunkEnd
           n == run[p].sequenceOffset
<1>r. run \in [Procs -> Runs]
  BY TypeOKParts DEF TypeParts, IInv
<1>0. run \in [Procs -> Runs] /\ f \in Nat /\ l \in Nat /\ n \in Nat
  BY <1>r DEF Runs
<1> HIDE DEF f, l, n
<1>1. PICK ends \in EndLists(f, l) :
         \E kept \in {Split(f, ends, n), WithoutLast(Split(f, ends, n))} :
            /\ kept # Split(f, ends, n) => Len(Split(f, ends, n)) >= 2
            /\ run' = [run EXCEPT ![p] = [@ EXCEPT !.pc = "drafted", !.draft = kept]]
  BY DEF HistorianReturns, ShouldDiscardLast, f, l, n
<1>2. PICK kept \in {Split(f, ends, n), WithoutLast(Split(f, ends, n))} :
         /\ kept # Split(f, ends, n) => Len(Split(f, ends, n)) >= 2
         /\ run' = [run EXCEPT ![p] = [@ EXCEPT !.pc = "drafted", !.draft = kept]]
  BY <1>1
<1>3. \E e \in EndLists(f, l) : kept = Split(f, e, n)
  <2>1. CASE kept # Split(f, ends, n)
    <3>1. Len(Split(f, ends, n)) >= 2 /\ kept = WithoutLast(Split(f, ends, n))
      BY <1>2, <2>1
    <3>2. \E e \in EndLists(f, l) :
             SubSeq(Split(f, ends, n), 1, Len(Split(f, ends, n)) - 1) = Split(f, e, n)
      BY <1>0, <3>1, SplitWithoutLast
    <3> QED BY <3>1, <3>2 DEF WithoutLast
  <2> QED BY <2>1
<1>4. LastEnd(kept) <= l
  BY <1>0, <1>3, SplitProperties
<1>5. /\ run'[p].draft = kept /\ run'[p].chunkEnd = l
      /\ \A q \in Procs : q # p => run'[q] = run[q]
  BY <1>0, <1>2 DEF Runs, l
<1>6. run[p].pc = "drafting" /\ UNCHANGED <<raw, compartments>>
  BY DEF HistorianReturns, store
<1> QED BY <1>4, <1>5, <1>6 DEF HeadOnly, Drafts, l

\* What is published ends where the draft did.
LEMMA PublishInHead ==
    ASSUME IInv, HeadOnly, NEW p \in Procs, Publish(p)
    PROVE  HeadOnly'
<1>0. /\ run \in [Procs -> Runs] /\ run[p].chunkEnd \in Nat /\ LastEnd(run[p].draft) \in Nat
      /\ raw \in Nat /\ LastEnd(compartments) \in Nat /\ Kept \in Nat
  <2>1. run[p] \in Runs /\ compartments \in Seq(Compartment) /\ raw \in Nat
    BY TypeOKParts DEF TypeParts, IInv
  <2> QED BY <2>1, TypeOKParts, LastEndType DEF TypeParts, IInv, Runs, Kept
<1>1. /\ run[p].pc = "drafted" /\ UNCHANGED raw /\ EndRun(p, "committed")
      /\ floor' = IF floor < LastEnd(run[p].draft) + 1 THEN LastEnd(run[p].draft) + 1 ELSE floor
  BY DEF Publish
<1>2. /\ run'[p].pc = "committed"
      /\ \A q \in Procs : q # p => run'[q] = run[q]
  <2>1. "committed" \in RunStates
    BY DEF RunStates
  <2> QED BY <1>0, <1>1, <2>1, RunKeepsKind
<1>3. /\ run[p].chunkEnd + Kept <= raw /\ LastEnd(run[p].draft) <= run[p].chunkEnd
  BY <1>1 DEF HeadOnly, Drafts
<1>4. floor = LastEnd(compartments) + 1 /\ floor' = LastEnd(compartments') + 1
  BY PublishStep DEF IInv, FloorTracksHistory
<1>5. LastEnd(compartments') \in Nat
  BY PublishStep, TypeOKParts, LastEndType DEF IInv, TypeParts
<1>6. LastEnd(compartments') + Kept <= raw'
  <2>1. CASE compartments = <<>>
    <3>1. LastEnd(compartments) = 0
      BY <2>1 DEF LastEnd
    <3> QED BY <1>0, <1>1, <1>3, <1>4, <1>5, <3>1
  <2>2. CASE compartments # <<>>
    BY <1>0, <1>1, <1>3, <1>4, <1>5, <2>2 DEF HeadOnly
  <2> QED BY <2>1, <2>2
<1> QED BY <1>1, <1>2, <1>6 DEF HeadOnly, Drafts

\* The messages that are kept are kept, in every state.
LEMMA HeadOnlyHolds == Spec => []HeadOnly
<1>1. Init => HeadOnly
  BY DEF Init, HeadOnly, IdleRun, Drafts
<1>2. IInv /\ TypeOK' /\ WrapupRuns /\ HeadOnly /\ [Next]_vars => HeadOnly'
  <2> SUFFICES ASSUME IInv, TypeOK', WrapupRuns, HeadOnly, [Next]_vars PROVE HeadOnly'
    OBVIOUS
  <2>0. TypeOK /\ raw \in Nat
    BY DEF IInv, TypeOK
  <2>1. CASE Environment
    <3>1. raw <= raw'
      BY <2>0, <2>1 DEF Environment, MessageArrives, OverflowDetected, DrainPendingMarker, Tick, ClockStepsBack
    <3> QED BY <2>0, <2>1, <3>1, EnvironmentStep, QuietKeepsHead
  <2>2. CASE UNCHANGED vars
    BY <2>2 DEF vars, store, HeadOnly
  <2>3. ASSUME NEW p \in Procs, StepOf(p) PROVE HeadOnly'
    <3>0. raw <= raw'
      BY <2>0, <2>3, RawStays
    <3>1. CASE BeginRun(p)
      BY <3>1, ChunkFromHead
    <3>2. CASE HistorianReturns(p)
      BY <3>2, DraftInChunk
    <3>3. CASE Publish(p)
      BY <3>3, PublishInHead
    <3>4. CASE ~(BeginRun(p) \/ HistorianReturns(p) \/ Publish(p))
      <4>1. Quiet
        BY <2>3, <3>4, CrashStep, StartingStep, QuietRunStep, WrapupQuiet DEF StepOf, RunStep
      <4> QED BY <2>0, <3>0, <4>1, QuietKeepsHead
    <3> QED BY <3>1, <3>2, <3>3, <3>4
  <2> QED BY <2>1, <2>2, <2>3 DEF Next, StepOf
<1> QED BY <1>1, <1>2, InvariantHolds, TypeCorrect, WrapupRunsHold, PTL DEF Spec

\* No run compacts a message of the protected tail, however stale its
\* snapshot.  A wrapup compacts up to its target and keeps one message, so
\* with wrapups a longer tail is not promised.
THEOREM TailStaysRaw ==
    ASSUME Wrappers = {} \/ ProtectedTail <= 1
    PROVE  Spec => []TailProtected
<1>1. Kept = ProtectedTail
  BY DEF Kept
<1>2. HeadOnly => TailProtected
  BY <1>1 DEF HeadOnly, TailProtected
<1> QED BY <1>2, HeadOnlyHolds, PTL

----------------------------------------------------------------------------
(* Publication under the marker of a wrapup *)

\* While a wrapup's marker is in the row (live or not: whoever finds it
\* expired removes it before going on), its process runs nothing else, and
\* once the wrapup had the lease another run has it only to look at the marker
\* and give it back.
WrapupAlone ==
    \A r \in Procs : marker.holder = r =>
        /\ wrap[r].pc \in {"loop", "leasing", "iterated"} => run[r].pc = "idle"
        /\ wrap[r].pc \in {"running", "iterated"} =>
              \A q \in Procs : q # r /\ lease.holder = q => run[q].pc = "leased"

\* What a step of p must do for that: on its own wrapup's behalf, and while
\* another process's marker is in the row.
Apart(p) ==
    /\ marker'.holder = p /\ wrap'[p].pc \in {"loop", "leasing", "iterated"} => run'[p].pc = "idle"
    /\ marker'.holder = p /\ wrap'[p].pc \in {"running", "iterated"} =>
          lease'.holder = p \/ (marker.holder = p /\ wrap[p].pc \in {"running", "iterated"})
    /\ lease'.holder = p /\ marker'.holder # Nobody =>
          \/ run'[p].pc = "leased"
          \/ lease.holder = p /\ run[p].pc # "leased"
          \/ p \in Wrappers

\* Starting a run looks at the marker before and after it takes the lease.
LEMMA StartApart ==
    ASSUME TypeOK, WrapupAlone, NEW p \in Procs, StartStep(p)
    PROVE  Apart(p)
<1>0. run \in [Procs -> Runs] /\ marker \in Rows(MarkerTTL)
  BY TypeOKParts DEF TypeParts
<1>s. {"idle", "starting", "leased", "granted"} \subseteq RunStates
  BY DEF RunStates
<1>n. NoRow.holder = Nobody /\ Nobody # p
  BY DEF NoRow
<1>1. CASE TriggerFires(p) \/ ClearStaleFlag(p)
  BY <1>1 DEF TriggerFires, ClearStaleFlag, WrapupAlone, Apart
<1>2. CASE StartAgent(p)
  <2>1. /\ UNCHANGED <<lease, wrap>> /\ run[p].pc = "idle"
        /\ (UNCHANGED <<run, marker>>) \/ marker' = NoRow
    BY <1>2 DEF StartAgent, ReapedMarker, WrapupInProgress
  <2> QED BY <1>n, <2>1 DEF WrapupAlone, Apart
<1>3. CASE AcquireLease(p)
  <2>1. UNCHANGED <<marker, wrap>> /\ run[p].pc = "starting" /\ MoveRun(p, "leased")
    BY <1>3 DEF AcquireLease
  <2>2. run'[p].pc = "leased"
    BY <1>0, <1>s, <2>1, RunKeepsKind
  <2> QED BY <2>1, <2>2 DEF WrapupAlone, Apart
<1>4. CASE LeaseRefused(p)
  <2>1. UNCHANGED <<lease, marker, wrap>> /\ run[p].pc = "starting"
    BY <1>4 DEF LeaseRefused
  <2> QED BY <2>1 DEF WrapupAlone, Apart
<1>5. CASE RecheckWrapup(p)
  <2>1. /\ UNCHANGED wrap /\ run[p].pc = "leased"
        /\ \/ lease' = Released(lease, p) /\ UNCHANGED marker
           \/ marker' = NoRow
    BY <1>5 DEF RecheckWrapup, ReapedMarker, WrapupInProgress
  <2>2. lease'.holder # p \/ marker'.holder = Nobody
    BY <1>n, <2>1 DEF Released
  <2> QED BY <1>n, <2>1, <2>2 DEF WrapupAlone, Apart
<1> QED BY <1>1, <1>2, <1>3, <1>4, <1>5 DEF StartStep

\* A run takes no lease, and ends idle.
LEMMA RunApart ==
    ASSUME TypeOK, WrapupRuns, WrapupAlone, NEW p \in Procs, RunStep(p)
    PROVE  Apart(p)
<1>0. run \in [Procs -> Runs] /\ wrap \in [Procs -> Wraps] /\ lease \in Rows(LeaseTTL)
  BY TypeOKParts DEF TypeParts
<1>1. run[p].pc \notin {"idle", "starting", "leased"}
  BY DEF RunStep, BeginRun, BeginNoOp, QuotaExhausted, RunFails, HistorianReturns, Publish,
         PublishRefused, FinishRun, ReleaseLease, RenewLease
<1>2. marker' \in {marker, NoRow} /\ NoRow.holder = Nobody /\ Nobody # p
  BY DEF RunStep, BeginRun, BeginNoOp, QuotaExhausted, RunFails, HistorianReturns, Publish,
         PublishRefused, FinishRun, ReleaseLease, RenewLease, ReapedMarker, NoRow
<1>3. CASE ReleaseLease(p)
  <2>1. /\ lease'.holder # p /\ run'[p].pc = "idle"
        /\ wrap'[p].pc = IF run[p].kind = "wrapup" THEN "iterated" ELSE wrap[p].pc
    BY <1>0, <1>3 DEF ReleaseLease, Released, NoRow, IdleRun, Wraps
  <2> QED BY <1>2, <2>1 DEF WrapupRuns, Apart
<1>4. CASE ~ReleaseLease(p)
  <2>1. UNCHANGED wrap
    BY <1>4 DEF RunStep, BeginRun, BeginNoOp, QuotaExhausted, RunFails, HistorianReturns, Publish,
           PublishRefused, FinishRun, RenewLease
  <2>2. lease'.holder = lease.holder
    BY <1>0, <1>4 DEF RunStep, BeginRun, BeginNoOp, QuotaExhausted, RunFails, HistorianReturns, Publish,
           PublishRefused, FinishRun, RenewLease, Rows
  <2> QED BY <1>1, <1>2, <2>1, <2>2 DEF WrapupAlone, Apart
<1> QED BY <1>3, <1>4

\* A wrapup goes on only with its process idle.
LEMMA WrapupApart ==
    ASSUME TypeOK, MarkerHasOwner, WrapupRuns, WrapupAlone, NEW p \in Procs, WrapupStep(p)
    PROVE  Apart(p)
<1>0. /\ run \in [Procs -> Runs] /\ wrap \in [Procs -> Wraps] /\ marker \in Rows(MarkerTTL)
  BY TypeOKParts DEF TypeParts
<1>1. RenewedMarker.holder = marker.holder
  BY <1>0 DEF RenewedMarker, Rows
<1>2. CASE WrapupAcquiresLease(p)
  <2>1. lease'.holder = p /\ wrap'[p].pc = "running" /\ wrap[p].pc = "leasing"
    BY <1>0, <1>2 DEF WrapupAcquiresLease, Acquired, Wraps
  <2> QED BY <2>1 DEF WrapupRuns, Apart
<1>3. CASE ~WrapupAcquiresLease(p)
  <2>1. UNCHANGED <<lease, run>>
    BY <1>3 DEF WrapupStep, StartWrapup, RenewMarker, WrapupEnters, WrapupLoop, WrapupWaitsForLease,
           WrapupTimesOut, WrapupIterationDone, WrapupCloses
  <2>2. \/ marker'.holder # p
        \/ wrap'[p].pc = "waiting"
        \/ marker.holder = p /\ wrap'[p].pc = wrap[p].pc
        \/ run[p].pc = "idle" /\ wrap'[p].pc = "loop"
        \/ marker.holder = p /\ wrap[p].pc \in {"loop", "iterated"} /\ wrap'[p].pc \in {"loop", "leasing"}
    <3>1. CASE StartWrapup(p)
      BY <1>0, <3>1 DEF StartWrapup, NoWrapup
    <3>2. CASE RenewMarker(p) \/ WrapupEnters(p)
      BY <1>0, <1>1, <3>2 DEF RenewMarker, WrapupEnters, Wraps
    <3>3. CASE \E success \in BOOLEAN : EndWrapup(p, success)
      BY <3>3, EndWrapupGivesBack
    <3>4. CASE WrapupLoop(p) /\ ~\E success \in BOOLEAN : EndWrapup(p, success)
      <4>1. /\ wrap[p].pc = "loop" /\ marker' = RenewedMarker
            /\ wrap' = [wrap EXCEPT ![p].pc = "leasing", ![p].before = LastEnd(compartments)]
        BY <3>4 DEF WrapupLoop
      <4> QED BY <1>0, <1>1, <4>1 DEF Wraps
    <3>5. CASE /\ WrapupWaitsForLease(p) \/ WrapupTimesOut(p) \/ WrapupIterationDone(p)
               /\ ~\E success \in BOOLEAN : EndWrapup(p, success)
      <4>1. \/ wrap' = wrap /\ marker' = RenewedMarker
            \/ wrap[p].pc = "iterated" /\ wrap' = [wrap EXCEPT ![p].pc = "loop"] /\ UNCHANGED marker
        BY <3>5 DEF WrapupWaitsForLease, WrapupTimesOut, WrapupIterationDone
      <4> QED BY <1>0, <1>1, <4>1 DEF Wraps
    <3>6. CASE WrapupCloses(p)
      BY <3>6 DEF WrapupCloses, MarkerHasOwner
    <3> QED BY <1>3, <3>1, <3>2, <3>3, <3>4, <3>5, <3>6 DEF WrapupStep
  <2>3. lease'.holder = p => run[p].pc # "leased" \/ run'[p].pc = "leased"
    BY <2>1
  <2> QED BY <2>1, <2>2, <2>3 DEF WrapupAlone, Apart
<1> QED BY <1>2, <1>3

\* Every step keeps it, if one process at most runs wrapups: a second wrapup
\* that lost its marker between its check and the lease would be let in.
LEMMA StepKeepsAlone ==
    ASSUME \A p, q \in Wrappers : p = q,
           IInv, RowOwners, WrapupRuns, WrapupAlone, [Next]_vars
    PROVE  WrapupAlone'
<1>0. TypeOK
  BY DEF IInv
<1>1. CASE Environment \/ UNCHANGED vars
  BY <1>0, <1>1, EnvironmentOwners DEF WrapupAlone
<1>2. ASSUME NEW p \in Procs, StepOf(p) PROVE WrapupAlone'
  <2>1. Owners(p)
    BY <1>0, <1>2, CrashOwners, StartOwners, RunOwners, WrapupOwners DEF StepOf, RowOwners
  <2>2. CASE ~Crash(p)
    <3>1. Apart(p)
      BY <1>0, <1>2, <2>2, StartApart, RunApart, WrapupApart DEF StepOf, RowOwners
    <3>2. ASSUME NEW r \in Procs, marker'.holder = r, wrap'[r].pc \in {"loop", "leasing", "iterated"}
          PROVE  run'[r].pc = "idle"
      BY <2>1, <3>1, <3>2 DEF Owners, Apart, WrapupAlone
    <3>3. ASSUME NEW r \in Procs, marker'.holder = r, wrap'[r].pc \in {"running", "iterated"},
                 NEW q \in Procs, q # r, lease'.holder = q
          PROVE  run'[q].pc = "leased"
      <4>1. CASE p # q /\ p # r
        BY <2>1, <3>3, <4>1 DEF Owners, WrapupAlone
      <4>2. CASE p = r
        BY <2>1, <3>1, <3>3, <4>2 DEF Owners, Apart, WrapupAlone
      <4>3. CASE p = q
        <5>1. marker.holder = r /\ wrap[r].pc \in {"running", "iterated"}
          BY <2>1, <3>3, <4>3 DEF Owners
        <5>2. p \notin Wrappers
          BY <3>3, <4>3, <5>1 DEF WrapupRuns
        <5> QED BY <3>1, <3>3, <4>3, <5>1, <5>2 DEF Apart, WrapupAlone
      <4> QED BY <4>1, <4>2, <4>3
    <3> QED BY <3>2, <3>3 DEF WrapupAlone
  <2>3. CASE Crash(p)
    <3>1. lease'.holder # p /\ marker'.holder # p
      BY <1>0, <2>3, TypeOKParts DEF Crash, Abandoned, TypeParts, Rows
    <3> QED BY <2>1, <3>1 DEF Owners, WrapupAlone
  <2> QED BY <2>2, <2>3
<1> QED BY <1>1, <1>2 DEF Next, StepOf

\* "/ctx-wrapup owns compartment-state publication while this marker is live":
\* as long as one process at most runs wrapups, only the runs of a wrapup that
\* has had the lease publish while its marker lasts, whatever other runs have
\* read, leased or drafted before, and whatever expires or steps back.
THEOREM WrapupPublishesAlone ==
    ASSUME \A p, q \in Wrappers : p = q
    PROVE  Spec => WrapupOwnsPublication
<1>1. Init => WrapupAlone
  BY DEF Init, WrapupAlone, NoRow
<1>2. IInv /\ RowOwners /\ WrapupRuns /\ WrapupAlone /\ [Next]_vars => WrapupAlone'
  BY StepKeepsAlone
<1>3. IInv /\ WrapupRuns /\ WrapupAlone /\ [Next]_vars =>
         [\A p \in Procs :
            /\ wrap[p].pc \in {"running", "iterated"} /\ IsHeldBy(marker, p)
            /\ compartments' # compartments
            => run[p].pc = "drafted" /\ run[p].kind = "wrapup" /\ run'[p].pc = "committed"]_vars
  <2> SUFFICES ASSUME IInv, WrapupRuns, WrapupAlone, [Next]_vars, NEW p \in Procs,
                      wrap[p].pc \in {"running", "iterated"}, marker.holder = p,
                      compartments' # compartments
               PROVE  run[p].pc = "drafted" /\ run[p].kind = "wrapup" /\ run'[p].pc = "committed"
    BY DEF IsHeldBy
  <2>1. PICK q \in Procs : Publish(q)
    BY OnlyPublishWrites
  <2>2. run[q].pc = "drafted" /\ lease.holder = q /\ EndRun(q, "committed")
    BY <2>1 DEF Publish, IsHeldBy
  <2>3. q = p
    BY <2>2 DEF WrapupAlone
  <2>4. run[p].kind = "wrapup"
    BY <2>2, <2>3 DEF WrapupAlone, WrapupRuns
  <2>5. run'[p].pc = "committed"
    <3>1. "committed" \in RunStates /\ run \in [Procs -> Runs]
      BY TypeOKParts DEF RunStates, IInv, TypeParts
    <3> QED BY <2>2, <2>3, <3>1, RunKeepsKind
  <2> QED BY <2>2, <2>3, <2>4, <2>5
<1> QED
  BY <1>1, <1>2, <1>3, InvariantHolds, RowOwnersHold, WrapupRunsHold, PTL DEF Spec, WrapupOwnsPublication

=============================================================================
