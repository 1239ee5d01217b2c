------------------------------ MODULE RecompProofs ------------------------------
(***************************************************************************)
(* What is proved about recomps, for any number of processes, messages and *)
(* crashes, as long as the lease renewals of a live process fire in time:  *)
(* a recomp that outlives its lease writes staging rows next to the new    *)
(* holder's.                                                               *)
(***************************************************************************)
EXTENDS Recomp, SequenceTheorems, WellFoundedInduction, TLAPS

----------------------------------------------------------------------------
(* Lists of rows *)

\* A non-empty list of increasing ends is a sequence of numbers of its range.
LEMMA EndListsType ==
    ASSUME NEW f \in Nat, NEW l \in Nat, NEW ends \in EndLists(f, l)
    PROVE  /\ ends \in Seq(Nat) /\ Len(ends) \in 1..(l + 1 - f)
           /\ ends \in [1..Len(ends) -> f..l] /\ DOMAIN ends = 1..Len(ends)
           /\ \A i \in 2..Len(ends) : ends[i-1] < ends[i]
<1>1. PICK n \in 1..(l + 1 - f) : ends \in [1..n -> f..l]
  BY DEF EndLists
<1>2. n \in Nat /\ \A i \in 1..n : ends[i] \in Nat
  BY <1>1
<1>3. ends \in Seq(Nat) /\ Len(ends) = n
  BY <1>1, <1>2
<1>4. \A i \in 2..Len(ends) : ends[i-1] < ends[i]
  BY DEF EndLists
<1> QED BY <1>1, <1>3, <1>4

\* A set of positions that is not empty has a first and a last one.
LEMMA FirstAndLast ==
    ASSUME NEW n \in Nat, NEW H \in SUBSET (1..n), H # {}
    PROVE  /\ \E i \in H : \A j \in H : i <= j
           /\ \E i \in H : \A j \in H : j <= i
  <1> DEFINE T == {n - k : k \in H}
  <1>1. ASSUME NEW S \in SUBSET Nat, S # {}
        PROVE  \E x \in S : \A y \in S : ~(y < x)
    <2>1. PICK x \in S : \A y \in S : ~(<<y, x>> \in OpToRel(<, Nat))
      BY <1>1, WFMin, NatLessThanWellFounded
    <2> QED
      BY <2>1 DEF OpToRel
  <1>2. H \in SUBSET Nat
    OBVIOUS
  <1>3. \E i \in H : \A j \in H : i <= j
    BY <1>1, <1>2
  <1>4. T \in SUBSET Nat /\ T # {}
    <2>1. \A k \in 1..n : n - k \in Nat
      OBVIOUS
    <2> QED
      BY <2>1
  <1>5. PICK x \in T : \A y \in T : ~(y < x)
    <2> HIDE DEF T
    <2> QED
      BY <1>1, <1>4
  <1>6. PICK i \in H : x = n - i
    BY <1>5
  <1>7. ASSUME NEW j \in H
        PROVE  j <= i
    <2>1. ~(n - j < n - i)
      BY <1>5, <1>6
    <2>2. j \in 1..n /\ i \in 1..n
      OBVIOUS
    <2> QED
      BY <2>1, <2>2
  <1> QED
    BY <1>3, <1>7

\* The last ordinal of a list of rows.
LEMMA LastEndIs ==
    ASSUME NEW list \in Seq(Row)
    PROVE  /\ LastEnd(list) \in 0..MaxRaw
           /\ list # <<>> => LastEnd(list) = list[Len(list)].endMessage /\ Len(list) \in 1..Len(list)
  <1>1. CASE list = <<>>
    BY <1>1, BoundAssumption DEF LastEnd
  <1>2. CASE list # <<>>
    <2>1. Len(list) \in 1..Len(list)
      BY <1>2, EmptySeq
    <2>2. list[Len(list)] \in Row
      BY <2>1, ElementOfSeq
    <2>3. list[Len(list)].endMessage \in 0..MaxRaw
      BY <2>2, BoundAssumption DEF Row
    <2> QED
      BY <1>2, <2>1, <2>3 DEF LastEnd
  <1> QED
    BY <1>1, <1>2

\* What a historian pass returns for f .. l.
LEMMA BuiltIs ==
    ASSUME NEW f \in 1..MaxRaw, NEW l \in 0..MaxRaw, NEW ends \in EndLists(f, l),
           NEW gen \in {"incremental", "full", "partial"}
    PROVE  /\ Built(f, ends, gen) \in Seq(Row) /\ Built(f, ends, gen) # <<>>
           /\ ContiguousFrom(Built(f, ends, gen), f)
  <1> DEFINE block == Built(f, ends, gen)
  <1>0. MaxRaw \in Nat /\ f \in Nat /\ l \in Nat
    BY BoundAssumption
  <1>1. /\ Len(ends) \in Nat /\ Len(ends) >= 1 /\ DOMAIN ends = 1..Len(ends)
        /\ \A i \in 1..Len(ends) : ends[i] \in f..l
        /\ \A i \in 2..Len(ends) : ends[i-1] < ends[i]
    <2>1. /\ Len(ends) \in 1..(l + 1 - f) /\ ends \in [1..Len(ends) -> f..l]
          /\ DOMAIN ends = 1..Len(ends)
          /\ \A i \in 2..Len(ends) : ends[i-1] < ends[i]
      BY <1>0, EndListsType
    <2> QED
      BY <1>0, <2>1
  <1>2. ASSUME NEW i \in 1..Len(ends)
        PROVE  /\ block[i].endMessage = ends[i] /\ block[i].gen = gen
               /\ block[i].startMessage = IF i = 1 THEN f ELSE ends[i-1] + 1
               /\ block[i] \in Row /\ block[i].startMessage <= block[i].endMessage
    <2>1. block[i] = [startMessage |-> IF i = 1 THEN f ELSE ends[i-1] + 1, endMessage |-> ends[i], gen |-> gen]
      BY <1>1 DEF Built
    <2>2. ends[i] \in 1..MaxRaw /\ f <= ends[i]
      BY <1>0, <1>1
    <2>3. CASE i = 1
      <3>1. block[i].startMessage = f /\ block[i].endMessage = ends[i] /\ block[i].gen = gen
        BY <2>1, <2>3
      <3> QED
        BY <1>0, <2>1, <2>2, <2>3, <3>1 DEF Row
    <2>4. CASE i # 1
      <3>1. i \in 2..Len(ends) /\ i - 1 \in 1..Len(ends)
        BY <1>1, <2>4
      <3>2. ends[i-1] < ends[i] /\ ends[i-1] \in 1..MaxRaw
        BY <1>0, <1>1, <3>1
      <3>3. ends[i-1] + 1 \in 1..MaxRaw /\ ends[i-1] + 1 <= ends[i]
        BY <1>0, <2>2, <3>2
      <3> QED
        BY <2>1, <2>2, <2>4, <3>3 DEF Row
    <2> QED
      BY <2>3, <2>4
  <1>3. block \in Seq(Row) /\ Len(block) = Len(ends)
    <2>1. block \in [1..Len(ends) -> Row]
      BY <1>1, <1>2 DEF Built
    <2> QED
      BY <1>1, <2>1
  <1>4. block # <<>>
    BY <1>1, <1>3
  <1>5. ContiguousFrom(block, f)
    <2> SUFFICES ASSUME NEW i \in 1..Len(ends)
                 PROVE  /\ block[i].startMessage = IF i = 1 THEN f ELSE block[i-1].endMessage + 1
                        /\ block[i].startMessage <= block[i].endMessage
      BY <1>3 DEF ContiguousFrom
    <2>1. i # 1 => i - 1 \in 1..Len(ends)
      BY <1>1
    <2> HIDE DEF block
    <2> QED
      BY <1>2, <2>1
  <1> QED
    BY <1>3, <1>4, <1>5

\* Two lists of rows in a row.
LEMMA Joined ==
    ASSUME NEW list \in Seq(Row), NEW block \in Seq(Row)
    PROVE  /\ list \o block \in Seq(Row) /\ Len(list \o block) = Len(list) + Len(block)
           /\ Len(list) \in Nat /\ Len(block) \in Nat
           /\ LastEnd(list \o block) = IF block = <<>> THEN LastEnd(list) ELSE LastEnd(block)
           /\ (/\ ContiguousFrom(list, 1)
               /\ ContiguousFrom(block, LastEnd(list) + 1)) => ContiguousFrom(list \o block, 1)
  <1> DEFINE all == list \o block
  <1>1. /\ all \in Seq(Row) /\ Len(all) = Len(list) + Len(block)
        /\ \A i \in 1..Len(all) : all[i] = IF i <= Len(list) THEN list[i] ELSE block[i - Len(list)]
    BY ConcatProperties
  <1>2. Len(list) \in Nat /\ Len(block) \in Nat
    BY LenProperties
  <1>3. LastEnd(all) = IF block = <<>> THEN LastEnd(list) ELSE LastEnd(block)
    <2>1. CASE block = <<>>
      BY <2>1, ConcatEmptySeq
    <2>2. CASE block # <<>>
      <3>1. Len(block) >= 1
        BY <1>2, <2>2, EmptySeq
      <3> HIDE DEF all
      <3>2. all # <<>> /\ all[Len(all)] = block[Len(block)]
        BY <1>1, <1>2, <3>1
      <3> QED
        BY <2>2, <3>2 DEF LastEnd
    <2> QED
      BY <2>1, <2>2
  <1>4. ASSUME ContiguousFrom(list, 1), ContiguousFrom(block, LastEnd(list) + 1)
        PROVE  ContiguousFrom(all, 1)
    <2> HIDE DEF all
    <2> SUFFICES ASSUME NEW i \in 1..Len(all)
                 PROVE  /\ all[i].startMessage = IF i = 1 THEN 1 ELSE all[i-1].endMessage + 1
                        /\ all[i].startMessage <= all[i].endMessage
      BY DEF ContiguousFrom
    <2>1. CASE i <= Len(list)
      <3>1. all[i] = list[i] /\ (i # 1 => all[i-1] = list[i-1])
        BY <1>1, <1>2, <2>1
      <3>2. i \in 1..Len(list)
        BY <1>2, <2>1
      <3> QED
        BY <1>4, <3>1, <3>2 DEF ContiguousFrom
    <2>2. CASE i = Len(list) + 1
      <3>1. all[i] = block[1] /\ 1 \in 1..Len(block)
        BY <1>1, <1>2, <2>2
      <3>2. block[1].startMessage = LastEnd(list) + 1 /\ block[1].startMessage <= block[1].endMessage
        BY <1>4, <3>1 DEF ContiguousFrom
      <3>3. CASE i = 1
        <4>1. Len(list) = 0 /\ list = <<>>
          BY <1>2, <2>2, <3>3, EmptySeq
        <4> QED
          BY <3>1, <3>2, <3>3, <4>1 DEF LastEnd
      <3>4. CASE i # 1
        <4>1. list # <<>> /\ all[i-1] = list[Len(list)]
          BY <1>1, <1>2, <2>2, <3>4
        <4> QED
          BY <3>1, <3>2, <3>4, <4>1 DEF LastEnd
      <3> QED
        BY <3>3, <3>4
    <2>3. CASE i > Len(list) + 1
      <3> DEFINE j == i - Len(list)
      <3>1. /\ j \in 1..Len(block) /\ j # 1 /\ i # 1
            /\ all[i] = block[j] /\ all[i-1] = block[j-1]
        <4>1. i - 1 \in 1..Len(all) /\ ~(i <= Len(list)) /\ ~(i - 1 <= Len(list))
          BY <1>1, <1>2, <2>3
        <4>2. all[i] = block[i - Len(list)] /\ all[i-1] = block[(i-1) - Len(list)]
          BY <1>1, <4>1
        <4>3. (i-1) - Len(list) = j - 1 /\ j \in 1..Len(block) /\ j # 1 /\ i # 1
          BY <1>1, <1>2, <2>3
        <4> QED
          BY <4>2, <4>3
      <3> HIDE DEF j
      <3> QED
        BY <1>4, <3>1 DEF ContiguousFrom
    <2>4. i <= Len(list) \/ i = Len(list) + 1 \/ i > Len(list) + 1
      BY <1>1, <1>2
    <2> QED
      BY <2>1, <2>2, <2>3, <2>4
  <1> QED
    BY <1>1, <1>2, <1>3, <1>4

\* A part of a list of rows.
LEMMA PartOf ==
    ASSUME NEW list \in Seq(Row), NEW m \in 1..(Len(list) + 1), NEW n \in 0..Len(list)
    PROVE  /\ SubSeq(list, m, n) \in Seq(Row)
           /\ Len(SubSeq(list, m, n)) = IF m <= n THEN n - m + 1 ELSE 0
           /\ m <= n => /\ SubSeq(list, m, n) # <<>>
                        /\ LastEnd(SubSeq(list, m, n)) = list[n].endMessage
           /\ m > n => SubSeq(list, m, n) = <<>>
  <1>0. Len(list) \in Nat
    BY LenProperties
  <1> DEFINE s == SubSeq(list, m, n)
  <1>1. /\ s \in Seq(Row) /\ Len(s) = IF m <= n THEN n - m + 1 ELSE 0
        /\ \A i \in 1..(n - m + 1) : s[i] = list[m + i - 1]
    BY <1>0, SubSeqProperties
  <1> HIDE DEF s
  <1>2. m > n => s = <<>>
    BY <1>0, <1>1, EmptySeq
  <1>3. ASSUME m <= n
        PROVE  s # <<>> /\ LastEnd(s) = list[n].endMessage
    <2>1. Len(s) = n - m + 1 /\ Len(s) \in 1..(n - m + 1) /\ m + Len(s) - 1 = n
      BY <1>0, <1>1, <1>3
    <2>2. s # <<>>
      BY <2>1, <1>0
    <2>3. s[Len(s)] = list[n]
      BY <1>1, <2>1
    <2> QED
      BY <2>2, <2>3 DEF LastEnd
  <1> QED
    BY <1>1, <1>2, <1>3 DEF s

\* A save over staging rows that are not more than the candidate's.
LEMMA SaveReplaces ==
    ASSUME NEW rows \in Seq(Row), NEW passed \in BOOLEAN, Save(rows, passed), staging \in Seq(Row),
           Len(staging) <= Len(rows)
    PROVE  staging' = rows /\ stagedPass' = passed
  <1> DEFINE rest == SubSeq(staging, Len(rows) + 1, Len(staging))
  <1>1. Len(rows) \in Nat /\ Len(staging) \in Nat
    BY LenProperties
  <1>2. rest = <<>>
    BY <1>1, SubSeqEmpty
  <1> HIDE DEF rest
  <1>3. staging' = rows \o rest /\ stagedPass' = (passed \/ (rest # <<>> /\ stagedPass))
    BY DEF Save, rest
  <1>4. stagedPass' = passed
    BY <1>2, <1>3
  <1>5. staging' = rows
    BY <1>2, <1>3, ConcatEmptySeq
  <1> QED
    BY <1>4, <1>5

\* The snapped range starts with a compartment, and with what comes after it
\* reaches the end of the compartments.
LEMMA SnappedIs ==
    ASSUME compartments \in Seq(Row), NEW start, NEW end, Snapped(start, end).hit # {}
    PROVE  LET s == Snapped(start, end) IN
           /\ s.range \in Ranges /\ s.range.start >= 1
           /\ s.prior \in Seq(Row) /\ s.tail \in Seq(Row)
           /\ LastEnd(compartments) = IF s.tail = <<>> THEN s.range.end ELSE LastEnd(s.tail)
  <1> DEFINE hit   == {i \in 1..Len(compartments) : Overlaps(compartments[i], start, end)}
             first == CHOOSE i \in hit : \A j \in hit : i <= j
             last  == CHOOSE i \in hit : \A j \in hit : j <= i
             s     == Snapped(start, end)
             n     == Len(compartments)
  <1>1. s.hit = hit
    BY DEF Snapped
  <1>2. hit # {}
    BY <1>1
  <1>3. /\ s.range = [start |-> compartments[first].startMessage, end |-> compartments[last].endMessage]
        /\ s.prior = SubSeq(compartments, 1, first - 1)
        /\ s.tail = SubSeq(compartments, last + 1, n)
    <2> HIDE DEF first, last
    <2> QED
      BY <1>2 DEF Snapped, first, last
  <1>4. n \in Nat /\ hit \in SUBSET (1..n)
    BY LenProperties
  <1>5. /\ \E i \in hit : \A j \in hit : i <= j
        /\ \E i \in hit : \A j \in hit : j <= i
    <2> HIDE DEF hit, n
    <2> QED
      BY <1>2, <1>4, FirstAndLast
  <1>6. first \in 1..n /\ last \in 1..n
    <2> HIDE DEF hit, n
    <2> QED
      BY <1>4, <1>5
  <1> HIDE DEF hit, first, last, s
  <1>7. compartments[first] \in Row /\ compartments[last] \in Row
    BY <1>4, <1>6, ElementOfSeq
  <1>8. s.range \in Ranges /\ s.range.start >= 1
    BY <1>3, <1>7, BoundAssumption DEF Row, Ranges
  <1>9. s.prior \in Seq(Row)
    <2>1. 1 \in 1..(n + 1) /\ first - 1 \in 0..n
      BY <1>4, <1>6
    <2> QED
      BY <1>3, <2>1, PartOf
  <1>10. last + 1 \in 1..(n + 1) /\ n \in 0..n
    BY <1>4, <1>6
  <1>11. s.tail \in Seq(Row)
    BY <1>3, <1>10, PartOf
  <1>12. LastEnd(compartments) = compartments[n].endMessage
    <2>1. compartments # <<>>
      BY <1>4, <1>6
    <2> QED
      BY <2>1 DEF LastEnd
  <1>13. LastEnd(compartments) = IF s.tail = <<>> THEN s.range.end ELSE LastEnd(s.tail)
    <2>1. CASE last + 1 <= n
      <3>1. s.tail # <<>> /\ LastEnd(s.tail) = compartments[n].endMessage
        BY <1>3, <1>10, <2>1, PartOf
      <3> QED
        BY <1>12, <3>1
    <2>2. CASE last + 1 > n
      <3>1. last = n
        BY <1>4, <1>6, <2>2
      <3>2. s.tail = <<>>
        BY <1>3, <1>10, <2>2, PartOf
      <3> QED
        BY <1>3, <1>12, <3>1, <3>2
    <2> QED
      BY <1>4, <1>6, <2>1, <2>2
  <1> QED
    BY <1>8, <1>9, <1>11, <1>13 DEF s

----------------------------------------------------------------------------
(* The inductive invariant *)

RunRecord == [pc : RunStates, kind : {"full", "partial"}, range : Ranges,
              prior : Seq(Row), tail : Seq(Row), candidate : Seq(Row),
              passed : BOOLEAN, resumed : BOOLEAN]

\* A recomp that is under way holds the lease, so there is one at most.
Alone == \A p \in Procs : run[p].pc # "idle" => IsHeldBy(lease, p)

\* What is staged is the candidate of the recomp that is under way, unless the
\* reminder has dropped it; a candidate that is to be promoted validates.
Staged(r, rows) ==
    /\ r.pc \in {"marking", "passing", "promoting"} => rows \in {<<>>, r.candidate}
    /\ r.pc = "seeding" => rows \in (IF r.resumed THEN {<<>>, r.candidate} ELSE {<<>>})
    /\ r.pc = "promoting" => validateStoredCompartments(r.candidate)

\* The range of a partial recomp and its tail reach the end of the
\* compartments, and so does the list that it promotes.
Reaches(r, list) ==
    /\ r.kind = "partial" /\ r.pc \in {"seeding", "marking", "passing"} =>
          LastEnd(list) = IF r.tail = <<>> THEN r.range.end ELSE LastEnd(r.tail)
    /\ r.kind = "partial" /\ r.pc = "promoting" => LastEnd(r.candidate) = LastEnd(list)
    /\ r.pc \in {"reading", "seeding", "marking", "passing"} => r.range.start >= 1

RecompInv ==
    /\ TypeOK /\ Alone /\ RecompContiguous
    /\ \A p \in Procs : Staged(run[p], staging) /\ Reaches(run[p], compartments)

LEMMA IdleRunType == IdleRun \in RunRecord /\ NoRange \in Ranges
  <1>1. <<>> \in Seq(Row) /\ 0 \in 0..MaxRaw
    BY BoundAssumption
  <1> QED
    BY <1>1 DEF IdleRun, RunRecord, RunStates, NoRange, Ranges

\* A recomp that has ended, or is about to, satisfies its part.
LEMMA QuietRun ==
    ASSUME NEW r, r.pc \in {"idle", "unmarking", "cleanup", "releasing"}, NEW rows, NEW list
    PROVE  Staged(r, rows) /\ Reaches(r, list)
  BY DEF Staged, Reaches

\* Nobody else is at work.
LEMMA OthersIdle ==
    ASSUME RecompInv, NEW p \in Procs, run[p].pc # "idle"
    PROVE  IsHeldBy(lease, p) /\ \A q \in Procs \ {p} : run[q].pc = "idle"
  BY DEF RecompInv, Alone, IsHeldBy

LEMMA FreeMeansIdle ==
    ASSUME RecompInv, \A p \in Procs : ~IsHeldBy(lease, p)
    PROVE  \A p \in Procs : run[p].pc = "idle"
  BY DEF RecompInv, Alone

LEMMA IsFreeToAll ==
    ASSUME IsFree(lease)
    PROVE  \A p \in Procs : ~IsHeldBy(lease, p)
  BY ProcsAssumption DEF IsFree, IsHeldBy

LEMMA SetRun ==
    ASSUME TypeOK, NEW p \in Procs, NEW r \in RunRecord, run' = [run EXCEPT ![p] = r]
    PROVE  /\ run' \in [Procs -> RunRecord] /\ run'[p] = r
           /\ \A q \in Procs \ {p} : run'[q] = run[q]
  BY DEF TypeOK, RunRecord

\* A step of the recomp that is under way.
LEMMA OwnStep ==
    ASSUME RecompInv, NEW p \in Procs, run[p].pc # "idle", NEW r \in RunRecord,
           run' = [run EXCEPT ![p] = r], lease' = lease,
           compartments' \in Seq(Row), RecompContiguous', staging' \in Seq(Row),
           stagedPass' \in BOOLEAN, range' \in Ranges,
           Staged(r, staging'), Reaches(r, compartments')
    PROVE  RecompInv'
  <1>1. /\ run' \in [Procs -> RunRecord] /\ run'[p] = r
        /\ \A q \in Procs \ {p} : run'[q] = run[q]
    BY SetRun DEF RecompInv
  <1>2. IsHeldBy(lease, p) /\ \A q \in Procs \ {p} : run[q].pc = "idle"
    BY OthersIdle
  <1>3. Alone'
    <2>1. \A q \in Procs \ {p} : run'[q].pc = "idle"
      BY <1>1, <1>2
    <2>2. IsHeldBy(lease', p)
      BY <1>2
    <2> QED
      BY <2>1, <2>2 DEF Alone
  <1>4. TypeOK'
    <2>1. lease' \in [holder : Procs \cup {Nobody, Orphan}, ttl : 0..LeaseTTL]
      BY DEF RecompInv, TypeOK
    <2> QED
      BY <1>1, <2>1 DEF TypeOK, RunRecord
  <1>5. ASSUME NEW q \in Procs
        PROVE  Staged(run'[q], staging') /\ Reaches(run'[q], compartments')
    <2>1. CASE q = p
      BY <1>1, <2>1
    <2>2. CASE q # p
      BY <1>1, <1>2, <2>2, QuietRun
    <2> QED
      BY <2>1, <2>2
  <1> QED
    BY <1>3, <1>4, <1>5 DEF RecompInv

\* A step after which no recomp is under way.
LEMMA AllIdleStep ==
    ASSUME run' \in [Procs -> RunRecord], \A p \in Procs : run'[p].pc = "idle",
           lease' \in [holder : Procs \cup {Nobody, Orphan}, ttl : 0..LeaseTTL],
           compartments' \in Seq(Row), RecompContiguous', staging' \in Seq(Row),
           stagedPass' \in BOOLEAN, range' \in Ranges
    PROVE  RecompInv'
  <1>1. TypeOK'
    BY DEF TypeOK, RunRecord
  <1>2. Alone'
    BY DEF Alone
  <1>3. \A p \in Procs : Staged(run'[p], staging') /\ Reaches(run'[p], compartments')
    BY QuietRun
  <1> QED
    BY <1>1, <1>2, <1>3 DEF RecompInv

\* Going to another control point.
LEMMA MovedRun ==
    ASSUME TypeOK, NEW p \in Procs, NEW pc \in RunStates, MoveRun(p, pc)
    PROVE  \E r \in RunRecord :
              /\ run' = [run EXCEPT ![p] = r] /\ r.pc = pc
              /\ r.kind = run[p].kind /\ r.range = run[p].range /\ r.prior = run[p].prior
              /\ r.tail = run[p].tail /\ r.candidate = run[p].candidate
              /\ r.passed = run[p].passed /\ r.resumed = run[p].resumed
  <1> DEFINE r == [run[p] EXCEPT !.pc = pc]
  <1>1. run \in [Procs -> RunRecord] /\ run[p] \in RunRecord
    BY DEF TypeOK, RunRecord
  <1>2. /\ r \in RunRecord /\ r.pc = pc
        /\ r.kind = run[p].kind /\ r.range = run[p].range /\ r.prior = run[p].prior
        /\ r.tail = run[p].tail /\ r.candidate = run[p].candidate
        /\ r.passed = run[p].passed /\ r.resumed = run[p].resumed
    BY <1>1 DEF RunRecord
  <1>3. run' = [run EXCEPT ![p] = r]
    BY <1>1 DEF MoveRun
  <1> HIDE DEF r
  <1> QED
    BY <1>2, <1>3

\* A recomp that gives up or ends, with whatever staging it leaves.
LEMMA EndStep ==
    ASSUME RecompInv, NEW p \in Procs, run[p].pc # "idle",
           NEW pc \in {"unmarking", "cleanup", "releasing"}, MoveRun(p, pc), lease' = lease,
           compartments' \in Seq(Row), RecompContiguous', staging' \in Seq(Row),
           stagedPass' \in BOOLEAN, range' \in Ranges
    PROVE  RecompInv'
  <1>1. pc \in RunStates /\ TypeOK
    BY DEF RunStates, RecompInv
  <1>2. PICK r \in RunRecord : run' = [run EXCEPT ![p] = r] /\ r.pc = pc
    BY <1>1, MovedRun
  <1>3. r.pc \in {"idle", "unmarking", "cleanup", "releasing"}
    BY <1>2
  <1>4. Staged(r, staging') /\ Reaches(r, compartments')
    BY <1>3, QuietRun
  <1> QED
    BY <1>2, <1>4, OwnStep

LEMMA InitRecomp == Init => RecompInv
  <1> SUFFICES ASSUME Init PROVE RecompInv
    OBVIOUS
  <1>1. PICK ends \in EndLists(1, MaxRaw) : compartments = Built(1, ends, "incremental")
    BY DEF Init
  <1>2. 1 \in 1..MaxRaw /\ MaxRaw \in 0..MaxRaw
    BY BoundAssumption
  <1>3. compartments \in Seq(Row) /\ validateStoredCompartments(compartments)
    BY <1>1, <1>2, BuiltIs DEF validateStoredCompartments
  <1>4. lease \in [holder : Procs \cup {Nobody, Orphan}, ttl : 0..LeaseTTL]
    BY BoundAssumption DEF Init, NoRow
  <1>5. /\ staging = <<>> /\ stagedPass = FALSE /\ range = NoRange
        /\ run = [p \in Procs |-> IdleRun]
    BY DEF Init
  <1>6. run \in [Procs -> RunRecord] /\ \A p \in Procs : run[p].pc = "idle"
    BY <1>5, IdleRunType DEF IdleRun
  <1>7. TypeOK
    <2>1. staging \in Seq(Row) /\ range \in Ranges
      BY <1>5, IdleRunType
    <2>2. stagedPass \in BOOLEAN
      BY <1>5
    <2> QED
      BY <1>3, <1>4, <1>6, <2>1, <2>2 DEF TypeOK, RunRecord
  <1>8. \A p \in Procs : Staged(run[p], staging) /\ Reaches(run[p], compartments)
    BY <1>6, QuietRun
  <1> QED
    BY <1>3, <1>6, <1>7, <1>8 DEF RecompInv, Alone, RecompContiguous

----------------------------------------------------------------------------
(* Steps *)

\* What holds of a recomp that is under way.
LEMMA UnderWay ==
    ASSUME RecompInv, NEW p \in Procs
    PROVE  /\ TypeOK /\ run \in [Procs -> RunRecord] /\ run[p] \in RunRecord
           /\ compartments \in Seq(Row) /\ validateStoredCompartments(compartments)
           /\ staging \in Seq(Row) /\ stagedPass \in BOOLEAN /\ range \in Ranges
           /\ run[p].candidate \in Seq(Row) /\ run[p].prior \in Seq(Row) /\ run[p].tail \in Seq(Row)
           /\ run[p].range \in Ranges /\ run[p].passed \in BOOLEAN
           /\ Staged(run[p], staging) /\ Reaches(run[p], compartments)
  <1>1. /\ TypeOK /\ run \in [Procs -> RunRecord]
        /\ compartments \in Seq(Row) /\ staging \in Seq(Row) /\ stagedPass \in BOOLEAN /\ range \in Ranges
    BY DEF RecompInv, TypeOK, RunRecord
  <1>2. run[p] \in RunRecord
    BY <1>1
  <1>3. /\ run[p].candidate \in Seq(Row) /\ run[p].prior \in Seq(Row) /\ run[p].tail \in Seq(Row)
        /\ run[p].range \in Ranges /\ run[p].passed \in BOOLEAN
    BY <1>2 DEF RunRecord
  <1> QED
    BY <1>1, <1>2, <1>3 DEF RecompInv, RecompContiguous

\* Saving a candidate that begins with what is staged.
LEMMA SaveCandidate ==
    ASSUME staging \in Seq(Row), NEW old \in Seq(Row), NEW more \in Seq(Row), staging \in {<<>>, old},
           NEW passed \in BOOLEAN, Save(old \o more, passed)
    PROVE  staging' = old \o more /\ old \o more \in Seq(Row) /\ stagedPass' = passed
  <1>1. /\ old \o more \in Seq(Row) /\ Len(old \o more) = Len(old) + Len(more)
        /\ Len(old) \in Nat /\ Len(more) \in Nat
    BY Joined
  <1>2. Len(staging) <= Len(old \o more)
    <2>1. Len(staging) \in {0, Len(old)}
      BY EmptySeq
    <2> QED
      BY <1>1, <2>1
  <1> QED
    BY <1>1, <1>2, SaveReplaces

LEMMA SaveSame ==
    ASSUME staging \in Seq(Row), NEW old \in Seq(Row), staging \in {<<>>, old},
           NEW passed \in BOOLEAN, Save(old, passed)
    PROVE  staging' = old /\ stagedPass' = passed
  <1>1. <<>> \in Seq(Row) /\ old \o <<>> = old
    BY ConcatEmptySeq
  <1>2. Save(old \o <<>>, passed)
    BY <1>1
  <1> QED
    BY <1>1, <1>2, SaveCandidate

LEMMA FullReadsKeeps ==
    ASSUME RecompInv, NEW p \in Procs, FullReads(p)
    PROVE  RecompInv'
  <1>0. UNCHANGED <<compartments, staging, stagedPass, range, lease>> /\ run[p].pc = "reading" /\ run[p].kind = "full"
    BY DEF FullReads
  <1>1. /\ TypeOK /\ run \in [Procs -> RunRecord] /\ run[p] \in RunRecord
        /\ compartments \in Seq(Row) /\ validateStoredCompartments(compartments)
        /\ staging \in Seq(Row) /\ stagedPass \in BOOLEAN /\ range \in Ranges
        /\ Staged(run[p], staging) /\ Reaches(run[p], compartments)
    BY UnderWay
  <1> DEFINE r1 == [run[p] EXCEPT !.pc = "passing"]
             r2 == [r1 EXCEPT !.candidate = staging]
             r3 == [r2 EXCEPT !.passed = stagedPass]
  <1>2. run' = [run EXCEPT ![p] = r3]
    BY DEF FullReads
  <1>3. r1 \in RunRecord /\ r1.pc = "passing" /\ r1.kind = "full" /\ r1.range = run[p].range
    BY <1>0, <1>1 DEF RunRecord, RunStates
  <1> HIDE DEF r1
  <1>4. /\ r2 \in RunRecord /\ r2.pc = "passing" /\ r2.kind = "full" /\ r2.range = run[p].range
        /\ r2.candidate = staging
    BY <1>1, <1>3 DEF RunRecord
  <1> HIDE DEF r2
  <1>5. /\ r3 \in RunRecord /\ r3.pc = "passing" /\ r3.kind = "full" /\ r3.range = run[p].range
        /\ r3.candidate = staging
    BY <1>1, <1>4 DEF RunRecord
  <1> HIDE DEF r3
  <1>6. Staged(r3, staging') /\ Reaches(r3, compartments')
    BY <1>0, <1>1, <1>5 DEF Staged, Reaches
  <1>7. RecompContiguous' /\ run[p].pc # "idle"
    BY <1>0, <1>1 DEF RecompContiguous
  <1> QED
    BY <1>0, <1>1, <1>2, <1>5, <1>6, <1>7, OwnStep

LEMMA PartialReadsKeeps ==
    ASSUME RecompInv, NEW p \in Procs, PartialReads(p)
    PROVE  RecompInv'
  <1> DEFINE s == Snapped(run[p].range.start, run[p].range.end)
             r == [pc |-> "seeding", kind |-> "partial", range |-> s.range, prior |-> s.prior,
                   tail |-> s.tail, candidate |-> IF staging # <<>> THEN staging ELSE s.prior,
                   passed |-> stagedPass, resumed |-> (staging # <<>>)]
  <1>0. /\ UNCHANGED <<compartments, staging, stagedPass, range, lease>> /\ run[p].pc = "reading"
        /\ s.hit # {} /\ run' = [run EXCEPT ![p] = r]
    BY DEF PartialReads
  <1>1. /\ TypeOK
        /\ compartments \in Seq(Row) /\ validateStoredCompartments(compartments)
        /\ staging \in Seq(Row) /\ stagedPass \in BOOLEAN /\ range \in Ranges
    BY UnderWay
  <1>2. /\ s.range \in Ranges /\ s.range.start >= 1 /\ s.prior \in Seq(Row) /\ s.tail \in Seq(Row)
        /\ LastEnd(compartments) = IF s.tail = <<>> THEN s.range.end ELSE LastEnd(s.tail)
    BY <1>0, <1>1, SnappedIs
  <1> HIDE DEF s
  <1>3. r \in RunRecord
    <2>1. (IF staging # <<>> THEN staging ELSE s.prior) \in Seq(Row)
      BY <1>1, <1>2
    <2>2. (staging # <<>>) \in BOOLEAN
      OBVIOUS
    <2>3. "seeding" \in RunStates
      BY DEF RunStates
    <2> QED
      BY <1>1, <1>2, <2>1, <2>2, <2>3 DEF RunRecord
  <1>4. /\ r.pc = "seeding" /\ r.range = s.range /\ r.tail = s.tail
        /\ staging # <<>> => r.candidate = staging
    OBVIOUS
  <1>5. r.resumed <=> staging # <<>>
    OBVIOUS
  <1> HIDE DEF r
  <1>6. Staged(r, staging')
    <2>1. CASE staging = <<>>
      BY <1>0, <1>4, <2>1 DEF Staged
    <2>2. CASE staging # <<>>
      BY <1>0, <1>4, <1>5, <2>2 DEF Staged
    <2> QED
      BY <2>1, <2>2
  <1>7. Reaches(r, compartments')
    BY <1>0, <1>2, <1>4 DEF Reaches
  <1>8. RecompContiguous' /\ run[p].pc # "idle"
    BY <1>0, <1>1 DEF RecompContiguous
  <1> QED
    BY <1>0, <1>1, <1>3, <1>6, <1>7, <1>8, OwnStep

LEMMA PartialSeedsKeeps ==
    ASSUME RecompInv, NEW p \in Procs, PartialSeeds(p)
    PROVE  RecompInv'
  <1>0. UNCHANGED <<compartments, range, lease>> /\ run[p].pc = "seeding"
    BY DEF PartialSeeds
  <1>1. /\ TypeOK
        /\ compartments \in Seq(Row) /\ validateStoredCompartments(compartments)
        /\ staging \in Seq(Row) /\ stagedPass \in BOOLEAN /\ range \in Ranges
        /\ run[p].candidate \in Seq(Row)
        /\ Staged(run[p], staging) /\ Reaches(run[p], compartments)
    BY UnderWay
  <1>2. RecompContiguous' /\ run[p].pc # "idle"
    BY <1>0, <1>1 DEF RecompContiguous
  <1>3. CASE run[p].resumed
    <2>1. MoveRun(p, "passing") /\ UNCHANGED <<staging, stagedPass>>
      BY <1>3 DEF PartialSeeds
    <2>2. PICK r \in RunRecord :
             /\ run' = [run EXCEPT ![p] = r] /\ r.pc = "passing" /\ r.candidate = run[p].candidate
             /\ r.range = run[p].range /\ r.tail = run[p].tail /\ r.kind = run[p].kind
      BY <1>1, <2>1, MovedRun DEF RunStates
    <2>3. Staged(r, staging') /\ Reaches(r, compartments')
      BY <1>0, <1>1, <1>3, <2>1, <2>2 DEF Staged, Reaches
    <2> QED
      BY <1>0, <1>1, <1>2, <2>1, <2>2, <2>3, OwnStep
  <1>4. CASE ~run[p].resumed
    <2>1. MoveRun(p, "marking") /\ Save(run[p].candidate, FALSE)
      BY <1>4 DEF PartialSeeds
    <2>2. staging = <<>>
      BY <1>0, <1>1, <1>4 DEF Staged
    <2>3. staging' = run[p].candidate /\ stagedPass' = FALSE
      BY <1>1, <2>1, <2>2, SaveSame
    <2>4. PICK r \in RunRecord :
             /\ run' = [run EXCEPT ![p] = r] /\ r.pc = "marking" /\ r.candidate = run[p].candidate
             /\ r.range = run[p].range /\ r.tail = run[p].tail /\ r.kind = run[p].kind
      BY <1>1, <2>1, MovedRun DEF RunStates
    <2>5. Staged(r, staging') /\ Reaches(r, compartments')
      BY <1>0, <1>1, <2>3, <2>4 DEF Staged, Reaches
    <2>6. stagedPass' \in BOOLEAN
      BY <2>3
    <2>7. compartments' \in Seq(Row) /\ staging' \in Seq(Row) /\ range' \in Ranges
      BY <1>0, <1>1, <2>3
    <2> QED
      BY <1>0, <1>2, <2>4, <2>5, <2>6, <2>7, OwnStep
  <1> QED
    BY <1>3, <1>4

LEMMA PartialMarksRangeKeeps ==
    ASSUME RecompInv, NEW p \in Procs, PartialMarksRange(p)
    PROVE  RecompInv'
  <1>0. /\ UNCHANGED <<compartments, staging, stagedPass, lease>> /\ run[p].pc = "marking"
        /\ range' = run[p].range /\ MoveRun(p, "passing")
    BY DEF PartialMarksRange
  <1>1. /\ TypeOK
        /\ compartments \in Seq(Row) /\ validateStoredCompartments(compartments)
        /\ staging \in Seq(Row) /\ stagedPass \in BOOLEAN /\ run[p].range \in Ranges
        /\ Staged(run[p], staging) /\ Reaches(run[p], compartments)
    BY UnderWay
  <1>2. RecompContiguous' /\ run[p].pc # "idle"
    BY <1>0, <1>1 DEF RecompContiguous
  <1>3. PICK r \in RunRecord :
           /\ run' = [run EXCEPT ![p] = r] /\ r.pc = "passing" /\ r.candidate = run[p].candidate
           /\ r.range = run[p].range /\ r.tail = run[p].tail /\ r.kind = run[p].kind
    BY <1>0, <1>1, MovedRun DEF RunStates
  <1>4. Staged(r, staging') /\ Reaches(r, compartments')
    BY <1>0, <1>1, <1>3 DEF Staged, Reaches
  <1> QED
    BY <1>0, <1>1, <1>2, <1>3, <1>4, OwnStep

LEMMA PassKeeps ==
    ASSUME RecompInv, NEW p \in Procs, Pass(p)
    PROVE  RecompInv'
  <1>0. UNCHANGED <<compartments, range, lease>> /\ run[p].pc = "passing" /\ Offset(run[p]) <= run[p].range.end
    BY DEF Pass
  <1>1. /\ TypeOK /\ run \in [Procs -> RunRecord] /\ run[p] \in RunRecord
        /\ compartments \in Seq(Row) /\ validateStoredCompartments(compartments)
        /\ staging \in Seq(Row) /\ range \in Ranges /\ run[p].range \in Ranges
        /\ run[p].candidate \in Seq(Row)
        /\ Staged(run[p], staging) /\ Reaches(run[p], compartments)
    BY UnderWay
  <1>2. RecompContiguous' /\ run[p].pc # "idle"
    BY <1>0, <1>1 DEF RecompContiguous
  <1> DEFINE f == Offset(run[p])
  <1>3. PICK ends \in EndLists(f, run[p].range.end) :
           LET candidate == run[p].candidate \o Built(f, ends, run[p].kind) IN
           /\ run' = [run EXCEPT ![p].candidate = candidate, ![p].passed = TRUE]
           /\ Save(candidate, TRUE)
    BY DEF Pass
  <1>4. f \in 1..MaxRaw /\ run[p].range.end \in 0..MaxRaw
    <2>1. run[p].range.start >= 1 /\ run[p].range.start \in 0..MaxRaw /\ run[p].range.end \in 0..MaxRaw
      BY <1>0, <1>1 DEF Reaches, Ranges
    <2>2. LastEnd(run[p].candidate) \in 0..MaxRaw
      BY <1>1, LastEndIs
    <2> QED
      BY <1>0, <2>1, <2>2, BoundAssumption DEF Offset
  <1> HIDE DEF f
  <1> DEFINE block == Built(f, ends, run[p].kind)
             c     == run[p].candidate \o block
             r1    == [run[p] EXCEPT !.candidate = c]
             r2    == [r1 EXCEPT !.passed = TRUE]
  <1>5. block \in Seq(Row)
    <2>1. run[p].kind \in {"incremental", "full", "partial"}
      BY <1>1 DEF RunRecord
    <2> QED
      BY <1>4, <2>1, BuiltIs
  <1>6. run' = [run EXCEPT ![p] = r2] /\ Save(c, TRUE)
    BY <1>1, <1>3
  <1> HIDE DEF block
  <1>7. staging \in {<<>>, run[p].candidate}
    BY <1>0, <1>1 DEF Staged
  <1>8. staging' = c /\ c \in Seq(Row) /\ stagedPass' = TRUE
    BY <1>1, <1>5, <1>6, <1>7, SaveCandidate
  <1> HIDE DEF c
  <1>9. /\ r1 \in RunRecord /\ r1.pc = "passing" /\ r1.candidate = c /\ r1.kind = run[p].kind
        /\ r1.range = run[p].range /\ r1.tail = run[p].tail
    BY <1>0, <1>1, <1>8 DEF RunRecord
  <1> HIDE DEF r1
  <1>10. /\ r2 \in RunRecord /\ r2.pc = "passing" /\ r2.candidate = c /\ r2.kind = run[p].kind
         /\ r2.range = run[p].range /\ r2.tail = run[p].tail
    BY <1>9 DEF RunRecord
  <1> HIDE DEF r2
  <1>11. Staged(r2, staging') /\ Reaches(r2, compartments')
    BY <1>0, <1>1, <1>8, <1>10 DEF Staged, Reaches
  <1>12. stagedPass' \in BOOLEAN
    BY <1>8
  <1>13. compartments' \in Seq(Row) /\ staging' \in Seq(Row) /\ range' \in Ranges
    BY <1>0, <1>1, <1>8
  <1> QED
    BY <1>0, <1>2, <1>6, <1>10, <1>11, <1>12, <1>13, OwnStep

\* A full recomp stages a candidate that validates and goes on to promote it.
LEMMA FullGoesToPromote ==
    ASSUME RecompInv, NEW p \in Procs, run[p].pc = "passing", run[p].kind = "full",
           validateStoredCompartments(run[p].candidate), NEW passed \in BOOLEAN,
           Save(run[p].candidate, passed), MoveRun(p, "promoting"),
           UNCHANGED <<compartments, range, lease>>
    PROVE  RecompInv'
  <1>1. /\ TypeOK
        /\ compartments \in Seq(Row) /\ validateStoredCompartments(compartments)
        /\ staging \in Seq(Row) /\ range \in Ranges
        /\ run[p].candidate \in Seq(Row)
        /\ Staged(run[p], staging) /\ Reaches(run[p], compartments)
    BY UnderWay
  <1>2. RecompContiguous' /\ run[p].pc # "idle"
    BY <1>1 DEF RecompContiguous
  <1>3. staging \in {<<>>, run[p].candidate}
    BY <1>1 DEF Staged
  <1>4. staging' = run[p].candidate /\ stagedPass' = passed
    BY <1>1, <1>3, SaveSame
  <1>5. PICK r \in RunRecord :
           /\ run' = [run EXCEPT ![p] = r] /\ r.pc = "promoting" /\ r.candidate = run[p].candidate
           /\ r.kind = run[p].kind
    BY <1>1, MovedRun DEF RunStates
  <1>6. Staged(r, staging') /\ Reaches(r, compartments')
    BY <1>1, <1>4, <1>5 DEF Staged, Reaches
  <1>7. stagedPass' \in BOOLEAN
    BY <1>4
  <1>8. compartments' \in Seq(Row) /\ staging' \in Seq(Row) /\ range' \in Ranges
    BY <1>1, <1>4
  <1> QED
    BY <1>2, <1>5, <1>6, <1>7, <1>8, OwnStep

LEMMA FinishPartialKeeps ==
    ASSUME RecompInv, NEW p \in Procs, FinishPartial(p)
    PROVE  RecompInv'
  <1>0. /\ UNCHANGED <<compartments, range, lease>> /\ run[p].pc = "passing"
        /\ run[p].kind = "partial"
    BY DEF FinishPartial
  <1>1. /\ TypeOK /\ run \in [Procs -> RunRecord] /\ run[p] \in RunRecord
        /\ compartments \in Seq(Row) /\ validateStoredCompartments(compartments)
        /\ staging \in Seq(Row) /\ stagedPass \in BOOLEAN /\ range \in Ranges
        /\ run[p].candidate \in Seq(Row) /\ run[p].prior \in Seq(Row) /\ run[p].tail \in Seq(Row)
        /\ Staged(run[p], staging) /\ Reaches(run[p], compartments)
    BY UnderWay
  <1>2. RecompContiguous' /\ run[p].pc # "idle"
    BY <1>0, <1>1 DEF RecompContiguous
  <1> DEFINE newBuilt == SubSeq(run[p].candidate, Len(run[p].prior) + 1, Len(run[p].candidate))
             merged   == run[p].candidate \o run[p].tail
  <1>3. CASE MoveRun(p, "cleanup") /\ UNCHANGED <<staging, stagedPass>>
    <2>1. compartments' \in Seq(Row) /\ staging' \in Seq(Row) /\ range' \in Ranges
      BY <1>0, <1>1, <1>3
    <2>2. stagedPass' \in BOOLEAN
      BY <1>1, <1>3
    <2> QED
      BY <1>0, <1>2, <1>3, <2>1, <2>2, EndStep
  <1>4. CASE /\ newBuilt # <<>> /\ LastEnd(newBuilt) = run[p].range.end
             /\ validateStoredCompartments(merged) /\ Save(merged, TRUE)
             /\ run' = [run EXCEPT ![p].pc = "promoting", ![p].candidate = merged]
    <2> DEFINE r1 == [run[p] EXCEPT !.pc = "promoting"]
               r2 == [r1 EXCEPT !.candidate = merged]
    <2>1. run' = [run EXCEPT ![p] = r2]
      BY <1>1, <1>4
    <2>2. staging \in {<<>>, run[p].candidate}
      BY <1>0, <1>1 DEF Staged
    <2>3. staging' = merged /\ merged \in Seq(Row) /\ stagedPass' = TRUE
      BY <1>1, <1>4, <2>2, SaveCandidate
    <2>4. LastEnd(newBuilt) = LastEnd(run[p].candidate)
      <3> DEFINE n == Len(run[p].candidate)
                 m == Len(run[p].prior) + 1
      <3>1. n \in Nat /\ m \in Nat /\ m >= 1
        BY <1>1, LenProperties
      <3>2. m <= n
        <4> HIDE DEF n, m
        <4>1. ASSUME n < m
              PROVE  FALSE
          <5>1. SubSeq(run[p].candidate, m, n) = <<>>
            BY <3>1, <4>1, SubSeqEmpty
          <5> QED
            BY <1>4, <5>1 DEF n, m
        <4> QED
          BY <3>1, <4>1
      <3>3. m \in 1..(n + 1) /\ n \in 0..n
        BY <3>1, <3>2
      <3>4. LastEnd(newBuilt) = run[p].candidate[n].endMessage
        BY <1>1, <3>2, <3>3, PartOf
      <3>5. run[p].candidate # <<>>
        BY <3>1, <3>2
      <3> QED
        BY <3>4, <3>5 DEF LastEnd
    <2>5. LastEnd(merged) = IF run[p].tail = <<>> THEN LastEnd(run[p].candidate) ELSE LastEnd(run[p].tail)
      BY <1>1, Joined
    <2>6. LastEnd(merged) = LastEnd(compartments)
      <3>1. LastEnd(compartments) = IF run[p].tail = <<>> THEN run[p].range.end ELSE LastEnd(run[p].tail)
        BY <1>0, <1>1 DEF Reaches
      <3> HIDE DEF newBuilt, merged
      <3> QED
        BY <1>4, <2>4, <2>5, <3>1
    <2> HIDE DEF merged, newBuilt
    <2>7. r1 \in RunRecord /\ r1.pc = "promoting"
      BY <1>1 DEF RunRecord, RunStates
    <2> HIDE DEF r1
    <2>8. r2 \in RunRecord /\ r2.pc = "promoting" /\ r2.candidate = merged
      BY <2>3, <2>7 DEF RunRecord
    <2> HIDE DEF r2
    <2>9. Staged(r2, staging') /\ Reaches(r2, compartments')
      BY <1>0, <1>4, <2>3, <2>6, <2>8 DEF Staged, Reaches
    <2>10. stagedPass' \in BOOLEAN
      BY <2>3
    <2>11. compartments' \in Seq(Row) /\ staging' \in Seq(Row) /\ range' \in Ranges
      BY <1>0, <1>1, <2>3
    <2> QED
      BY <1>0, <1>2, <2>1, <2>8, <2>9, <2>10, <2>11, OwnStep
  <1> HIDE DEF newBuilt, merged
  <1> QED
    BY <1>3, <1>4 DEF FinishPartial, newBuilt, merged

\* Every step that stays within a recomp.
LEMMA RunStepKeeps ==
    ASSUME RecompInv, NEW p \in Procs, run[p].pc # "idle",
           \/ FullReads(p) \/ PartialReads(p) \/ PartialRefused(p) \/ PartialSeeds(p)
           \/ PartialMarksRange(p) \/ Pass(p) \/ PassFails(p) \/ RunThrows(p) \/ FinishFull(p)
           \/ FinishPartial(p) \/ Promote(p) \/ PromoteRefused(p) \/ PartialUnmarksRange(p) \/ Cleanup(p)
    PROVE  RecompInv'
  <1>1. /\ TypeOK
        /\ compartments \in Seq(Row) /\ validateStoredCompartments(compartments)
        /\ staging \in Seq(Row) /\ stagedPass \in BOOLEAN /\ range \in Ranges
        /\ run[p].candidate \in Seq(Row) /\ run[p].passed \in BOOLEAN
        /\ Staged(run[p], staging) /\ Reaches(run[p], compartments)
    BY UnderWay
  <1>2. <<>> \in Seq(Row) /\ NoRange \in Ranges
    BY IdleRunType
  <1>3. Over(p) \in {"unmarking", "cleanup", "releasing"}
    BY DEF Over
  <1>4. ASSUME NEW pc \in {"unmarking", "cleanup", "releasing"}, MoveRun(p, pc),
               UNCHANGED <<compartments, lease>>, staging' \in {staging, <<>>},
               stagedPass' = stagedPass \/ stagedPass' = FALSE, range' \in {range, NoRange}
        PROVE  RecompInv'
    <2>1. RecompContiguous' /\ compartments' \in Seq(Row) /\ staging' \in Seq(Row) /\ range' \in Ranges
      BY <1>1, <1>2, <1>4 DEF RecompContiguous
    <2>2. stagedPass' \in BOOLEAN
      BY <1>1, <1>4
    <2> QED
      BY <1>4, <2>1, <2>2, EndStep
  <1>5. CASE PartialRefused(p) \/ RunThrows(p) \/ PromoteRefused(p)
    <2>1. \E pc \in {"unmarking", "cleanup", "releasing"} : MoveRun(p, pc)
      BY <1>3, <1>5 DEF PartialRefused, RunThrows, PromoteRefused
    <2>2. UNCHANGED <<compartments, staging, stagedPass, range, lease>>
      BY <1>5 DEF PartialRefused, RunThrows, PromoteRefused
    <2> QED
      BY <1>4, <2>1, <2>2
  <1>6. CASE PartialUnmarksRange(p)
    <2>1. MoveRun(p, "cleanup") /\ range' = NoRange /\ UNCHANGED <<compartments, staging, stagedPass, lease>>
      BY <1>6 DEF PartialUnmarksRange
    <2> QED
      BY <1>4, <2>1
  <1>7. CASE Cleanup(p)
    <2>1. /\ MoveRun(p, "releasing") /\ UNCHANGED <<compartments, lease>>
          /\ ClearStaging \/ UNCHANGED <<staging, stagedPass, range>>
      BY <1>7 DEF Cleanup
    <2> QED
      BY <1>4, <2>1 DEF ClearStaging
  <1>8. CASE PassFails(p)
    <2>1. run[p].pc = "passing" /\ UNCHANGED <<compartments, range, lease>>
      BY <1>8 DEF PassFails
    <2>2. CASE /\ run[p].kind = "full" /\ validateStoredCompartments(run[p].candidate)
               /\ Save(run[p].candidate, TRUE) /\ MoveRun(p, "promoting")
      BY <2>1, <2>2, FullGoesToPromote
    <2>3. CASE MoveRun(p, Over(p)) /\ UNCHANGED <<staging, stagedPass>>
      BY <1>3, <1>4, <2>1, <2>3
    <2> QED
      BY <1>8, <2>2, <2>3 DEF PassFails
  <1>9. CASE FinishFull(p)
    <2>1. run[p].pc = "passing" /\ run[p].kind = "full" /\ UNCHANGED <<compartments, lease>>
      BY <1>9 DEF FinishFull
    <2>2. CASE /\ validateStoredCompartments(run[p].candidate) /\ UNCHANGED range
               /\ Save(run[p].candidate, run[p].passed) /\ MoveRun(p, "promoting")
      BY <1>1, <2>1, <2>2, FullGoesToPromote
    <2>3. CASE ClearStaging /\ MoveRun(p, "releasing")
      BY <1>4, <2>1, <2>3 DEF ClearStaging
    <2> QED
      BY <1>9, <2>2, <2>3 DEF FinishFull
  <1>10. CASE Promote(p)
    <2>1. /\ run[p].pc = "promoting" /\ staging # <<>> /\ compartments' = staging
          /\ staging' = <<>> /\ stagedPass' = FALSE /\ UNCHANGED <<range, lease>>
      BY <1>10 DEF Promote
    <2>2. \E pc \in {"unmarking", "cleanup", "releasing"} : MoveRun(p, pc)
      BY <1>10 DEF Promote
    <2>3. compartments' = run[p].candidate /\ validateStoredCompartments(run[p].candidate)
      BY <1>1, <2>1 DEF Staged
    <2>4. RecompContiguous' /\ compartments' \in Seq(Row) /\ staging' \in Seq(Row) /\ range' \in Ranges
      BY <1>1, <1>2, <2>1, <2>3 DEF RecompContiguous
    <2>5. stagedPass' \in BOOLEAN
      BY <2>1
    <2> QED
      BY <2>1, <2>2, <2>4, <2>5, EndStep
  <1> QED
    BY <1>5, <1>6, <1>7, <1>8, <1>9, <1>10, FullReadsKeeps, PartialReadsKeeps, PartialSeedsKeeps,
       PartialMarksRangeKeeps, PassKeeps, FinishPartialKeeps

\* A recomp begins when the lease is free, hence when nobody is at work.
LEMMA StartStep ==
    ASSUME RecompInv, NEW p \in Procs, IsFree(lease), lease' = Acquired(p, LeaseTTL),
           NEW r \in RunRecord, run' = [run EXCEPT ![p] = r], r.pc = "reading", r.range.start >= 1,
           UNCHANGED <<compartments, staging, stagedPass, range>>
    PROVE  RecompInv'
  <1>1. /\ run' \in [Procs -> RunRecord] /\ run'[p] = r
        /\ \A q \in Procs \ {p} : run'[q] = run[q]
    BY SetRun DEF RecompInv
  <1>2. \A q \in Procs : run[q].pc = "idle"
    BY FreeMeansIdle, IsFreeToAll
  <1>3. IsHeldBy(lease', p) /\ lease' \in [holder : Procs \cup {Nobody, Orphan}, ttl : 0..LeaseTTL]
    BY BoundAssumption DEF Acquired, IsHeldBy
  <1>4. Alone'
    <2>1. \A q \in Procs \ {p} : run'[q].pc = "idle"
      BY <1>1, <1>2
    <2> QED
      BY <1>3, <2>1 DEF Alone
  <1>5. TypeOK' /\ RecompContiguous'
    BY <1>1, <1>3 DEF RecompInv, TypeOK, RunRecord, RecompContiguous
  <1>6. Staged(r, staging') /\ Reaches(r, compartments')
    BY DEF Staged, Reaches
  <1>7. ASSUME NEW q \in Procs
        PROVE  Staged(run'[q], staging') /\ Reaches(run'[q], compartments')
    <2>1. CASE q = p
      BY <1>1, <1>6, <2>1
    <2>2. CASE q # p
      BY <1>1, <1>2, <2>2, QuietRun
    <2> QED
      BY <2>1, <2>2
  <1> QED
    BY <1>4, <1>5, <1>7 DEF RecompInv

LEMMA StartKeeps ==
    ASSUME RecompInv, NEW p \in Procs, StartFull(p) \/ StartPartial(p)
    PROVE  RecompInv'
  <1>1. /\ IsFree(lease) /\ lease' = Acquired(p, LeaseTTL)
        /\ UNCHANGED <<compartments, staging, stagedPass, range>>
    BY DEF StartFull, StartPartial
  <1>2. MaxRaw \in Nat \ {0}
    BY BoundAssumption
  <1>3. CASE StartFull(p)
    <2>1. PICK last \in 0..MaxRaw :
             run' = [run EXCEPT ![p] = [IdleRun EXCEPT !.pc = "reading", !.range = [start |-> 1, end |-> last]]]
      BY <1>3 DEF StartFull
    <2> DEFINE g  == [start |-> 1, end |-> last]
               r1 == [IdleRun EXCEPT !.pc = "reading"]
               r2 == [r1 EXCEPT !.range = g]
    <2>2. g \in Ranges /\ g.start = 1
      BY <1>2 DEF Ranges
    <2> HIDE DEF g
    <2>3. run' = [run EXCEPT ![p] = r2]
      BY <2>1 DEF g, IdleRun
    <2>4. r1 \in RunRecord /\ r1.pc = "reading"
      BY IdleRunType DEF RunRecord, RunStates
    <2> HIDE DEF r1
    <2>5. r2 \in RunRecord /\ r2.pc = "reading" /\ r2.range = g
      BY <2>2, <2>4 DEF RunRecord
    <2> HIDE DEF r2
    <2>6. r2.range.start >= 1
      BY <2>2, <2>5
    <2> QED
      BY <1>1, <2>3, <2>5, <2>6, StartStep
  <1>4. CASE StartPartial(p)
    <2>1. PICK start \in 1..MaxRaw, end \in 1..MaxRaw :
             run' = [run EXCEPT ![p] = [IdleRun EXCEPT !.pc = "reading", !.kind = "partial",
                                          !.range = [start |-> start, end |-> end]]]
      BY <1>4 DEF StartPartial
    <2> DEFINE g  == [start |-> start, end |-> end]
               r1 == [IdleRun EXCEPT !.pc = "reading"]
               r2 == [r1 EXCEPT !.kind = "partial"]
               r3 == [r2 EXCEPT !.range = g]
    <2>2. g \in Ranges /\ g.start = start /\ start >= 1
      BY <1>2 DEF Ranges
    <2> HIDE DEF g
    <2>3. run' = [run EXCEPT ![p] = r3]
      BY <2>1 DEF g, IdleRun
    <2>4. r1 \in RunRecord /\ r1.pc = "reading"
      BY IdleRunType DEF RunRecord, RunStates
    <2> HIDE DEF r1
    <2>5. r2 \in RunRecord /\ r2.pc = "reading"
      BY <2>4 DEF RunRecord
    <2> HIDE DEF r2
    <2>6. r3 \in RunRecord /\ r3.pc = "reading" /\ r3.range = g
      BY <2>2, <2>5 DEF RunRecord
    <2> HIDE DEF r3
    <2>7. r3.range.start >= 1
      BY <2>2, <2>6
    <2> QED
      BY <1>1, <2>3, <2>6, <2>7, StartStep
  <1> QED
    BY <1>3, <1>4

\* The end of a recomp, by its finally or by the death of its process.
LEMMA StopKeeps ==
    ASSUME RecompInv, NEW p \in Procs, ReleaseLease(p) \/ Crash(p)
    PROVE  RecompInv'
  <1> DEFINE Leases == [holder : Procs \cup {Nobody, Orphan}, ttl : 0..LeaseTTL]
  <1>0. lease \in Leases
    BY DEF RecompInv, TypeOK
  <1>1. run[p].pc # "idle" /\ run' = [run EXCEPT ![p] = IdleRun] /\ UNCHANGED <<compartments, staging, stagedPass, range>>
    BY DEF ReleaseLease, Crash
  <1>2. run' \in [Procs -> RunRecord] /\ run'[p] = IdleRun /\ \A q \in Procs \ {p} : run'[q] = run[q]
    BY <1>1, SetRun, IdleRunType DEF RecompInv
  <1>3. \A q \in Procs \ {p} : run[q].pc = "idle"
    BY <1>1, OthersIdle
  <1>4. \A q \in Procs : run'[q].pc = "idle"
    <2>1. IdleRun.pc = "idle"
      BY DEF IdleRun
    <2> QED
      BY <1>2, <1>3, <2>1
  <1>5. lease' \in Leases
    <2>1. lease' = Released(lease, p) \/ lease' = Abandoned(lease, p)
      BY DEF ReleaseLease, Crash
    <2>2. Released(lease, p) \in Leases
      BY <1>0, BoundAssumption DEF Released, NoRow
    <2>3. Abandoned(lease, p) \in Leases
      BY <1>0 DEF Abandoned
    <2> HIDE DEF Leases
    <2> QED
      BY <2>1, <2>2, <2>3
  <1>6. /\ compartments' \in Seq(Row) /\ staging' \in Seq(Row) /\ stagedPass' \in BOOLEAN
        /\ range' \in Ranges /\ RecompContiguous'
    BY <1>1 DEF RecompInv, TypeOK, RecompContiguous
  <1> QED
    BY <1>2, <1>4, <1>5, <1>6, AllIdleStep

\* The holder stays the holder: a renewal, or a tick that a punctual holder
\* has renewed before.
LEMMA ClockKeeps ==
    ASSUME RecompInv, Procs \subseteq Punctual, Tick \/ \E p \in Procs : RenewLease(p)
    PROVE  RecompInv'
  <1> DEFINE Leases == [holder : Procs \cup {Nobody, Orphan}, ttl : 0..LeaseTTL]
  <1>0. lease \in Leases
    BY DEF RecompInv, TypeOK
  <1>1. UNCHANGED <<compartments, staging, stagedPass, range, run>>
    BY DEF Tick, RenewLease
  <1>2. lease' \in Leases /\ \A q \in Procs : IsHeldBy(lease, q) => IsHeldBy(lease', q)
    <2>1. CASE Tick
      <3>1. /\ lease' = [lease EXCEPT !.ttl = IF lease.ttl > 0 THEN lease.ttl - 1 ELSE 0]
            /\ lease.ttl > 0
            /\ lease.holder \in Procs => lease.ttl # 1
        BY <2>1 DEF Tick, Older
      <3>2. lease.ttl - 1 \in 0..LeaseTTL
        BY <1>0, <3>1, BoundAssumption
      <3>3. lease' \in Leases /\ lease'.holder = lease.holder /\ lease'.ttl = lease.ttl - 1
        BY <1>0, <3>1, <3>2
      <3>4. lease.holder \in Procs => lease'.ttl > 0
        BY <1>0, <3>1, <3>3, BoundAssumption
      <3> QED
        BY <3>3, <3>4 DEF IsHeldBy
    <2>2. CASE \E p \in Procs : RenewLease(p)
      <3>1. lease' = [lease EXCEPT !.ttl = LeaseTTL]
        BY <2>2 DEF RenewLease
      <3>2. lease' \in Leases /\ lease'.holder = lease.holder /\ lease'.ttl = LeaseTTL
        BY <1>0, <3>1, BoundAssumption
      <3> QED
        BY <3>2, BoundAssumption DEF IsHeldBy
    <2> QED
      BY <2>1, <2>2
  <1>3. Alone'
    BY <1>1, <1>2 DEF RecompInv, Alone
  <1>4. TypeOK' /\ RecompContiguous'
    BY <1>1, <1>2 DEF RecompInv, TypeOK, RecompContiguous
  <1>5. \A q \in Procs : Staged(run'[q], staging') /\ Reaches(run'[q], compartments')
    BY <1>1 DEF RecompInv
  <1> QED
    BY <1>3, <1>4, <1>5 DEF RecompInv

\* An incremental run appends behind the last compartment while no recomp is
\* under way.
LEMMA IncrementalKeeps ==
    ASSUME RecompInv, IncrementalPublishes
    PROVE  RecompInv'
  <1>1. /\ compartments \in Seq(Row) /\ staging \in Seq(Row) /\ stagedPass \in BOOLEAN /\ range \in Ranges
        /\ run \in [Procs -> RunRecord] /\ ContiguousFrom(compartments, 1)
    BY DEF RecompInv, TypeOK, RunRecord, RecompContiguous, validateStoredCompartments
  <1>2. IsFree(lease) /\ lease' = NoRow /\ UNCHANGED <<staging, stagedPass, range, run>>
    BY DEF IncrementalPublishes
  <1>3. \A p \in Procs : run[p].pc = "idle"
    BY <1>2, IsFreeToAll, FreeMeansIdle
  <1> DEFINE f == LastEnd(compartments) + 1
  <1>4. PICK ends \in EndLists(f, MaxRaw) : compartments' = compartments \o Built(f, ends, "incremental")
    BY DEF IncrementalPublishes
  <1>5. LastEnd(compartments) \in 0..MaxRaw /\ MaxRaw \in Nat /\ f \in Nat
    BY <1>1, LastEndIs, BoundAssumption
  <1>6. f \in 1..MaxRaw
    <2> HIDE DEF f
    <2>1. Len(ends) \in 1..(MaxRaw + 1 - f)
      BY <1>5, EndListsType
    <2>2. f >= 1
      BY <1>5 DEF f
    <2> QED
      BY <1>5, <2>1, <2>2
  <1> DEFINE block == Built(f, ends, "incremental")
  <1>7. block \in Seq(Row) /\ ContiguousFrom(block, f)
    <2> HIDE DEF f
    <2>1. MaxRaw \in 0..MaxRaw
      BY <1>5
    <2> QED
      BY <1>6, <2>1, BuiltIs
  <1> HIDE DEF block
  <1>8. compartments \o block \in Seq(Row) /\ ContiguousFrom(compartments \o block, 1)
    BY <1>1, <1>7, Joined
  <1>9. compartments' \in Seq(Row) /\ RecompContiguous'
    BY <1>4, <1>8 DEF block, RecompContiguous, validateStoredCompartments
  <1>10. lease' \in [holder : Procs \cup {Nobody, Orphan}, ttl : 0..LeaseTTL]
    BY <1>2, BoundAssumption DEF NoRow
  <1>11. run' \in [Procs -> RunRecord] /\ \A p \in Procs : run'[p].pc = "idle"
    BY <1>1, <1>2, <1>3
  <1>12. staging' \in Seq(Row) /\ stagedPass' \in BOOLEAN /\ range' \in Ranges
    BY <1>1, <1>2
  <1> QED
    BY <1>9, <1>10, <1>11, <1>12, AllIdleStep

\* The reminder drops the staging rows of a recomp, also of one under way.
LEMMA UpgradeKeeps ==
    ASSUME RecompInv, UpgradeClearsStaging
    PROVE  RecompInv'
  <1>1. staging' = <<>> /\ stagedPass' = FALSE /\ range' = NoRange /\ UNCHANGED <<compartments, lease, run>>
    BY DEF UpgradeClearsStaging, ClearStaging
  <1>2. staging' \in Seq(Row) /\ range' \in Ranges
    BY <1>1, IdleRunType
  <1>3. stagedPass' \in BOOLEAN
    BY <1>1
  <1>4. TypeOK' /\ RecompContiguous' /\ Alone'
    BY <1>1, <1>2, <1>3 DEF RecompInv, TypeOK, RecompContiguous, Alone
  <1>5. ASSUME NEW q \in Procs
        PROVE  Staged(run'[q], staging') /\ Reaches(run'[q], compartments')
    <2>1. Staged(run[q], staging) /\ Reaches(run[q], compartments)
      BY DEF RecompInv
    <2>2. Staged(run[q], <<>>)
      BY <2>1 DEF Staged
    <2> QED
      BY <1>1, <2>1, <2>2
  <1> QED
    BY <1>4, <1>5 DEF RecompInv

LEMMA StepRecomp ==
    ASSUME RecompInv, Procs \subseteq Punctual, [Next]_vars
    PROVE  RecompInv'
  <1>1. CASE UNCHANGED vars
    BY <1>1 DEF vars, RecompInv, TypeOK, Alone, RecompContiguous
  <1>2. CASE Environment
    BY <1>2, IncrementalKeeps, UpgradeKeeps, ClockKeeps DEF Environment
  <1>3. ASSUME NEW p \in Procs, Crash(p) \/ RunStep(p)
        PROVE  RecompInv'
    <2>1. CASE StartFull(p) \/ StartPartial(p)
      BY <2>1, StartKeeps
    <2>2. CASE ReleaseLease(p) \/ Crash(p)
      BY <2>2, StopKeeps
    <2>3. CASE RenewLease(p)
      BY <2>3, ClockKeeps
    <2>4. CASE \/ FullReads(p) \/ PartialReads(p) \/ PartialRefused(p) \/ PartialSeeds(p)
               \/ PartialMarksRange(p) \/ Pass(p) \/ PassFails(p) \/ RunThrows(p) \/ FinishFull(p)
               \/ FinishPartial(p) \/ Promote(p) \/ PromoteRefused(p) \/ PartialUnmarksRange(p) \/ Cleanup(p)
      <3>1. run[p].pc # "idle"
        BY <2>4 DEF FullReads, PartialReads, PartialRefused, PartialSeeds, PartialMarksRange, Pass,
                    PassFails, RunThrows, FinishFull, FinishPartial, Promote, PromoteRefused,
                    PartialUnmarksRange, Cleanup
      <3> QED
        BY <2>4, <3>1, RunStepKeeps
    <2> QED
      BY <1>3, <2>1, <2>2, <2>3, <2>4 DEF RunStep
  <1> QED
    BY <1>1, <1>2, <1>3 DEF Next

----------------------------------------------------------------------------
(* Theorems *)

\* The invariant holds of every behaviour in which live holders renew in time.
LEMMA RecompIsSound ==
    ASSUME Procs \subseteq Punctual
    PROVE  Spec => []RecompInv
  <1>1. RecompInv /\ [Next]_vars => RecompInv'
    BY StepRecomp
  <1> QED
    BY <1>1, InitRecomp, PTL DEF Spec

\* Every variable of a recomp keeps its type, for any number of processes,
\* messages and crashes, as long as lease renewals fire in time.
THEOREM RecompTypeCorrect ==
    ASSUME Procs \subseteq Punctual
    PROVE  Spec => []TypeOK
  <1>1. RecompInv => TypeOK
    BY DEF RecompInv
  <1> QED
    BY <1>1, RecompIsSound, PTL

\* Whatever sequence of full and partial recomps, crashes, resumed staging
\* rows, cleared staging rows and incremental runs there has been, the stored
\* compartments validate (validateStoredCompartments), although the promotion
\* transaction swaps the staging rows in without looking at them.
THEOREM RecompKeepsContiguous ==
    ASSUME Procs \subseteq Punctual
    PROVE  Spec => []RecompContiguous
  <1>1. RecompInv => RecompContiguous
    BY DEF RecompInv
  <1> QED
    BY <1>1, RecompIsSound, PTL

\* What promoteRecompStagingWithM0Mutation will swap in is what the run
\* validated before it went there, or nothing: the reminder, which clears
\* staging without the lease, cannot leave a part of it.
THEOREM PromotesItsCandidate ==
    ASSUME Procs \subseteq Punctual
    PROVE  Spec => []PromotedIsCandidate
  <1>1. RecompInv => PromotedIsCandidate
    BY DEF RecompInv, Staged, PromotedIsCandidate
  <1> QED
    BY <1>1, RecompIsSound, PTL

\* Only the promotion transaction takes a run from promoting to unmarking.
LEMMA OnlyPromote ==
    ASSUME RecompInv, Next, NEW p \in Procs, PartialPromotes(p)
    PROVE  Promote(p)
  <1>1. /\ run[p].pc = "promoting" /\ run'[p].pc = "unmarking" /\ TypeOK
        /\ run \in [Procs -> RunRecord] /\ run[p] \in RunRecord
    BY UnderWay DEF PartialPromotes
  <1>2. ~Environment
    BY <1>1 DEF Environment, IncrementalPublishes, UpgradeClearsStaging, Tick
  <1>3. PICK q \in Procs : Crash(q) \/ RunStep(q)
    BY <1>2 DEF Next
  <1>4. q = p
    <2>1. SUFFICES ASSUME q # p PROVE FALSE
      OBVIOUS
    <2>2. run[q].pc = "idle" /\ ~IsFree(lease)
      <3>1. IsHeldBy(lease, p) /\ run[q].pc = "idle"
        BY <1>1, <2>1, OthersIdle
      <3>2. lease.holder = p /\ lease.ttl > 0
        BY <3>1 DEF IsHeldBy
      <3> QED
        BY <3>1, <3>2, ProcsAssumption DEF IsFree
    <2> QED
      BY <1>1, <1>3, <2>1, <2>2
         DEF Crash, RunStep, StartFull, StartPartial, FullReads, PartialReads, PartialRefused,
             PartialSeeds, PartialMarksRange, Pass, PassFails, RunThrows, FinishFull, FinishPartial,
             Promote, PromoteRefused, PartialUnmarksRange, Cleanup, ReleaseLease, RenewLease
  <1>5. Promote(p) \/ PromoteRefused(p) \/ Crash(p) \/ RenewLease(p)
    BY <1>1, <1>3, <1>4
       DEF RunStep, StartFull, StartPartial, FullReads, PartialReads, PartialRefused,
           PartialSeeds, PartialMarksRange, Pass, PassFails, RunThrows, FinishFull, FinishPartial,
           PartialUnmarksRange, Cleanup, ReleaseLease
  <1>6. ~Crash(p) /\ ~RenewLease(p)
    BY <1>1 DEF Crash, RenewLease, IdleRun
  <1>7. ~PromoteRefused(p)
    <2>1. SUFFICES ASSUME MoveRun(p, Over(p)) PROVE FALSE
      BY DEF PromoteRefused
    <2>2. Over(p) \in RunStates /\ Over(p) # "unmarking"
      BY DEF Over, RunStates
    <2>3. PICK r \in RunRecord : run' = [run EXCEPT ![p] = r] /\ r.pc = Over(p)
      BY <1>1, <2>1, <2>2, MovedRun
    <2>4. run'[p] = r
      BY <1>1, <2>3
    <2> QED
      BY <1>1, <2>2, <2>3, <2>4
  <1> QED
    BY <1>5, <1>6, <1>7

\* A partial recomp never changes how far the session is compacted: the list
\* that its promotion swaps in ends where the compartments ended, however many
\* incremental runs published and however often it was resumed since it was
\* first staged.
THEOREM PartialKeepsReach ==
    ASSUME Procs \subseteq Punctual
    PROVE  Spec => PartialKeepsCoverage
  <1>1. RecompInv /\ [Next]_vars =>
           [\A p \in Procs : PartialPromotes(p) => LastEnd(compartments') = LastEnd(compartments)]_vars
    <2> SUFFICES ASSUME RecompInv, Next, NEW p \in Procs, PartialPromotes(p)
                 PROVE  LastEnd(compartments') = LastEnd(compartments)
      OBVIOUS
    <2>1. Promote(p) /\ run[p].kind = "partial"
      BY OnlyPromote DEF PartialPromotes
    <2>2. run[p].pc = "promoting" /\ staging # <<>> /\ compartments' = staging
      BY <2>1 DEF Promote
    <2>3. Staged(run[p], staging) /\ Reaches(run[p], compartments)
      BY DEF RecompInv
    <2>4. compartments' = run[p].candidate
      BY <2>2, <2>3 DEF Staged
    <2>5. LastEnd(run[p].candidate) = LastEnd(compartments)
      BY <2>1, <2>2, <2>3 DEF Reaches
    <2> QED
      BY <2>4, <2>5
  <1> QED
    BY <1>1, RecompIsSound, PTL DEF Spec, PartialKeepsCoverage

----------------------------------------------------------------------------
(* What a partial recomp keeps: positions in lists of rows *)

Has(list, x) == \E i \in 1..Len(list) : list[i] = x

Among(rows, list) == \A i \in 1..Len(rows) : Has(list, rows[i])

\* Rows that start before first, other than a full recomp's, are rows of list.
Kept(rows, first, list) ==
    \A i \in 1..Len(rows) : rows[i].gen = "full" \/ rows[i].startMessage >= first \/ Has(list, rows[i])

\* The rows of list that start after last are among rows.
Tailed(rows, last, list) ==
    \A i \in 1..Len(list) : list[i].startMessage > last => Has(rows, list[i])

LEMMA Positions ==
    ASSUME NEW list \in Seq(Row), NEW i \in 1..Len(list)
    PROVE  /\ Len(list) \in Nat /\ list[i] \in Row
           /\ list[i].startMessage \in 1..MaxRaw /\ list[i].endMessage \in 1..MaxRaw
           /\ list[i].startMessage \in Nat /\ list[i].endMessage \in Nat
  <1>1. Len(list) \in Nat
    BY LenProperties
  <1>2. list[i] \in Row
    BY <1>1, ElementOfSeq
  <1>3. list[i].startMessage \in 1..MaxRaw /\ list[i].endMessage \in 1..MaxRaw
    BY <1>2 DEF Row
  <1> QED
    BY <1>1, <1>2, <1>3, BoundAssumption

LEMMA HasJoined ==
    ASSUME NEW list \in Seq(Row), NEW block \in Seq(Row), NEW x, Has(list, x) \/ Has(block, x)
    PROVE  Has(list \o block, x)
  <1> DEFINE all == list \o block
  <1>1. /\ Len(all) = Len(list) + Len(block)
        /\ \A i \in 1..Len(all) : all[i] = IF i <= Len(list) THEN list[i] ELSE block[i - Len(list)]
    BY ConcatProperties
  <1>2. Len(list) \in Nat /\ Len(block) \in Nat
    BY LenProperties
  <1> HIDE DEF all
  <1>3. CASE Has(list, x)
    <2>1. PICK i \in 1..Len(list) : list[i] = x
      BY <1>3 DEF Has
    <2>2. i \in 1..Len(all) /\ i <= Len(list)
      BY <1>1, <1>2
    <2>3. all[i] = x
      BY <1>1, <2>1, <2>2
    <2> QED
      BY <2>2, <2>3 DEF Has, all
  <1>4. CASE Has(block, x)
    <2>1. PICK i \in 1..Len(block) : block[i] = x
      BY <1>4 DEF Has
    <2>2. Len(list) + i \in 1..Len(all) /\ ~(Len(list) + i <= Len(list)) /\ (Len(list) + i) - Len(list) = i
      BY <1>1, <1>2
    <2>3. all[Len(list) + i] = block[(Len(list) + i) - Len(list)]
      BY <1>1, <2>2
    <2>4. all[Len(list) + i] = x
      BY <2>1, <2>2, <2>3
    <2> QED
      BY <2>2, <2>4 DEF Has, all
  <1> QED
    BY <1>3, <1>4

LEMMA KeptJoined ==
    ASSUME NEW rows \in Seq(Row), NEW more \in Seq(Row), NEW first, NEW list,
           Kept(rows, first, list), Kept(more, first, list)
    PROVE  Kept(rows \o more, first, list)
  <1> DEFINE all == rows \o more
  <1>1. /\ Len(all) = Len(rows) + Len(more)
        /\ \A i \in 1..Len(all) : all[i] = IF i <= Len(rows) THEN rows[i] ELSE more[i - Len(rows)]
    BY ConcatProperties
  <1>2. Len(rows) \in Nat /\ Len(more) \in Nat
    BY LenProperties
  <1> HIDE DEF all
  <1>3. ASSUME NEW i \in 1..Len(all)
        PROVE  all[i].gen = "full" \/ all[i].startMessage >= first \/ Has(list, all[i])
    <2>1. CASE i <= Len(rows)
      <3>1. i \in 1..Len(rows) /\ all[i] = rows[i]
        BY <1>1, <1>2, <2>1
      <3> QED
        BY <3>1 DEF Kept
    <2>2. CASE ~(i <= Len(rows))
      <3>1. i - Len(rows) \in 1..Len(more) /\ all[i] = more[i - Len(rows)]
        BY <1>1, <1>2, <2>2
      <3> QED
        BY <3>1 DEF Kept
    <2> QED
      BY <2>1, <2>2
  <1> QED
    BY <1>3 DEF Kept, all

\* Nothing that was kept is lost when the list grows.
LEMMA KeptGrows ==
    ASSUME NEW rows \in Seq(Row), NEW first, NEW list \in Seq(Row), NEW block \in Seq(Row),
           Kept(rows, first, list)
    PROVE  Kept(rows, first, list \o block)
  BY HasJoined DEF Kept

LEMMA PartIsKept ==
    ASSUME NEW rows, NEW first, NEW list, Among(rows, list)
    PROVE  Kept(rows, first, list)
  BY DEF Among, Kept

\* What a pass adds starts at its offset and carries the kind of its recomp.
LEMMA BuiltRows ==
    ASSUME NEW f \in 1..MaxRaw, NEW l \in 0..MaxRaw, NEW ends \in EndLists(f, l), NEW gen
    PROVE  \A i \in 1..Len(Built(f, ends, gen)) :
              /\ Built(f, ends, gen)[i].gen = gen
              /\ Built(f, ends, gen)[i].startMessage >= f
  <1> DEFINE block == Built(f, ends, gen)
  <1>0. MaxRaw \in Nat /\ f \in Nat /\ l \in Nat
    BY BoundAssumption
  <1>1. /\ Len(ends) \in Nat /\ DOMAIN ends = 1..Len(ends)
        /\ \A i \in 1..Len(ends) : ends[i] \in f..l
    <2>1. /\ Len(ends) \in 1..(l + 1 - f) /\ ends \in [1..Len(ends) -> f..l]
          /\ DOMAIN ends = 1..Len(ends)
      BY <1>0, EndListsType
    <2> QED
      BY <1>0, <2>1
  <1>2. Len(block) = Len(ends)
    BY <1>1 DEF Built
  <1>3. ASSUME NEW i \in 1..Len(ends)
        PROVE  block[i].gen = gen /\ block[i].startMessage >= f
    <2>1. block[i] = [startMessage |-> IF i = 1 THEN f ELSE ends[i-1] + 1, endMessage |-> ends[i], gen |-> gen]
      BY <1>1 DEF Built
    <2>2. i # 1 => i - 1 \in 1..Len(ends)
      BY <1>1
    <2>3. i # 1 => ends[i-1] \in Nat /\ ends[i-1] >= f
      BY <1>0, <1>1, <2>2
    <2>4. (IF i = 1 THEN f ELSE ends[i-1] + 1) >= f
      BY <1>0, <2>3
    <2> HIDE DEF block
    <2> QED
      BY <2>1, <2>4
  <1> HIDE DEF block
  <1>4. \A i \in 1..Len(block) : block[i].gen = gen /\ block[i].startMessage >= f
    BY <1>2, <1>3
  <1> QED
    BY <1>4 DEF block

\* In a list that validates, an earlier row ends before a later one starts.
LEMMA InOrder ==
    ASSUME NEW list \in Seq(Row), ContiguousFrom(list, 1), NEW a \in 1..Len(list), NEW b \in 1..Len(list),
           a < b
    PROVE  list[a].endMessage < list[b].startMessage
  <1> DEFINE n == Len(list)
             H == {k \in 1..n : a < k /\ ~(list[a].endMessage < list[k].startMessage)}
  <1>1. n \in Nat /\ H \in SUBSET (1..n)
    BY LenProperties
  <1>2. SUFFICES ASSUME H # {} PROVE FALSE
    OBVIOUS
  <1>3. PICK k \in H : \A j \in H : k <= j
    <2> HIDE DEF H, n
    <2> QED
      BY <1>1, <1>2, FirstAndLast
  <1>4. k \in 1..n /\ a < k /\ ~(list[a].endMessage < list[k].startMessage) /\ k # 1 /\ k - 1 \in 1..n
    BY <1>1, <1>3
  <1>5. list[k].startMessage = list[k-1].endMessage + 1
    BY <1>4 DEF ContiguousFrom
  <1>6. /\ list[a].endMessage \in Nat /\ list[k-1].endMessage \in Nat /\ list[k].startMessage \in Nat
        /\ list[k-1].startMessage \in Nat
    BY <1>4, Positions
  <1>7. CASE k - 1 = a
    BY <1>4, <1>5, <1>6, <1>7
  <1>8. CASE k - 1 # a
    <2>1. a < k - 1 /\ ~(k <= k - 1)
      BY <1>1, <1>4, <1>8
    <2>2. k - 1 \notin H
      BY <1>3, <2>1
    <2>3. list[a].endMessage < list[k-1].startMessage
      BY <1>4, <2>1, <2>2
    <2>4. list[k-1].startMessage <= list[k-1].endMessage
      BY <1>4 DEF ContiguousFrom
    <2> QED
      BY <1>4, <1>5, <1>6, <2>3, <2>4
  <1> QED
    BY <1>7, <1>8

\* A list that validates has a row for every message up to its last.
LEMMA CoversAll ==
    ASSUME NEW list \in Seq(Row), ContiguousFrom(list, 1), NEW x \in 1..MaxRaw, x <= LastEnd(list)
    PROVE  \E k \in 1..Len(list) : list[k].startMessage <= x /\ x <= list[k].endMessage
  <1> DEFINE n == Len(list)
             H == {k \in 1..n : x <= list[k].endMessage}
  <1>1. n \in Nat /\ H \in SUBSET (1..n)
    BY LenProperties
  <1>2. x \in Nat /\ x >= 1
    BY BoundAssumption
  <1>3. H # {}
    <2>1. list # <<>>
      BY <1>2 DEF LastEnd
    <2>2. LastEnd(list) = list[n].endMessage /\ n \in 1..n
      BY <2>1, LastEndIs
    <2> QED
      BY <2>2
  <1>4. PICK k \in H : \A j \in H : k <= j
    <2> HIDE DEF H, n
    <2> QED
      BY <1>1, <1>3, FirstAndLast
  <1>5. k \in 1..n /\ x <= list[k].endMessage
    BY <1>4
  <1>6. list[k].startMessage <= x
    <2>1. CASE k = 1
      <3>1. list[k].startMessage = 1
        BY <1>5, <2>1 DEF ContiguousFrom
      <3> QED
        BY <1>2, <3>1
    <2>2. CASE k # 1
      <3>1. k - 1 \in 1..n /\ ~(k <= k - 1)
        BY <1>1, <1>5, <2>2
      <3>2. k - 1 \notin H
        BY <1>4, <3>1
      <3>3. ~(x <= list[k-1].endMessage) /\ list[k].startMessage = list[k-1].endMessage + 1
        BY <1>5, <2>2, <3>1, <3>2 DEF ContiguousFrom
      <3>4. list[k-1].endMessage \in Nat
        BY <3>1, Positions
      <3> QED
        BY <1>2, <3>3, <3>4
    <2> QED
      BY <2>1, <2>2
  <1> QED
    BY <1>5, <1>6

\* Two rows of such a list that share a message are the same row.
LEMMA SameRow ==
    ASSUME NEW list \in Seq(Row), ContiguousFrom(list, 1), NEW i \in 1..Len(list), NEW k \in 1..Len(list),
           list[k].startMessage <= list[i].startMessage, list[i].startMessage <= list[k].endMessage
    PROVE  i = k
  <1>1. /\ list[i].startMessage \in Nat /\ list[k].endMessage \in Nat
        /\ list[k].startMessage \in Nat /\ list[i].endMessage \in Nat
    BY Positions
  <1>2. ~(k < i)
    BY <1>1, InOrder
  <1>3. ~(i < k)
    <2>1. list[i].startMessage <= list[i].endMessage
      BY DEF ContiguousFrom
    <2>2. i < k => list[i].endMessage < list[k].startMessage
      BY InOrder
    <2> QED
      BY <1>1, <2>1, <2>2
  <1> QED
    BY <1>2, <1>3

\* A list that validates, reaches as far as the compartments did, keeps what
\* starts before the range and has what comes after it, has every row outside
\* the range: its row for the first message of such a row is that row.
LEMMA OutsideIsKept ==
    ASSUME NEW list \in Seq(Row), ContiguousFrom(list, 1), NEW rows \in Seq(Row), ContiguousFrom(rows, 1),
           LastEnd(rows) = LastEnd(list), NEW g \in Ranges,
           Kept(rows, g.start, list), Tailed(rows, g.end, list),
           \A j \in 1..Len(rows) : rows[j].gen = "full" => Has(list, rows[j]),
           NEW i \in 1..Len(list), ~Overlaps(list[i], g.start, g.end)
    PROVE  Has(rows, list[i])
  <1>1. /\ list[i].startMessage \in 1..MaxRaw /\ list[i].startMessage \in Nat
        /\ list[i].endMessage \in Nat /\ g.start \in Nat /\ g.end \in Nat /\ MaxRaw \in Nat
    BY Positions, BoundAssumption DEF Ranges
  <1>2. CASE list[i].startMessage > g.end
    BY <1>2 DEF Tailed
  <1>3. CASE ~(list[i].startMessage > g.end)
    <2>1. list[i].endMessage < g.start
      BY <1>1, <1>3 DEF Overlaps
    <2>2. list[i].startMessage <= list[i].endMessage
      BY DEF ContiguousFrom
    <2>3. list[i].endMessage <= LastEnd(list)
      <3> DEFINE n == Len(list)
      <3>1. n \in Nat /\ i <= n
        BY LenProperties
      <3>2. list # <<>>
        BY <3>1
      <3>3. LastEnd(list) = list[n].endMessage /\ n \in 1..n
        BY <3>2, LastEndIs
      <3>4. list[n].startMessage \in Nat /\ list[n].endMessage \in Nat /\ list[n].startMessage <= list[n].endMessage
        BY <3>3, Positions DEF ContiguousFrom
      <3>5. i < n => list[i].endMessage < list[n].startMessage
        BY <3>3, InOrder
      <3>6. CASE i = n
        BY <1>1, <3>3, <3>6
      <3>7. CASE i < n
        <4> HIDE DEF n
        <4> QED
          BY <1>1, <3>3, <3>4, <3>5, <3>7
      <3> QED
        BY <3>1, <3>6, <3>7
    <2>4. LastEnd(list) \in Nat
      BY LastEndIs, BoundAssumption
    <2>5. list[i].startMessage <= LastEnd(rows)
      BY <1>1, <2>2, <2>3, <2>4
    <2>6. PICK j \in 1..Len(rows) : rows[j].startMessage <= list[i].startMessage
                                    /\ list[i].startMessage <= rows[j].endMessage
      BY <1>1, <2>5, CoversAll
    <2>7. rows[j].startMessage \in Nat
      BY Positions
    <2>8. ~(rows[j].startMessage >= g.start)
      BY <1>1, <2>1, <2>2, <2>6, <2>7
    <2>9. Has(list, rows[j])
      BY <2>8 DEF Kept
    <2>10. PICK k \in 1..Len(list) : list[k] = rows[j]
      BY <2>9 DEF Has
    <2>11. i = k
      BY <2>6, <2>10, SameRow
    <2> QED
      BY <2>10, <2>11 DEF Has
  <1> QED
    BY <1>2, <1>3

\* What comes before and after a snapped range are compartments, among them all
\* that start behind it.
LEMMA SnappedKeeps ==
    ASSUME compartments \in Seq(Row), ContiguousFrom(compartments, 1), NEW start, NEW end,
           Snapped(start, end).hit # {}
    PROVE  LET s == Snapped(start, end) IN
           /\ Among(s.prior, compartments) /\ Among(s.tail, compartments)
           /\ Tailed(s.tail, s.range.end, compartments)
  <1> DEFINE hit   == {i \in 1..Len(compartments) : Overlaps(compartments[i], start, end)}
             first == CHOOSE i \in hit : \A j \in hit : i <= j
             last  == CHOOSE i \in hit : \A j \in hit : j <= i
             s     == Snapped(start, end)
             n     == Len(compartments)
  <1>1. s.hit = hit
    BY DEF Snapped
  <1>2. hit # {}
    BY <1>1
  <1>3. /\ s.range = [start |-> compartments[first].startMessage, end |-> compartments[last].endMessage]
        /\ s.prior = SubSeq(compartments, 1, first - 1)
        /\ s.tail = SubSeq(compartments, last + 1, n)
    <2> HIDE DEF first, last
    <2> QED
      BY <1>2 DEF Snapped, first, last
  <1>4. n \in Nat /\ hit \in SUBSET (1..n)
    BY LenProperties
  <1>5. /\ \E i \in hit : \A j \in hit : i <= j
        /\ \E i \in hit : \A j \in hit : j <= i
    <2> HIDE DEF hit, n
    <2> QED
      BY <1>2, <1>4, FirstAndLast
  <1>6. first \in 1..n /\ last \in 1..n
    <2> HIDE DEF hit, n
    <2> QED
      BY <1>4, <1>5
  <1> HIDE DEF hit, first, last, s
  <1>7. Among(s.prior, compartments)
    <2>1. 1 \in 1..(n + 1) /\ first - 1 \in 0..n
      BY <1>4, <1>6
    <2>2. /\ Len(s.prior) = IF 1 <= first - 1 THEN (first - 1) - 1 + 1 ELSE 0
          /\ \A i \in 1..((first - 1) - 1 + 1) : s.prior[i] = compartments[1 + i - 1]
      BY <1>3, <2>1, SubSeqProperties
    <2> SUFFICES ASSUME NEW i \in 1..Len(s.prior)
                 PROVE  Has(compartments, s.prior[i])
      BY DEF Among
    <2>3. i \in 1..((first - 1) - 1 + 1) /\ i \in 1..n /\ 1 + i - 1 = i
      BY <1>4, <1>6, <2>2
    <2>4. s.prior[i] = compartments[i]
      BY <2>2, <2>3
    <2> QED
      BY <2>3, <2>4 DEF Has
  <1>8. /\ Len(s.tail) = IF last + 1 <= n THEN n - (last + 1) + 1 ELSE 0
        /\ \A i \in 1..(n - (last + 1) + 1) : s.tail[i] = compartments[(last + 1) + i - 1]
    <2>1. last + 1 \in 1..(n + 1) /\ n \in 0..n
      BY <1>4, <1>6
    <2> QED
      BY <1>3, <2>1, SubSeqProperties
  <1>9. Among(s.tail, compartments)
    <2> SUFFICES ASSUME NEW i \in 1..Len(s.tail)
                 PROVE  Has(compartments, s.tail[i])
      BY DEF Among
    <2>1. i \in 1..(n - (last + 1) + 1) /\ (last + 1) + i - 1 \in 1..n
      BY <1>4, <1>6, <1>8
    <2>2. s.tail[i] = compartments[(last + 1) + i - 1]
      BY <1>8, <2>1
    <2> QED
      BY <2>1, <2>2 DEF Has
  <1>10. Tailed(s.tail, s.range.end, compartments)
    <2> SUFFICES ASSUME NEW i \in 1..n, compartments[i].startMessage > compartments[last].endMessage
                 PROVE  Has(s.tail, compartments[i])
      BY <1>3 DEF Tailed
    <2>3. /\ compartments[i].startMessage \in Nat /\ compartments[i].endMessage \in Nat
          /\ compartments[last].startMessage \in Nat /\ compartments[last].endMessage \in Nat
          /\ compartments[i].startMessage <= compartments[i].endMessage
          /\ compartments[last].startMessage <= compartments[last].endMessage
      BY <1>6, Positions DEF ContiguousFrom
    <2>4. last < i
      <3>1. i < last => compartments[i].endMessage < compartments[last].startMessage
        BY <1>6, InOrder
      <3>2. i # last
        BY <2>3
      <3>3. ~(i < last)
        BY <2>3, <3>1
      <3> QED
        BY <1>4, <1>6, <3>2, <3>3
    <2>5. i - last \in 1..(n - (last + 1) + 1) /\ i - last \in 1..Len(s.tail) /\ (last + 1) + (i - last) - 1 = i
      BY <1>4, <1>6, <1>8, <2>4
    <2>6. s.tail[i - last] = compartments[i]
      BY <1>8, <2>5
    <2> QED
      BY <2>5, <2>6 DEF Has
  <1> QED
    BY <1>7, <1>9, <1>10 DEF s

----------------------------------------------------------------------------
(* What a partial recomp keeps: the invariant *)

\* A partial recomp keeps the compartments before its range and knows those
\* after it; the recorded range is its own from the time its rows are staged,
\* unless the reminder has dropped it.  A full recomp may have resumed the rows
\* of a partial one, under the range that is recorded.
Keeps(r, rng, list) ==
    /\ r.pc \in {"seeding", "marking"} => r.kind = "partial"
    /\ r.kind = "full" /\ r.pc \in {"passing", "promoting"} /\ rng # NoRange =>
          Kept(r.candidate, rng.start, list)
    /\ r.kind = "partial" /\ r.pc \in {"seeding", "marking", "passing", "promoting"} =>
          /\ Kept(r.candidate, r.range.start, list)
          /\ Tailed(IF r.pc = "promoting" THEN r.candidate ELSE r.tail, r.range.end, list)
    /\ r.kind = "partial" /\ (r.pc \in {"passing", "promoting"} \/ (r.pc = "seeding" /\ r.resumed)) =>
          rng \in {r.range, NoRange}
    /\ r.pc = "marking" \/ (r.pc = "seeding" /\ ~r.resumed) =>
          Among(r.candidate, list)
    /\ r.kind = "partial" /\ r.pc \in {"seeding", "marking", "passing"} => Among(r.tail, list)

\* Rows left behind in staging under a range keep what is before that range.
StagedKept == staging # <<>> /\ range # NoRange => Kept(staging, range.start, compartments)

KeepInv == StagedKept /\ \A p \in Procs : Keeps(run[p], range, compartments)

\* A recomp that has read nothing yet, has ended or is about to.
LEMMA QuietKeeps ==
    ASSUME NEW r, r.pc \in {"idle", "reading", "unmarking", "cleanup", "releasing"}, NEW rng, NEW list
    PROVE  Keeps(r, rng, list)
  BY DEF Keeps

\* The rows of a recomp that is at work satisfy what is said of staged rows.
LEMMA StagedByRun ==
    ASSUME NEW r, r.pc \in {"seeding", "marking", "passing", "promoting"}, r.kind \in {"full", "partial"},
           NEW rows, NEW rng, NEW list, Staged(r, rows), Keeps(r, rng, list), rows # <<>>, rng # NoRange
    PROVE  Kept(rows, rng.start, list)
  <1>1. rows = r.candidate /\ (r.pc = "seeding" => r.resumed)
    BY DEF Staged
  <1>2. CASE r.pc = "marking"
    BY <1>1, <1>2, PartIsKept DEF Keeps
  <1>3. CASE r.pc # "marking" /\ r.kind = "full"
    BY <1>1, <1>3 DEF Keeps
  <1>4. CASE r.pc # "marking" /\ r.kind = "partial"
    <2>1. rng = r.range /\ Kept(r.candidate, r.range.start, list)
      BY <1>1, <1>4 DEF Keeps
    <2> QED
      BY <1>1, <2>1
  <1> QED
    BY <1>2, <1>3, <1>4

\* A step of the recomp that is under way, which stays at work.
LEMMA KeepOwnStep ==
    ASSUME RecompInv, RecompInv', NEW p \in Procs, run[p].pc # "idle", NEW r \in RunRecord,
           run' = [run EXCEPT ![p] = r], r.pc \in {"seeding", "marking", "passing", "promoting"},
           Keeps(r, range', compartments')
    PROVE  KeepInv'
  <1>1. /\ run'[p] = r /\ \A q \in Procs \ {p} : run'[q] = run[q]
        /\ r.kind \in {"full", "partial"}
    BY SetRun DEF RecompInv, RunRecord
  <1>2. \A q \in Procs \ {p} : run[q].pc = "idle"
    BY OthersIdle
  <1>3. ASSUME NEW q \in Procs
        PROVE  Keeps(run'[q], range', compartments')
    <2>1. CASE q = p
      BY <1>1, <2>1
    <2>2. CASE q # p
      BY <1>1, <1>2, <2>2, QuietKeeps
    <2> QED
      BY <2>1, <2>2
  <1>4. Staged(r, staging')
    BY <1>1 DEF RecompInv
  <1>5. StagedKept'
    BY <1>1, <1>4, StagedByRun DEF StagedKept
  <1> QED
    BY <1>3, <1>5 DEF KeepInv

\* A step after which nobody is at work on rows, that adds none to staging.
LEMMA KeepQuietStep ==
    ASSUME KeepInv, \A q \in Procs : run'[q].pc \in {"idle", "reading", "unmarking", "cleanup", "releasing"},
           \/ staging' = <<>> \/ range' = NoRange
           \/ staging' = staging /\ range' = range /\ compartments' = compartments
    PROVE  KeepInv'
  <1>1. \A q \in Procs : Keeps(run'[q], range', compartments')
    BY QuietKeeps
  <1>2. StagedKept'
    BY DEF KeepInv, StagedKept
  <1> QED
    BY <1>1, <1>2 DEF KeepInv

\* The recomp that is under way goes to another place of its end.
LEMMA KeepEndStep ==
    ASSUME RecompInv, KeepInv, NEW p \in Procs, run[p].pc # "idle",
           NEW pc \in {"unmarking", "cleanup", "releasing"}, MoveRun(p, pc),
           \/ staging' = <<>> \/ range' = NoRange
           \/ staging' = staging /\ range' = range /\ compartments' = compartments
    PROVE  KeepInv'
  <1>1. pc \in RunStates /\ TypeOK
    BY DEF RunStates, RecompInv
  <1>2. PICK r \in RunRecord : run' = [run EXCEPT ![p] = r] /\ r.pc = pc
    BY <1>1, MovedRun
  <1>3. run'[p] = r /\ \A q \in Procs \ {p} : run'[q] = run[q]
    BY <1>1, <1>2, SetRun
  <1>4. \A q \in Procs \ {p} : run[q].pc = "idle"
    BY OthersIdle
  <1>5. \A q \in Procs : run'[q].pc \in {"idle", "reading", "unmarking", "cleanup", "releasing"}
    BY <1>2, <1>3, <1>4
  <1> QED
    BY <1>5, KeepQuietStep

----------------------------------------------------------------------------
(* What a partial recomp keeps: steps *)

LEMMA FullReadsKept ==
    ASSUME RecompInv, RecompInv', KeepInv, NEW p \in Procs, FullReads(p)
    PROVE  KeepInv'
  <1>0. UNCHANGED <<compartments, staging, range>> /\ run[p].pc = "reading" /\ run[p].kind = "full"
    BY DEF FullReads
  <1>1. run[p] \in RunRecord /\ staging \in Seq(Row) /\ stagedPass \in BOOLEAN
    BY UnderWay
  <1> DEFINE r1 == [run[p] EXCEPT !.pc = "passing"]
             r2 == [r1 EXCEPT !.candidate = staging]
             r3 == [r2 EXCEPT !.passed = stagedPass]
  <1>2. run' = [run EXCEPT ![p] = r3]
    BY DEF FullReads
  <1>3. r1 \in RunRecord /\ r1.pc = "passing" /\ r1.kind = "full"
    BY <1>0, <1>1 DEF RunRecord, RunStates
  <1> HIDE DEF r1
  <1>4. r2 \in RunRecord /\ r2.pc = "passing" /\ r2.kind = "full" /\ r2.candidate = staging
    BY <1>1, <1>3 DEF RunRecord
  <1> HIDE DEF r2
  <1>5. r3 \in RunRecord /\ r3.pc = "passing" /\ r3.kind = "full" /\ r3.candidate = staging
    BY <1>1, <1>4 DEF RunRecord
  <1> HIDE DEF r3
  <1>6. ASSUME range # NoRange
        PROVE  Kept(staging, range.start, compartments)
    <2>1. CASE staging = <<>>
      BY <2>1 DEF Kept
    <2>2. CASE staging # <<>>
      BY <1>6, <2>2 DEF KeepInv, StagedKept
    <2> QED
      BY <2>1, <2>2
  <1>7. Keeps(r3, range', compartments')
    BY <1>0, <1>5, <1>6 DEF Keeps
  <1> QED
    BY <1>0, <1>2, <1>5, <1>7, KeepOwnStep

LEMMA PartialReadsKept ==
    ASSUME RecompInv, RecompInv', KeepInv, NEW p \in Procs, PartialReads(p)
    PROVE  KeepInv'
  <1> DEFINE s == Snapped(run[p].range.start, run[p].range.end)
             r == [pc |-> "seeding", kind |-> "partial", range |-> s.range, prior |-> s.prior,
                   tail |-> s.tail, candidate |-> IF staging # <<>> THEN staging ELSE s.prior,
                   passed |-> stagedPass, resumed |-> (staging # <<>>)]
  <1>0. /\ UNCHANGED <<compartments, staging, range>> /\ run[p].pc = "reading"
        /\ s.hit # {} /\ run' = [run EXCEPT ![p] = r] /\ (staging # <<>> => range = s.range)
    BY DEF PartialReads, MayResume
  <1>1. /\ compartments \in Seq(Row) /\ ContiguousFrom(compartments, 1)
        /\ staging \in Seq(Row) /\ stagedPass \in BOOLEAN /\ range \in Ranges
    BY UnderWay DEF validateStoredCompartments
  <1>2. s.range \in Ranges /\ s.range.start >= 1 /\ s.prior \in Seq(Row) /\ s.tail \in Seq(Row)
    BY <1>0, <1>1, SnappedIs
  <1>3. /\ Among(s.prior, compartments) /\ Among(s.tail, compartments)
        /\ Tailed(s.tail, s.range.end, compartments)
    BY <1>0, <1>1, SnappedKeeps
  <1> HIDE DEF s
  <1>4. r \in RunRecord
    <2>1. (IF staging # <<>> THEN staging ELSE s.prior) \in Seq(Row)
      BY <1>1, <1>2
    <2>2. (staging # <<>>) \in BOOLEAN
      OBVIOUS
    <2>3. "seeding" \in RunStates
      BY DEF RunStates
    <2> QED
      BY <1>1, <1>2, <2>1, <2>2, <2>3 DEF RunRecord
  <1>5. /\ r.pc = "seeding" /\ r.kind = "partial" /\ r.range = s.range /\ r.tail = s.tail
        /\ r.candidate = IF staging # <<>> THEN staging ELSE s.prior
    OBVIOUS
  <1>6. r.resumed <=> staging # <<>>
    OBVIOUS
  <1> HIDE DEF r
  <1>7. CASE staging = <<>>
    <2>1. r.candidate = s.prior /\ ~r.resumed
      BY <1>5, <1>6, <1>7
    <2>2. Kept(s.prior, s.range.start, compartments)
      BY <1>3, PartIsKept
    <2>3. Keeps(r, range', compartments')
      BY <1>0, <1>3, <1>5, <2>1, <2>2 DEF Keeps
    <2> QED
      BY <1>0, <1>4, <1>5, <2>3, KeepOwnStep
  <1>8. CASE staging # <<>>
    <2>1. r.candidate = staging /\ r.resumed /\ range = s.range
      BY <1>0, <1>5, <1>6, <1>8
    <2>2. s.range # NoRange
      BY <1>2 DEF NoRange
    <2>3. Kept(staging, s.range.start, compartments)
      BY <1>8, <2>1, <2>2 DEF KeepInv, StagedKept
    <2>4. Keeps(r, range', compartments')
      BY <1>0, <1>3, <1>5, <2>1, <2>3 DEF Keeps
    <2> QED
      BY <1>0, <1>4, <1>5, <2>4, KeepOwnStep
  <1> QED
    BY <1>7, <1>8

LEMMA PartialSeedsKept ==
    ASSUME RecompInv, RecompInv', KeepInv, NEW p \in Procs, PartialSeeds(p) \/ PartialMarksRange(p)
    PROVE  KeepInv'
  <1>0. UNCHANGED compartments /\ run[p].pc \in {"seeding", "marking"} /\ run[p].pc # "idle"
    BY DEF PartialSeeds, PartialMarksRange
  <1>1. TypeOK /\ Keeps(run[p], range, compartments) /\ run[p].kind = "partial"
    BY <1>0, UnderWay DEF KeepInv, Keeps
  <1>2. \/ run[p].pc = "seeding" /\ run[p].resumed /\ MoveRun(p, "passing") /\ range' = range
        \/ run[p].pc = "seeding" /\ ~run[p].resumed /\ MoveRun(p, "marking") /\ range' = range
        \/ run[p].pc = "marking" /\ MoveRun(p, "passing") /\ range' = run[p].range
    BY DEF PartialSeeds, PartialMarksRange
  <1>3. PICK pc \in {"marking", "passing"} :
           /\ MoveRun(p, pc)
           /\ pc = "marking" => run[p].pc = "seeding" /\ ~run[p].resumed
           /\ pc = "passing" => \/ run[p].pc = "seeding" /\ run[p].resumed /\ range' = range
                                \/ range' = run[p].range
    BY <1>2
  <1>4. PICK r \in RunRecord :
             /\ run' = [run EXCEPT ![p] = r] /\ r.pc = pc /\ r.candidate = run[p].candidate
             /\ r.range = run[p].range /\ r.tail = run[p].tail /\ r.kind = run[p].kind
    BY <1>1, <1>3, MovedRun DEF RunStates
  <1>5. /\ Kept(r.candidate, r.range.start, compartments)
        /\ Tailed(r.tail, r.range.end, compartments) /\ Among(r.tail, compartments)
    BY <1>0, <1>1, <1>4 DEF Keeps
  <1>6. CASE pc = "marking"
    <2>1. Among(r.candidate, compartments)
      BY <1>1, <1>3, <1>4, <1>6 DEF Keeps
    <2>2. Keeps(r, range', compartments')
      BY <1>0, <1>1, <1>4, <1>5, <1>6, <2>1 DEF Keeps
    <2> QED
      BY <1>0, <1>4, <1>6, <2>2, KeepOwnStep
  <1>7. CASE pc = "passing"
    <2>1. range' \in {r.range, NoRange}
      BY <1>1, <1>3, <1>4, <1>7 DEF Keeps
    <2>2. Keeps(r, range', compartments')
      BY <1>0, <1>1, <1>4, <1>5, <1>7, <2>1 DEF Keeps
    <2> QED
      BY <1>0, <1>4, <1>7, <2>2, KeepOwnStep
  <1> QED
    BY <1>6, <1>7

LEMMA PassKept ==
    ASSUME RecompInv, RecompInv', KeepInv, NEW p \in Procs, Pass(p)
    PROVE  KeepInv'
  <1>0. UNCHANGED <<compartments, range>> /\ run[p].pc = "passing" /\ Offset(run[p]) <= run[p].range.end
    BY DEF Pass
  <1>1. /\ TypeOK /\ run \in [Procs -> RunRecord] /\ run[p] \in RunRecord
        /\ run[p].range \in Ranges /\ run[p].candidate \in Seq(Row)
        /\ Reaches(run[p], compartments)
    BY UnderWay
  <1>2. Keeps(run[p], range, compartments)
    BY DEF KeepInv
  <1> DEFINE f == Offset(run[p])
  <1>3. PICK ends \in EndLists(f, run[p].range.end) :
           LET candidate == run[p].candidate \o Built(f, ends, run[p].kind) IN
           /\ run' = [run EXCEPT ![p].candidate = candidate, ![p].passed = TRUE]
           /\ Save(candidate, TRUE)
    BY DEF Pass
  <1>4. f \in 1..MaxRaw /\ run[p].range.end \in 0..MaxRaw /\ f >= run[p].range.start /\ f \in Nat
        /\ run[p].range.start \in Nat
    <2>1. run[p].range.start >= 1 /\ run[p].range.start \in 0..MaxRaw /\ run[p].range.end \in 0..MaxRaw
      BY <1>0, <1>1 DEF Reaches, Ranges
    <2>2. LastEnd(run[p].candidate) \in 0..MaxRaw
      BY <1>1, LastEndIs
    <2> QED
      BY <1>0, <2>1, <2>2, BoundAssumption DEF Offset
  <1> HIDE DEF f
  <1> DEFINE block == Built(f, ends, run[p].kind)
             c     == run[p].candidate \o block
             r1    == [run[p] EXCEPT !.candidate = c]
             r2    == [r1 EXCEPT !.passed = TRUE]
  <1>5. block \in Seq(Row)
    <2>1. run[p].kind \in {"incremental", "full", "partial"}
      BY <1>1 DEF RunRecord
    <2> QED
      BY <1>4, <2>1, BuiltIs
  <1>6. \A i \in 1..Len(block) : block[i].gen = run[p].kind /\ block[i].startMessage >= f
    BY <1>4, BuiltRows
  <1>7. run' = [run EXCEPT ![p] = r2]
    BY <1>1, <1>3
  <1> HIDE DEF block
  <1>8. c \in Seq(Row)
    BY <1>1, <1>5, Joined
  <1>9. ASSUME NEW first, Kept(run[p].candidate, first, compartments),
               run[p].kind = "full" \/ first = run[p].range.start
        PROVE  Kept(c, first, compartments)
    <2>1. Kept(block, first, compartments)
      <3> SUFFICES ASSUME NEW i \in 1..Len(block), run[p].kind # "full"
                   PROVE  block[i].startMessage >= first
        BY <1>6 DEF Kept
      <3>1. block[i].startMessage \in Nat
        BY <1>5, Positions
      <3> QED
        BY <1>4, <1>6, <1>9, <3>1
    <2> QED
      BY <1>1, <1>5, <1>9, <2>1, KeptJoined
  <1> HIDE DEF c
  <1>10. /\ r1 \in RunRecord /\ r1.pc = "passing" /\ r1.candidate = c /\ r1.kind = run[p].kind
         /\ r1.range = run[p].range /\ r1.tail = run[p].tail
    BY <1>0, <1>1, <1>8 DEF RunRecord
  <1> HIDE DEF r1
  <1>11. /\ r2 \in RunRecord /\ r2.pc = "passing" /\ r2.candidate = c /\ r2.kind = run[p].kind
         /\ r2.range = run[p].range /\ r2.tail = run[p].tail
    BY <1>10 DEF RunRecord
  <1> HIDE DEF r2
  <1>12. r2.kind = "full" /\ range # NoRange => Kept(c, range.start, compartments)
    BY <1>0, <1>2, <1>9, <1>11 DEF Keeps
  <1>13. r2.kind = "partial" => /\ Kept(c, r2.range.start, compartments)
                                /\ Tailed(r2.tail, r2.range.end, compartments)
                                /\ Among(r2.tail, compartments)
                                /\ range \in {r2.range, NoRange}
    BY <1>0, <1>2, <1>9, <1>11 DEF Keeps
  <1>14. Keeps(r2, range', compartments')
    BY <1>0, <1>11, <1>12, <1>13 DEF Keeps
  <1> QED
    BY <1>0, <1>7, <1>11, <1>14, KeepOwnStep

\* A full recomp goes on to promote its candidate.
LEMMA FullPromotesKept ==
    ASSUME RecompInv, RecompInv', KeepInv, NEW p \in Procs, run[p].pc = "passing", run[p].kind = "full",
           MoveRun(p, "promoting"), UNCHANGED <<compartments, range>>
    PROVE  KeepInv'
  <1>1. TypeOK /\ Keeps(run[p], range, compartments)
    BY UnderWay DEF KeepInv
  <1>2. PICK r \in RunRecord :
           /\ run' = [run EXCEPT ![p] = r] /\ r.pc = "promoting" /\ r.candidate = run[p].candidate
           /\ r.kind = "full"
    BY <1>1, MovedRun DEF RunStates
  <1>3. Keeps(r, range', compartments')
    BY <1>1, <1>2 DEF Keeps
  <1> QED
    BY <1>2, <1>3, KeepOwnStep

LEMMA FinishPartialKept ==
    ASSUME RecompInv, RecompInv', KeepInv, NEW p \in Procs, FinishPartial(p)
    PROVE  KeepInv'
  <1>0. UNCHANGED <<compartments, range>> /\ run[p].pc = "passing" /\ run[p].kind = "partial"
    BY DEF FinishPartial
  <1>1. /\ TypeOK /\ run \in [Procs -> RunRecord] /\ run[p] \in RunRecord
        /\ compartments \in Seq(Row) /\ ContiguousFrom(compartments, 1)
        /\ run[p].candidate \in Seq(Row) /\ run[p].tail \in Seq(Row) /\ run[p].range \in Ranges
    BY UnderWay DEF validateStoredCompartments
  <1>2. /\ Kept(run[p].candidate, run[p].range.start, compartments)
        /\ Tailed(run[p].tail, run[p].range.end, compartments) /\ Among(run[p].tail, compartments)
        /\ range \in {run[p].range, NoRange}
    BY <1>0 DEF KeepInv, Keeps
  <1> DEFINE merged == run[p].candidate \o run[p].tail
  <1>3. \/ MoveRun(p, "cleanup") /\ UNCHANGED <<staging, stagedPass>>
        \/ /\ validateStoredCompartments(merged)
           /\ run' = [run EXCEPT ![p].pc = "promoting", ![p].candidate = merged]
    BY DEF FinishPartial
  <1>4. CASE MoveRun(p, "cleanup") /\ UNCHANGED <<staging, stagedPass>>
    BY <1>0, <1>4, KeepEndStep
  <1>5. CASE /\ validateStoredCompartments(merged)
             /\ run' = [run EXCEPT ![p].pc = "promoting", ![p].candidate = merged]
    <2> DEFINE r1 == [run[p] EXCEPT !.pc = "promoting"]
               r2 == [r1 EXCEPT !.candidate = merged]
    <2>1. run' = [run EXCEPT ![p] = r2]
      BY <1>1, <1>5
    <2>2. merged \in Seq(Row)
      BY <1>1, Joined
    <2>3. Tailed(merged, run[p].range.end, compartments)
      BY <1>1, <1>2, HasJoined DEF Tailed
    <2>4. Kept(merged, run[p].range.start, compartments)
      BY <1>1, <1>2, PartIsKept, KeptJoined
    <2> HIDE DEF merged
    <2>5. r1 \in RunRecord /\ r1.pc = "promoting" /\ r1.kind = "partial" /\ r1.range = run[p].range
      BY <1>0, <1>1 DEF RunRecord, RunStates
    <2> HIDE DEF r1
    <2>6. /\ r2 \in RunRecord /\ r2.pc = "promoting" /\ r2.candidate = merged
          /\ r2.kind = "partial" /\ r2.range = run[p].range
      BY <2>2, <2>5 DEF RunRecord
    <2> HIDE DEF r2
    <2>7. Keeps(r2, range', compartments')
      BY <1>0, <1>2, <2>3, <2>4, <2>6 DEF Keeps
    <2> QED
      BY <1>0, <2>1, <2>6, <2>7, KeepOwnStep
  <1> HIDE DEF merged
  <1> QED
    BY <1>3, <1>4, <1>5

\* Every step that stays within a recomp.
LEMMA RunStepKept ==
    ASSUME RecompInv, RecompInv', KeepInv, NEW p \in Procs, run[p].pc # "idle",
           \/ FullReads(p) \/ PartialReads(p) \/ PartialRefused(p) \/ PartialSeeds(p)
           \/ PartialMarksRange(p) \/ Pass(p) \/ PassFails(p) \/ RunThrows(p) \/ FinishFull(p)
           \/ FinishPartial(p) \/ Promote(p) \/ PromoteRefused(p) \/ PartialUnmarksRange(p) \/ Cleanup(p)
    PROVE  KeepInv'
  <1>1. Over(p) \in {"unmarking", "cleanup", "releasing"}
    BY DEF Over
  <1>2. CASE PartialRefused(p) \/ RunThrows(p) \/ PromoteRefused(p)
    <2>1. \E pc \in {"unmarking", "cleanup", "releasing"} : MoveRun(p, pc)
      BY <1>1, <1>2 DEF PartialRefused, RunThrows, PromoteRefused
    <2>2. UNCHANGED <<compartments, staging, range>>
      BY <1>2 DEF PartialRefused, RunThrows, PromoteRefused
    <2> QED
      BY <2>1, <2>2, KeepEndStep
  <1>3. CASE PartialUnmarksRange(p)
    <2>1. MoveRun(p, "cleanup") /\ range' = NoRange
      BY <1>3 DEF PartialUnmarksRange
    <2> QED
      BY <2>1, KeepEndStep
  <1>4. CASE Cleanup(p)
    <2>1. /\ MoveRun(p, "releasing") /\ UNCHANGED compartments
          /\ staging' = <<>> \/ UNCHANGED <<staging, range>>
      BY <1>4 DEF Cleanup, ClearStaging
    <2> QED
      BY <2>1, KeepEndStep
  <1>5. CASE PassFails(p)
    <2>1. run[p].pc = "passing" /\ UNCHANGED <<compartments, range>>
      BY <1>5 DEF PassFails
    <2>2. CASE run[p].kind = "full" /\ MoveRun(p, "promoting")
      BY <2>1, <2>2, FullPromotesKept
    <2>3. CASE MoveRun(p, Over(p)) /\ UNCHANGED staging
      BY <1>1, <2>1, <2>3, KeepEndStep
    <2> QED
      BY <1>5, <2>2, <2>3 DEF PassFails
  <1>6. CASE FinishFull(p)
    <2>1. run[p].pc = "passing" /\ run[p].kind = "full" /\ UNCHANGED compartments
      BY <1>6 DEF FinishFull
    <2>2. CASE UNCHANGED range /\ MoveRun(p, "promoting")
      BY <2>1, <2>2, FullPromotesKept
    <2>3. CASE staging' = <<>> /\ MoveRun(p, "releasing")
      BY <2>3, KeepEndStep
    <2> QED
      BY <1>6, <2>2, <2>3 DEF FinishFull, ClearStaging
  <1>7. CASE Promote(p)
    <2>1. staging' = <<>>
      BY <1>7 DEF Promote
    <2>2. \E pc \in {"unmarking", "cleanup", "releasing"} : MoveRun(p, pc)
      BY <1>7 DEF Promote
    <2> QED
      BY <2>1, <2>2, KeepEndStep
  <1> QED
    BY <1>2, <1>3, <1>4, <1>5, <1>6, <1>7, FullReadsKept, PartialReadsKept, PartialSeedsKept,
       PassKept, FinishPartialKept

\* A recomp begins, or ends with its finally or with its process.
LEMMA StartStopKept ==
    ASSUME RecompInv, KeepInv, NEW p \in Procs,
           StartFull(p) \/ StartPartial(p) \/ ReleaseLease(p) \/ Crash(p)
    PROVE  KeepInv'
  <1>1. UNCHANGED <<compartments, staging, range>> /\ run \in [Procs -> RunRecord]
    BY UnderWay DEF StartFull, StartPartial, ReleaseLease, Crash
  <1>2. \A q \in Procs \ {p} : run[q].pc = "idle"
    <2>1. CASE StartFull(p) \/ StartPartial(p)
      <3>1. IsFree(lease)
        BY <2>1 DEF StartFull, StartPartial
      <3> QED
        BY <3>1, FreeMeansIdle, IsFreeToAll
    <2>2. CASE ReleaseLease(p) \/ Crash(p)
      <3>1. run[p].pc # "idle"
        BY <2>2 DEF ReleaseLease, Crash
      <3> QED
        BY <3>1, OthersIdle
    <2> QED
      BY <2>1, <2>2
  <1>3. PICK r : run' = [run EXCEPT ![p] = r] /\ r.pc \in {"idle", "reading"}
    <2>1. CASE StartFull(p)
      <3>1. PICK last \in 0..MaxRaw :
               run' = [run EXCEPT ![p] = [IdleRun EXCEPT !.pc = "reading", !.range = [start |-> 1, end |-> last]]]
        BY <2>1 DEF StartFull
      <3>2. [IdleRun EXCEPT !.pc = "reading", !.range = [start |-> 1, end |-> last]].pc = "reading"
        BY DEF IdleRun
      <3> QED
        BY <3>1, <3>2
    <2>2. CASE StartPartial(p)
      <3>1. PICK start \in 1..MaxRaw, end \in 1..MaxRaw :
               run' = [run EXCEPT ![p] = [IdleRun EXCEPT !.pc = "reading", !.kind = "partial",
                                            !.range = [start |-> start, end |-> end]]]
        BY <2>2 DEF StartPartial
      <3>2. [IdleRun EXCEPT !.pc = "reading", !.kind = "partial",
                            !.range = [start |-> start, end |-> end]].pc = "reading"
        BY DEF IdleRun
      <3> QED
        BY <3>1, <3>2
    <2>3. CASE ReleaseLease(p) \/ Crash(p)
      <3>1. run' = [run EXCEPT ![p] = IdleRun] /\ IdleRun.pc = "idle"
        BY <2>3 DEF ReleaseLease, Crash, IdleRun
      <3> QED
        BY <3>1
    <2> QED
      BY <2>1, <2>2, <2>3
  <1>4. \A q \in Procs : run'[q].pc \in {"idle", "reading", "unmarking", "cleanup", "releasing"}
    BY <1>1, <1>2, <1>3
  <1> QED
    BY <1>1, <1>4, KeepQuietStep

\* Incremental runs, the reminder and the clock.
LEMMA EnvironmentKept ==
    ASSUME RecompInv, KeepInv, Environment \/ \E p \in Procs : RenewLease(p)
    PROVE  KeepInv'
  <1>1. CASE Tick \/ \E p \in Procs : RenewLease(p)
    <2>1. UNCHANGED <<compartments, staging, range, run>>
      BY <1>1 DEF Tick, RenewLease
    <2> QED
      BY <2>1 DEF KeepInv, StagedKept
  <1>2. CASE UpgradeClearsStaging
    <2>1. staging' = <<>> /\ range' = NoRange /\ UNCHANGED <<compartments, run>>
      BY <1>2 DEF UpgradeClearsStaging, ClearStaging
    <2>2. ASSUME NEW q \in Procs
          PROVE  Keeps(run'[q], range', compartments')
      <3>1. Keeps(run[q], range, compartments)
        BY DEF KeepInv
      <3>2. Keeps(run[q], NoRange, compartments)
        BY <3>1 DEF Keeps
      <3> QED
        BY <2>1, <3>2
    <2> QED
      BY <2>1, <2>2 DEF KeepInv, StagedKept
  <1>3. CASE IncrementalPublishes
    <2>1. IsFree(lease) /\ UNCHANGED <<staging, range, run>>
      BY <1>3 DEF IncrementalPublishes
    <2>2. \A p \in Procs : run'[p].pc = "idle"
      BY <2>1, IsFreeToAll, FreeMeansIdle
    <2>3. compartments \in Seq(Row) /\ staging \in Seq(Row)
      BY DEF RecompInv, TypeOK
    <2> DEFINE f == LastEnd(compartments) + 1
    <2>4. PICK ends \in EndLists(f, MaxRaw) : compartments' = compartments \o Built(f, ends, "incremental")
      BY <1>3 DEF IncrementalPublishes
    <2>5. LastEnd(compartments) \in 0..MaxRaw /\ MaxRaw \in Nat /\ f \in Nat /\ f >= 1
      BY <2>3, LastEndIs, BoundAssumption
    <2> HIDE DEF f
    <2>6. f \in 1..MaxRaw /\ MaxRaw \in 0..MaxRaw
      <3>1. Len(ends) \in 1..(MaxRaw + 1 - f)
        BY <2>5, EndListsType
      <3> QED
        BY <2>5, <3>1
    <2>7. Built(f, ends, "incremental") \in Seq(Row)
      BY <2>6, BuiltIs
    <2>8. StagedKept'
      <3> SUFFICES ASSUME staging # <<>>, range # NoRange
                   PROVE  Kept(staging, range.start, compartments')
        BY <2>1 DEF StagedKept
      <3>1. Kept(staging, range.start, compartments)
        BY DEF KeepInv, StagedKept
      <3> QED
        BY <2>3, <2>4, <2>7, <3>1, KeptGrows
    <2>9. \A q \in Procs : Keeps(run'[q], range', compartments')
      BY <2>2, QuietKeeps
    <2> QED
      BY <2>8, <2>9 DEF KeepInv
  <1> QED
    BY <1>1, <1>2, <1>3 DEF Environment

LEMMA StepKept ==
    ASSUME RecompInv, RecompInv', KeepInv, [Next]_vars
    PROVE  KeepInv'
  <1>1. CASE UNCHANGED vars
    BY <1>1 DEF vars, KeepInv, StagedKept
  <1>2. CASE Environment
    BY <1>2, EnvironmentKept
  <1>3. ASSUME NEW p \in Procs, Crash(p) \/ RunStep(p)
        PROVE  KeepInv'
    <2>1. CASE StartFull(p) \/ StartPartial(p) \/ ReleaseLease(p) \/ Crash(p)
      BY <2>1, StartStopKept
    <2>2. CASE RenewLease(p)
      BY <2>2, EnvironmentKept
    <2>3. CASE \/ FullReads(p) \/ PartialReads(p) \/ PartialRefused(p) \/ PartialSeeds(p)
               \/ PartialMarksRange(p) \/ Pass(p) \/ PassFails(p) \/ RunThrows(p) \/ FinishFull(p)
               \/ FinishPartial(p) \/ Promote(p) \/ PromoteRefused(p) \/ PartialUnmarksRange(p) \/ Cleanup(p)
      <3>1. run[p].pc # "idle"
        BY <2>3 DEF FullReads, PartialReads, PartialRefused, PartialSeeds, PartialMarksRange, Pass,
                    PassFails, RunThrows, FinishFull, FinishPartial, Promote, PromoteRefused,
                    PartialUnmarksRange, Cleanup
      <3> QED
        BY <2>3, <3>1, RunStepKept
    <2> QED
      BY <1>3, <2>1, <2>2, <2>3 DEF RunStep
  <1> QED
    BY <1>1, <1>2, <1>3 DEF Next

LEMMA InitKept == Init => KeepInv
  <1> SUFFICES ASSUME Init PROVE KeepInv
    OBVIOUS
  <1>1. staging = <<>> /\ run = [p \in Procs |-> IdleRun]
    BY DEF Init
  <1>2. \A p \in Procs : run[p].pc = "idle"
    BY <1>1 DEF IdleRun
  <1> QED
    BY <1>1, <1>2, QuietKeeps DEF KeepInv, StagedKept

LEMMA KeepIsSound ==
    ASSUME Procs \subseteq Punctual
    PROVE  Spec => [](RecompInv /\ KeepInv)
  <1>1. Init => RecompInv /\ KeepInv
    BY InitRecomp, InitKept
  <1>2. (RecompInv /\ KeepInv) /\ [Next]_vars => (RecompInv /\ KeepInv)'
    BY StepRecomp, StepKept
  <1> QED
    BY <1>1, <1>2, PTL DEF Spec

\* A partial recomp preserves every compartment before and after its range:
\* those rows are in the list that its promotion swaps in, although that list
\* may begin with rows that an earlier process staged before it died, and
\* although incremental runs published in between.  Excepted is a promotion of
\* rows that a full recomp staged (AdoptsFull).
THEOREM PartialKeepsOutside ==
    ASSUME Procs \subseteq Punctual
    PROVE  Spec => PartialPreserves
  <1>1. RecompInv /\ KeepInv /\ [Next]_vars =>
           [\A p \in Procs : PartialPromotes(p) /\ ~AdoptsFull =>
               \A i \in 1..Len(compartments) :
                   ~Overlaps(compartments[i], run[p].range.start, run[p].range.end) =>
                       compartments[i] \in Range(compartments')]_vars
    <2> SUFFICES ASSUME RecompInv, KeepInv, Next, NEW p \in Procs, PartialPromotes(p), ~AdoptsFull,
                        NEW i \in 1..Len(compartments),
                        ~Overlaps(compartments[i], run[p].range.start, run[p].range.end)
                 PROVE  compartments[i] \in Range(compartments')
      OBVIOUS
    <2>1. Promote(p) /\ run[p].kind = "partial"
      BY OnlyPromote DEF PartialPromotes
    <2>2. run[p].pc = "promoting" /\ staging # <<>> /\ compartments' = staging
      BY <2>1 DEF Promote
    <2>3. /\ compartments \in Seq(Row) /\ ContiguousFrom(compartments, 1)
          /\ staging \in Seq(Row) /\ run[p].range \in Ranges
          /\ Staged(run[p], staging) /\ Reaches(run[p], compartments)
      BY UnderWay DEF validateStoredCompartments
    <2>4. staging = run[p].candidate /\ ContiguousFrom(staging, 1)
      BY <2>2, <2>3 DEF Staged, validateStoredCompartments
    <2>5. LastEnd(staging) = LastEnd(compartments)
      BY <2>1, <2>2, <2>3, <2>4 DEF Reaches
    <2>6. /\ Kept(staging, run[p].range.start, compartments)
          /\ Tailed(staging, run[p].range.end, compartments)
      BY <2>1, <2>2, <2>4 DEF KeepInv, Keeps
    <2>7. \A j \in 1..Len(staging) : staging[j].gen = "full" => Has(compartments, staging[j])
      <3> SUFFICES ASSUME NEW j \in 1..Len(staging), staging[j].gen = "full"
                   PROVE  Has(compartments, staging[j])
        OBVIOUS
      <3>1. staging[j] \in Range(compartments)
        BY DEF AdoptsFull
      <3>2. PICK k \in DOMAIN compartments : compartments[k] = staging[j]
        BY <3>1 DEF Range
      <3>3. k \in 1..Len(compartments)
        BY <2>3, LenProperties
      <3> QED
        BY <3>2, <3>3 DEF Has
    <2>8. Has(staging, compartments[i])
      BY <2>3, <2>4, <2>5, <2>6, <2>7, OutsideIsKept
    <2>9. PICK k \in 1..Len(staging) : staging[k] = compartments[i]
      BY <2>8 DEF Has
    <2>10. k \in DOMAIN staging
      BY <2>3, LenProperties
    <2> QED
      BY <2>2, <2>9, <2>10 DEF Range
  <1> QED
    BY <1>1, KeepIsSound, PTL DEF Spec, PartialPreserves

=============================================================================
