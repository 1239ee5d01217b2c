---------------------------- MODULE CompartmentRanges ----------------------------
(***************************************************************************)
(* Compartments and the list that getCompartments returns: the rows of one *)
(* session ordered by sequence.  A compartment keeps its sequence number   *)
(* and the range of raw message ordinals it stands for; titles, tiers and  *)
(* scores are left out.                                                    *)
(***************************************************************************)
EXTENDS Naturals, Sequences

Compartment == [sequence : Nat, startMessage : Nat, endMessage : Nat]

\* The last raw message ordinal the list covers; 0 for an empty list.
LastEnd(list) == IF list = <<>> THEN 0 ELSE list[Len(list)].endMessage

\* validateStoredCompartments: every range starts where the one before it
\* stopped, beginning at first, and no range is empty.
ContiguousFrom(list, first) ==
    \A i \in 1..Len(list) :
        /\ list[i].startMessage = IF i = 1 THEN first ELSE list[i-1].endMessage + 1
        /\ list[i].startMessage <= list[i].endMessage

validateStoredCompartments(list) == ContiguousFrom(list, 1)

\* Rows are numbered without a gap, beginning at n.
NumberedFrom(list, n) == \A i \in 1..Len(list) : list[i].sequence = n + i - 1

\* MAX(sequence) + 1, the number the next appended row takes.
NextSequence(list) ==
    IF list = <<>> THEN 0
    ELSE (CHOOSE m \in {list[i].sequence : i \in 1..Len(list)} :
             \A i \in 1..Len(list) : list[i].sequence <= m) + 1

\* The rows that split first .. ends[n] at the given increasing end ordinals.
Split(first, ends, n) ==
    [i \in DOMAIN ends |->
        [sequence     |-> n + i - 1,
         startMessage |-> IF i = 1 THEN first ELSE ends[i-1] + 1,
         endMessage   |-> ends[i]]]

\* Increasing end ordinals of at most last - first + 1 rows within first .. last.
EndLists(first, last) ==
    {ends \in UNION {[1..n -> first..last] : n \in 1..(last + 1 - first)} :
        \A i \in 2..Len(ends) : ends[i-1] < ends[i]}

=============================================================================
