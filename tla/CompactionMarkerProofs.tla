------------------------- MODULE CompactionMarkerProofs -------------------------
(***************************************************************************)
(* What is proved about the compaction marker, for any number of           *)
(* processes, messages and crashes.                                        *)
(*                                                                         *)
(* A message keeps its place and its ordinal as long as it is present: the *)
(* host appends, and a revert takes a suffix.  An end that was published   *)
(* with an ordinal therefore still has that ordinal, or its message is     *)
(* gone and fewer messages than that are left before it.                   *)
(***************************************************************************)
EXTENDS CompactionMarker, FiniteSetTheorems, WellFoundedInduction, TLAPS

----------------------------------------------------------------------------
(* Places and ordinals *)

\* The number of messages of P up to m.
Count(P, m) == Cardinality({k \in P : k <= m})

\* A set of places that is not empty has a newest one.
LEMMA MaximumIs ==
    ASSUME NEW S \in SUBSET (0..MaxMessage), S # {}
    PROVE  Maximum(S) \in S /\ \A k \in S : k <= Maximum(S)
  <1> DEFINE T == {MaxMessage - k : k \in S}
  <1>1. MaxMessage \in Nat
    BY MarkerAssumption
  <1>2. T \subseteq Nat /\ T # {}
    <2>1. \A k \in 0..MaxMessage : MaxMessage - k \in Nat
      BY <1>1
    <2> QED
      BY <2>1
  <1>3. PICK x \in T : \A y \in T : ~(<<y, x>> \in OpToRel(<, Nat))
    <2> HIDE DEF T
    <2> QED
      BY <1>2, WFMin, NatLessThanWellFounded
  <1>4. \A y \in T : ~(y < x)
    BY <1>2, <1>3 DEF OpToRel
  <1>5. PICK m \in S : x = MaxMessage - m
    BY <1>3
  <1>6. ASSUME NEW k \in S
        PROVE  k <= m
    <2>1. ~(MaxMessage - k < MaxMessage - m)
      BY <1>4, <1>5
    <2>2. k \in 0..MaxMessage /\ m \in 0..MaxMessage
      OBVIOUS
    <2> QED
      BY <1>1, <2>1, <2>2
  <1> QED
    BY <1>6 DEF Maximum

\* Counting messages.
LEMMA CountIs ==
    ASSUME NEW P \in SUBSET Messages, NEW m \in 0..MaxMessage, NEW n \in 0..MaxMessage
    PROVE  /\ Count(P, m) \in 0..MaxMessage
           /\ m <= n => Count(P, m) <= Count(P, n)
           /\ m < n /\ n \in P => Count(P, m) < Count(P, n)
  <1> DEFINE U(k) == {j \in P : j <= k}
  <1>1. MaxMessage \in Nat /\ 1 \in Int /\ MaxMessage \in Int
    BY MarkerAssumption
  <1>2. IsFiniteSet(Messages) /\ Cardinality(Messages) = MaxMessage
    BY <1>1, FS_Interval, MarkerAssumption DEF Messages
  <1>3. \A k \in 0..MaxMessage : IsFiniteSet(U(k)) /\ Cardinality(U(k)) \in 0..MaxMessage
    <2> SUFFICES ASSUME NEW k \in 0..MaxMessage
                 PROVE  IsFiniteSet(U(k)) /\ Cardinality(U(k)) \in 0..MaxMessage
      OBVIOUS
    <2>1. U(k) \in SUBSET Messages
      OBVIOUS
    <2>2. IsFiniteSet(U(k)) /\ Cardinality(U(k)) <= MaxMessage
      BY <1>2, <2>1, FS_Subset
    <2>3. Cardinality(U(k)) \in Nat
      BY <2>2, FS_CardinalityType
    <2> QED
      BY <1>1, <2>2, <2>3
  <1>4. ASSUME m <= n
        PROVE  Cardinality(U(m)) <= Cardinality(U(n)) /\ (Cardinality(U(n)) = Cardinality(U(m)) => U(n) = U(m))
    <2>1. U(m) \in SUBSET U(n)
      <3>1. \A j \in 1..MaxMessage : j <= m => j <= n
        BY <1>1, <1>4
      <3> QED
        BY <3>1 DEF Messages
    <2> QED
      BY <1>3, <2>1, FS_Subset
  <1>5. ASSUME m < n, n \in P
        PROVE  Cardinality(U(m)) < Cardinality(U(n))
    <2>1. n \in U(n) /\ n \notin U(m)
      BY <1>5
    <2>2. Cardinality(U(m)) <= Cardinality(U(n)) /\ Cardinality(U(n)) # Cardinality(U(m))
      BY <1>4, <1>5, <2>1
    <2> QED
      BY <1>3, <2>2
  <1> QED
    BY <1>3, <1>4, <1>5 DEF Count

----------------------------------------------------------------------------
(* Ends *)

\* Each end with the ordinal of its message, if that is still there.
Numbered ==
    \A e \in ends : /\ e.id \in 1..last
                    /\ Count(present, e.id) <= e.ordinal
                    /\ e.id \in present => Count(present, e.id) = e.ordinal

\* Ordinals and places agree.
InOrder(E) == \A e, f \in E : e.ordinal <= f.ordinal => e.id <= f.id

Newest(E) == IF E = {} THEN NoEnd ELSE CHOOSE e \in E : \A f \in E : f.ordinal <= e.ordinal

\* The last end is one with the greatest ordinal.
LEMMA LastEndOf ==
    ASSUME NEW E \in SUBSET End, E # {}
    PROVE  LET e == CHOOSE e \in E : \A f \in E : f.ordinal <= e.ordinal
           IN  e \in E /\ \A f \in E : f.ordinal <= e.ordinal
  <1> DEFINE S == {e.ordinal : e \in E}
  <1>1. S \in SUBSET (0..MaxMessage) /\ S # {}
    BY DEF End
  <1>2. Maximum(S) \in S /\ \A k \in S : k <= Maximum(S)
    BY <1>1, MaximumIs
  <1>3. PICK e \in E : e.ordinal = Maximum(S)
    BY <1>2
  <1>4. \A f \in E : f.ordinal <= e.ordinal
    BY <1>2, <1>3
  <1> QED
    BY <1>4

LEMMA NewestIs ==
    ASSUME NEW E \in SUBSET End, InOrder(E)
    PROVE  /\ Newest(E) \in End
           /\ \A e \in E : e.ordinal <= Newest(E).ordinal /\ e.id <= Newest(E).id
           /\ E # {} => Newest(E) \in E
  <1>1. CASE E = {}
    BY <1>1, MarkerAssumption DEF Newest, NoEnd, End
  <1>2. CASE E # {}
    <2>1. Newest(E) \in E /\ \A f \in E : f.ordinal <= Newest(E).ordinal
      BY <1>2, LastEndOf DEF Newest
    <2> QED
      BY <2>1 DEF InOrder
  <1> QED
    BY <1>1, <1>2

----------------------------------------------------------------------------
(* Types *)

RunRecord == [pc : RunStates, kind : RunKinds, target : End,
              existing : Owned, boundary : 0..MaxMessage, foreign : SUBSET Lineage]

\* The empty values have their types.
LEMMA EmptyValues == NoEnd \in End /\ NoMarker \in Owned /\ IdleRun \in RunRecord
  BY MarkerAssumption DEF NoEnd, End, NoMarker, Owned, IdleRun, RunRecord, RunStates, RunKinds

\* A boundary is a present user message up to the target, the newest of them.
LEMMA BoundaryIs ==
    ASSUME present \subseteq Messages, NEW target \in 0..MaxMessage
    PROVE  /\ FindBoundary(target) \in 0..MaxMessage
           /\ FindBoundary(target) # 0 =>
                 /\ target \in present
                 /\ FindBoundary(target) \in present \cap Users /\ FindBoundary(target) <= target
                 /\ \A m \in present \cap Users : m <= target => m <= FindBoundary(target)
  <1> DEFINE S == {0} \cup {m \in present \cap Users : m <= target}
  <1>1. MaxMessage \in Nat /\ 0 \in 0..MaxMessage /\ \A m \in Messages : m \in 0..MaxMessage
    BY MarkerAssumption DEF Messages
  <1>2. S \in SUBSET (0..MaxMessage) /\ S # {}
    BY <1>1
  <1>3. Maximum(S) \in S /\ \A k \in S : k <= Maximum(S)
    <2> HIDE DEF S
    <2> QED
      BY <1>2, MaximumIs
  <1>4. FindBoundary(target) = IF target \in present THEN Maximum(S) ELSE 0
    BY DEF FindBoundary
  <1> QED
    BY <1>1, <1>2, <1>3, <1>4

\* The three outcomes of a decision.
LEMMA DecideIs ==
    ASSUME NEW p \in Procs, NEW kind \in {"drain", "recomp"}, NEW target \in End, TypeOK,
           Decide(p, kind, target)
    PROVE  \E r \in RunRecord :
              /\ run' = [run EXCEPT ![p] = r]
              /\ \/ r = IdleRun
                 \/ r.pc = "clearing" /\ Covers(owned, target) /\ r.target = target /\ r.kind = kind
                 \/ /\ r.pc \in {"injecting", "removing"} /\ ~Covers(owned, target)
                    /\ r.boundary = FindBoundary(target.id) /\ r.boundary # 0
                    /\ r.target = target /\ r.kind = kind
  <1> DEFINE Made(pc, b) == [pc |-> pc, kind |-> kind, target |-> target, existing |-> owned,
                             boundary |-> b, foreign |-> {}]
  <1>1. \A pc, b : [IdleRun EXCEPT !.pc = pc, !.kind = kind, !.target = target,
                                   !.existing = owned, !.boundary = b] = Made(pc, b)
    <2> TAKE pc, b
    <2> DEFINE r1 == [IdleRun EXCEPT !.pc = pc]
               r2 == [r1 EXCEPT !.kind = kind]
               r3 == [r2 EXCEPT !.target = target]
               r4 == [r3 EXCEPT !.existing = owned]
    <2>1. r1 = [pc |-> pc, kind |-> "drain", target |-> NoEnd, existing |-> NoMarker,
                boundary |-> 0, foreign |-> {}]
      BY DEF IdleRun
    <2> HIDE DEF r1
    <2>2. r2 = [pc |-> pc, kind |-> kind, target |-> NoEnd, existing |-> NoMarker,
                boundary |-> 0, foreign |-> {}]
      BY <2>1
    <2> HIDE DEF r2
    <2>3. r3 = [pc |-> pc, kind |-> kind, target |-> target, existing |-> NoMarker,
                boundary |-> 0, foreign |-> {}]
      BY <2>2
    <2> HIDE DEF r3
    <2>4. r4 = [pc |-> pc, kind |-> kind, target |-> target, existing |-> owned,
                boundary |-> 0, foreign |-> {}]
      BY <2>3
    <2> HIDE DEF r4
    <2>5. [r4 EXCEPT !.boundary = b] = Made(pc, b)
      BY <2>4
    <2> HIDE DEF Made
    <2> QED
      BY <2>5 DEF r1, r2, r3, r4
  <1>2. \/ run' = [run EXCEPT ![p] = IdleRun]
        \/ Covers(owned, target) /\ run' = [run EXCEPT ![p] = Made("clearing", 0)]
        \/ \E pc \in {"injecting", "removing"} :
              /\ ~Covers(owned, target) /\ FindBoundary(target.id) # 0
              /\ run' = [run EXCEPT ![p] = Made(pc, FindBoundary(target.id))]
    <2> HIDE DEF Made
    <2> QED
      BY <1>1 DEF Decide, Return
  <1>3. present \subseteq Messages /\ owned \in Owned
    BY MarkerAssumption DEF TypeOK, Messages
  <1>4. FindBoundary(target.id) \in 0..MaxMessage
    BY <1>3, BoundaryIs DEF End
  <1>5. \A pc \in RunStates, b \in 0..MaxMessage : Made(pc, b) \in RunRecord
    BY <1>3 DEF RunRecord, RunKinds
  <1>6. {"clearing", "injecting", "removing"} \subseteq RunStates /\ 0 \in 0..MaxMessage
    BY MarkerAssumption DEF RunStates
  <1>7. CASE run' = [run EXCEPT ![p] = IdleRun]
    BY <1>7, EmptyValues
  <1>8. CASE Covers(owned, target) /\ run' = [run EXCEPT ![p] = Made("clearing", 0)]
    <2>1. Made("clearing", 0) \in RunRecord
      BY <1>5, <1>6
    <2>2. Made("clearing", 0).pc = "clearing" /\ Made("clearing", 0).target = target /\ Made("clearing", 0).kind = kind
      OBVIOUS
    <2> HIDE DEF Made
    <2> QED
      BY <1>8, <2>1, <2>2
  <1>9. ASSUME NEW pc \in {"injecting", "removing"}, ~Covers(owned, target), FindBoundary(target.id) # 0,
               run' = [run EXCEPT ![p] = Made(pc, FindBoundary(target.id))]
        PROVE  \E r \in RunRecord :
                  /\ run' = [run EXCEPT ![p] = r]
                  /\ r.pc \in {"injecting", "removing"} /\ r.boundary = FindBoundary(target.id)
                  /\ r.target = target /\ r.kind = kind
    <2> DEFINE b == FindBoundary(target.id)
    <2>1. Made(pc, b) \in RunRecord
      BY <1>4, <1>5, <1>6
    <2>2. /\ Made(pc, b).pc = pc /\ Made(pc, b).boundary = b
          /\ Made(pc, b).target = target /\ Made(pc, b).kind = kind
      OBVIOUS
    <2> HIDE DEF Made
    <2> QED
      BY <1>9, <2>1, <2>2
  <1> HIDE DEF Made
  <1> QED
    BY <1>2, <1>7, <1>8, <1>9

----------------------------------------------------------------------------
(* What a step does to an operation *)

\* An operation that has decided on a marker and has not recorded it yet.
Moving == {"removing", "forgetting", "injecting", "persisting"}

\* An operation goes on with the marker it has decided on.
GoesOn(q) ==
    run[q].pc \in Moving /\ run'[q].boundary = run[q].boundary /\ run'[q].target = run[q].target

\* An operation decides on a marker for a published end.
Decides(q) ==
    /\ run'[q].target \in ends' /\ run'[q].target.id \in present
    /\ run'[q].boundary = FindBoundary(run'[q].target.id) /\ run'[q].boundary # 0
    /\ ~Covers(owned, run'[q].target)
    /\ present' = present /\ last' = last /\ owned' = owned

RunsStep == /\ run' \in [Procs -> RunRecord]
            /\ \A q \in Procs : run'[q].pc \in Moving => GoesOn(q) \/ Decides(q)

\* The operations of the others stay.
LEMMA SetRun ==
    ASSUME TypeOK, NEW p \in Procs, NEW r \in RunRecord, run' = [run EXCEPT ![p] = r]
    PROVE  /\ run' \in [Procs -> RunRecord] /\ run'[p] = r
           /\ \A q \in Procs \ {p} : run'[q] = run[q]
  BY DEF TypeOK, RunRecord

LEMMA GotoIs ==
    ASSUME TypeOK, NEW p \in Procs, NEW pc \in RunStates, Goto(p, pc)
    PROVE  /\ run' \in [Procs -> RunRecord]
           /\ run'[p].pc = pc /\ run'[p].boundary = run[p].boundary /\ run'[p].target = run[p].target
           /\ run'[p].kind = run[p].kind
           /\ \A q \in Procs \ {p} : run'[q] = run[q]
  <1> DEFINE r == [run[p] EXCEPT !.pc = pc]
  <1>1. run \in [Procs -> RunRecord]
    BY DEF TypeOK, RunRecord
  <1>2. run[p] \in RunRecord
    BY <1>1
  <1>3. r \in RunRecord /\ r.pc = pc /\ r.boundary = run[p].boundary /\ r.target = run[p].target
        /\ r.kind = run[p].kind
    BY <1>2 DEF RunRecord
  <1>4. run' = [run EXCEPT ![p] = r]
    BY <1>1 DEF Goto
  <1> HIDE DEF r
  <1> QED
    BY <1>3, <1>4, SetRun

\* An operation that ends, or that is not about a marker, decides nothing.
LEMMA NotMoving ==
    ASSUME TypeOK, NEW p \in Procs, NEW r \in RunRecord, r.pc \notin Moving,
           run' = [run EXCEPT ![p] = r]
    PROVE  RunsStep
  BY SetRun DEF RunsStep, GoesOn

LEMMA GoesTo ==
    ASSUME TypeOK, NEW p \in Procs, NEW pc \in RunStates, Goto(p, pc),
           pc \in Moving => run[p].pc \in Moving
    PROVE  RunsStep
  BY GotoIs DEF RunsStep, GoesOn

LEMMA SameRuns ==
    ASSUME TypeOK, run' = run
    PROVE  RunsStep
  BY DEF RunsStep, GoesOn, TypeOK, RunRecord

LEMMA DecisionSteps ==
    ASSUME TypeOK, NEW p \in Procs, NEW kind \in {"drain", "recomp"}, NEW target \in End,
           Decide(p, kind, target), target \in ends', UNCHANGED <<present, last, owned>>
    PROVE  RunsStep
  <1>1. PICK r \in RunRecord :
           /\ run' = [run EXCEPT ![p] = r]
           /\ \/ r = IdleRun
              \/ r.pc = "clearing"
              \/ /\ r.pc \in {"injecting", "removing"} /\ ~Covers(owned, target)
                 /\ r.boundary = FindBoundary(target.id) /\ r.boundary # 0
                 /\ r.target = target
    BY DecideIs
  <1>2. CASE r = IdleRun \/ r.pc = "clearing"
    <2>1. r.pc \notin Moving
      BY <1>2 DEF IdleRun, Moving
    <2> QED
      BY <1>1, <2>1, NotMoving
  <1>3. CASE /\ ~Covers(owned, target)
             /\ r.boundary = FindBoundary(target.id) /\ r.boundary # 0
             /\ r.target = target
    <2>1. /\ run' \in [Procs -> RunRecord] /\ run'[p] = r
          /\ \A q \in Procs \ {p} : run'[q] = run[q]
      BY <1>1, SetRun
    <2>2. target.id \in present
      <3>1. present \subseteq Messages
        BY MarkerAssumption DEF TypeOK, Messages
      <3>2. target.id \in 0..MaxMessage
        BY DEF End
      <3> QED
        BY <1>3, <3>1, <3>2, BoundaryIs
    <2>3. Decides(p)
      BY <1>3, <2>1, <2>2 DEF Decides
    <2>4. \A q \in Procs \ {p} : run'[q].pc \in Moving => GoesOn(q)
      BY <2>1 DEF GoesOn
    <2> QED
      BY <2>1, <2>3, <2>4 DEF RunsStep
  <1> QED
    BY <1>1, <1>2, <1>3

\* A drop is not about a marker that is still to be recorded.
LEMMA DroppingIs ==
    ASSUME TypeOK, NEW kind \in {"removal", "compacted", "startup"}
    PROVE  Dropping(kind) \in RunRecord /\ Dropping(kind).pc \notin Moving
  <1> DEFINE r1 == [IdleRun EXCEPT !.pc = "dropping"]
             r2 == [r1 EXCEPT !.kind = kind]
             r3 == [r2 EXCEPT !.existing = owned]
  <1>1. r1 \in RunRecord /\ r1.pc = "dropping"
    BY EmptyValues DEF RunRecord, RunStates
  <1> HIDE DEF r1
  <1>2. r2 \in RunRecord /\ r2.pc = "dropping"
    BY <1>1 DEF RunRecord, RunKinds
  <1> HIDE DEF r2
  <1>3. r3 \in RunRecord /\ r3.pc \notin Moving
    BY <1>2 DEF RunRecord, Moving, TypeOK
  <1>4. Dropping(kind) = r3
    BY DEF Dropping, r1, r2
  <1> HIDE DEF r3
  <1> QED
    BY <1>3, <1>4

\* Every step.
LEMMA RunsTakeSteps ==
    ASSUME TypeOK, [Next]_vars
    PROVE  RunsStep
  <1>0. run \in [Procs -> RunRecord] /\ pending \in End
    BY DEF TypeOK, RunRecord
  <1>1. CASE run' = run
    BY <1>1, SameRuns
  <1>2. ASSUME NEW p \in Procs, NEW S \in SUBSET Messages, RecompPublishes(p, S)
        PROVE  RunsStep
    <2>1. /\ S # {} /\ S \subseteq present /\ ends' = {EndAt(m) : m \in S}
          /\ Decide(p, "recomp", EndAt(Maximum(S))) /\ UNCHANGED <<present, last, owned>>
      BY <1>2 DEF RecompPublishes, host
    <2>2. Maximum(S) \in S /\ Maximum(S) \in 0..MaxMessage
      <3>1. S \in SUBSET (0..MaxMessage)
        BY MarkerAssumption DEF Messages
      <3> QED
        BY <2>1, <3>1, MaximumIs
    <2>3. EndAt(Maximum(S)) \in End
      <3>1. present \in SUBSET Messages
        BY MarkerAssumption DEF TypeOK, Messages
      <3>2. Count(present, Maximum(S)) \in 0..MaxMessage
        BY <2>2, <3>1, CountIs
      <3> QED
        BY <2>2, <3>2 DEF EndAt, Ordinal, Count, End
    <2> QED
      BY <2>1, <2>2, <2>3, DecisionSteps
  <1>3. ASSUME NEW p \in Procs, DrainReads(p)
        PROVE  RunsStep
    <2>1. CASE ValidTarget(pending) /\ Decide(p, "drain", pending)
      <3>1. pending \in ends
        BY <2>1 DEF ValidTarget
      <3>2. pending \in ends' /\ UNCHANGED <<present, last, owned>>
        BY <1>3, <3>1 DEF DrainReads, host, context
      <3> QED
        BY <1>0, <2>1, <3>2, DecisionSteps
    <2>2. CASE run' = [run EXCEPT ![p] = [IdleRun EXCEPT !.pc = "clearing", !.target = pending]]
      <3> DEFINE r == [pc |-> "clearing", kind |-> "drain", target |-> pending, existing |-> NoMarker,
                       boundary |-> 0, foreign |-> {}]
      <3>1. [IdleRun EXCEPT !.pc = "clearing", !.target = pending] = r
        <4> DEFINE r1 == [IdleRun EXCEPT !.pc = "clearing"]
        <4>1. r1 = [pc |-> "clearing", kind |-> "drain", target |-> NoEnd, existing |-> NoMarker,
                    boundary |-> 0, foreign |-> {}]
          BY DEF IdleRun
        <4> HIDE DEF r1
        <4>2. [r1 EXCEPT !.target = pending] = r
          BY <4>1
        <4> HIDE DEF r
        <4> QED
          BY <4>2 DEF r1
      <3>2. r \in RunRecord /\ r.pc \notin Moving
        BY <1>0, EmptyValues, MarkerAssumption DEF RunRecord, RunStates, RunKinds, Moving
      <3> HIDE DEF r
      <3> QED
        BY <2>2, <3>1, <3>2, NotMoving
    <2> QED
      BY <1>3, <2>1, <2>2 DEF DrainReads
  <1>4. ASSUME NEW p \in Procs, Move(p)
        PROVE  RunsStep
    <2>1. CASE RemoveOld(p)
      <3>1. \E pc \in {"injecting", "forgetting"} : Goto(p, pc)
        BY <2>1 DEF RemoveOld
      <3>2. run[p].pc \in Moving
        BY <2>1 DEF RemoveOld, Moving
      <3> QED
        BY <3>1, <3>2, GoesTo DEF RunStates
    <2>2. CASE Forget(p)
      <3>1. Goto(p, "injecting") /\ run[p].pc \in Moving
        BY <2>2 DEF Forget, Moving
      <3> QED
        BY <3>1, GoesTo DEF RunStates
    <2>3. CASE Inject(p)
      <3>1. Goto(p, "persisting") /\ run[p].pc \in Moving
        BY <2>3 DEF Inject, Moving
      <3> QED
        BY <3>1, GoesTo DEF RunStates
    <2>4. CASE Persist(p)
      <3>1. Goto(p, "clearing") /\ run[p].pc \in Moving
        BY <2>4 DEF Persist, Moving
      <3> QED
        BY <3>1, GoesTo DEF RunStates
    <2>5. CASE ClearPending(p)
      <3>1. run' = [run EXCEPT ![p] = IdleRun]
        BY <2>5 DEF ClearPending, Return
      <3> QED
        BY <3>1, NotMoving, EmptyValues DEF IdleRun, Moving
    <2> QED
      BY <1>4, <2>1, <2>2, <2>3, <2>4, <2>5 DEF Move
  <1>5. ASSUME NEW p \in Procs, run' = [run EXCEPT ![p] = IdleRun]
        PROVE  RunsStep
    BY <1>5, NotMoving, EmptyValues DEF IdleRun, Moving
  <1>6. ASSUME NEW p \in Procs, NEW busting \in BOOLEAN, Rebuild(p, busting), run' # run
        PROVE  RunsStep
    <2> DEFINE r == [pc |-> "reconciling", kind |-> "reconcile", target |-> NoEnd, existing |-> owned,
                     boundary |-> 0, foreign |-> Outranking]
    <2>1. run' = [run EXCEPT ![p] = r]
      <3> DEFINE r1 == [IdleRun EXCEPT !.pc = "reconciling"]
                 r2 == [r1 EXCEPT !.kind = "reconcile"]
                 r3 == [r2 EXCEPT !.existing = owned]
      <3>1. r1 = [pc |-> "reconciling", kind |-> "drain", target |-> NoEnd, existing |-> NoMarker,
                  boundary |-> 0, foreign |-> {}]
        BY DEF IdleRun
      <3> HIDE DEF r1
      <3>2. r2 = [pc |-> "reconciling", kind |-> "reconcile", target |-> NoEnd, existing |-> NoMarker,
                  boundary |-> 0, foreign |-> {}]
        BY <3>1
      <3> HIDE DEF r2
      <3>3. r3 = [pc |-> "reconciling", kind |-> "reconcile", target |-> NoEnd, existing |-> owned,
                  boundary |-> 0, foreign |-> {}]
        BY <3>2
      <3> HIDE DEF r3
      <3>4. [r3 EXCEPT !.foreign = Outranking] = r
        BY <3>3
      <3> HIDE DEF r
      <3> QED
        BY <1>6, <3>4 DEF Rebuild, r1, r2, r3
    <2>2. Outranking \subseteq Lineage /\ owned \in Owned
      BY DEF Outranking, TypeOK
    <2>3. r \in RunRecord /\ r.pc \notin Moving
      BY <2>2, EmptyValues, MarkerAssumption DEF RunRecord, RunStates, RunKinds, Moving
    <2> HIDE DEF r
    <2> QED
      BY <2>1, <2>3, NotMoving
  <1>7. ASSUME NEW p \in Procs, Reconcile(p)
        PROVE  RunsStep
    <2>0. run[p] \in RunRecord /\ owned \in Owned
      BY <1>0 DEF TypeOK
    <2>1. ASSUME NEW l \in run[p].foreign, RereadOwned(p, l)
          PROVE  RunsStep
      <3> DEFINE r1 == [run[p] EXCEPT !.pc = "deleting"]
                 r2 == [r1 EXCEPT !.existing = owned]
                 r3 == [r2 EXCEPT !.boundary = l.boundary]
                 s  == [run[p] EXCEPT !.foreign = @ \ {l}]
      <3>1. CASE run' = [run EXCEPT ![p].pc = "deleting", ![p].existing = owned, ![p].boundary = l.boundary]
        <4>1. r1 \in RunRecord /\ r1.pc = "deleting"
          BY <2>0 DEF RunRecord, RunStates
        <4> HIDE DEF r1
        <4>2. r2 \in RunRecord /\ r2.pc = "deleting"
          BY <2>0, <4>1 DEF RunRecord
        <4> HIDE DEF r2
        <4>3. l.boundary \in 0..MaxMessage
          BY <2>0, MarkerAssumption DEF RunRecord, Lineage, Messages
        <4>4. r3 \in RunRecord /\ r3.pc \notin Moving
          BY <4>2, <4>3 DEF RunRecord, Moving
        <4>5. run' = [run EXCEPT ![p] = r3]
          BY <1>0, <3>1 DEF r1, r2
        <4> HIDE DEF r3
        <4> QED
          BY <4>4, <4>5, NotMoving
      <3>2. CASE run' = [run EXCEPT ![p].foreign = @ \ {l}]
        <4>1. s \in RunRecord /\ s.pc = run[p].pc
          BY <2>0 DEF RunRecord
        <4>2. run' = [run EXCEPT ![p] = s]
          BY <1>0, <3>2
        <4>3. run[p].pc \notin Moving
          BY <2>1 DEF RereadOwned, Moving
        <4> HIDE DEF s
        <4> QED
          BY <4>1, <4>2, <4>3, NotMoving
      <3> QED
        BY <2>1, <3>1, <3>2 DEF RereadOwned
    <2>2. CASE DeleteForeign(p)
      <3> DEFINE doomed == {l \in run[p].foreign : l.boundary = run[p].boundary}
                 r1 == [run[p] EXCEPT !.pc = "reconciling"]
                 r2 == [r1 EXCEPT !.foreign = @ \ doomed]
      <3>1. r1 \in RunRecord /\ r1.pc = "reconciling"
        BY <2>0 DEF RunRecord, RunStates
      <3> HIDE DEF r1, doomed
      <3>2. r2 \in RunRecord /\ r2.pc \notin Moving
        BY <3>1 DEF RunRecord, Moving
      <3>3. run' = [run EXCEPT ![p] = r2]
        BY <1>0, <2>2 DEF DeleteForeign, r1, doomed
      <3> HIDE DEF r2
      <3> QED
        BY <3>2, <3>3, NotMoving
    <2>3. CASE Reconciled(p)
      BY <1>5, <2>3 DEF Reconciled, Return
    <2> QED
      BY <1>7, <2>1, <2>2, <2>3 DEF Reconcile
  <1>8. ASSUME NEW p \in Procs, Crash(p)
        PROVE  RunsStep
    <2> DEFINE r == [IdleRun EXCEPT !.pc = "down"]
    <2>1. r \in RunRecord /\ r.pc \notin Moving
      BY EmptyValues DEF RunRecord, RunStates, Moving
    <2>2. run' = [run EXCEPT ![p] = r]
      BY <1>8 DEF Crash
    <2> HIDE DEF r
    <2> QED
      BY <2>1, <2>2, NotMoving
  <1>9. CASE \/ UNCHANGED vars \/ MessageArrives \/ \E m \in Messages : Revert(m) \/ Publish(m)
             \/ \E l \in summaries : DeleteSummary(l)
             \/ \E p \in Procs : Materialize(p) \/ ClearCache(p)
    BY <1>1, <1>9 DEF vars, MessageArrives, Revert, Publish, DeleteSummary, Materialize, ClearCache
  <1>10. ASSUME NEW p \in Procs, NEW kind \in {"removal", "compacted", "startup"},
                run' = [run EXCEPT ![p] = Dropping(kind)]
         PROVE  RunsStep
    BY <1>10, DroppingIs, NotMoving
  <1>11. ASSUME NEW p \in Procs, OnMessageRemoved(p) \/ Restart(p)
         PROVE  RunsStep
    BY <1>1, <1>5, <1>10, <1>11 DEF OnMessageRemoved, Restart, Return
  <1>12. ASSUME NEW p \in Procs, OnCompacted(p)
         PROVE  RunsStep
    <2> DEFINE r1 == [IdleRun EXCEPT !.pc = "clearing"]
               r2 == [r1 EXCEPT !.kind = "compacted"]
    <2>1. r1 \in RunRecord /\ r1.pc = "clearing"
      BY EmptyValues DEF RunRecord, RunStates
    <2> HIDE DEF r1
    <2>2. r2 \in RunRecord /\ r2.pc \notin Moving
      BY <2>1 DEF RunRecord, RunKinds, Moving
    <2>3. [IdleRun EXCEPT !.pc = "clearing", !.kind = "compacted"] = r2
      BY DEF r1
    <2> HIDE DEF r2
    <2>4. run' = [run EXCEPT ![p] = Dropping("compacted")] \/ run' = [run EXCEPT ![p] = r2]
      BY <1>12, <2>3 DEF OnCompacted
    <2> QED
      BY <1>10, <2>2, <2>4, NotMoving
  <1>13. ASSUME NEW p \in Procs, NEW pc \in {"dropped", "clearing"}, Goto(p, pc)
         PROVE  RunsStep
    BY <1>13, GoesTo DEF RunStates, Moving
  <1>14. ASSUME NEW p \in Procs, Drop(p) \/ StepFails(p)
         PROVE  RunsStep
    BY <1>5, <1>13, <1>14 DEF Drop, DropRows, DropRecord, StepFails, Return
  <1> QED
    BY <1>1, <1>2, <1>3, <1>4, <1>6, <1>7, <1>8, <1>9, <1>11, <1>12, <1>14 DEF Next

----------------------------------------------------------------------------
(* What a step does to the messages *)

\* Messages are appended, and taken from the end: one that stays keeps its
\* ordinal, one that is gone does not come back.
HostStep ==
    /\ last <= last' /\ last' \in Messages /\ present' \subseteq 1..last'
    /\ \A m \in 1..last : /\ m \in present' => m \in present
                          /\ Count(present', m) <= Count(present, m)
                          /\ m \in present' => Count(present', m) = Count(present, m)

LEMMA HostTakesSteps ==
    ASSUME TypeOK, [Next]_vars
    PROVE  HostStep
  <1>0. /\ present \subseteq 1..last /\ last \in 1..MaxMessage /\ MaxMessage \in Nat
        /\ present \in SUBSET Messages
    BY MarkerAssumption DEF TypeOK, Messages
  <1>1. CASE UNCHANGED <<present, last>>
    <2>1. \A m \in 1..last : Count(present, m) \in 0..MaxMessage
      BY <1>0, CountIs
    <2> QED
      BY <1>0, <1>1, <2>1 DEF HostStep, Messages
  <1>2. CASE MessageArrives
    <2>1. last' = last + 1 /\ present' = present \cup {last'} /\ last < MaxMessage
      BY <1>2 DEF MessageArrives
    <2>2. ASSUME NEW m \in 1..last
          PROVE  /\ Count(present, m) \in 0..MaxMessage
                 /\ (m \in present' => m \in present) /\ Count(present', m) = Count(present, m)
      <3>1. {k \in present' : k <= m} = {k \in present : k <= m}
        BY <1>0, <2>1
      <3>2. m \in present' => m \in present
        BY <1>0, <2>1
      <3>3. m \in 0..MaxMessage
        BY <1>0
      <3>4. Count(present, m) \in 0..MaxMessage
        BY <1>0, <3>3, CountIs
      <3> QED
        BY <3>1, <3>2, <3>4 DEF Count
    <2>3. last <= last' /\ last' \in Messages /\ present' \subseteq 1..last'
      BY <1>0, <2>1 DEF Messages
    <2> QED
      BY <2>2, <2>3 DEF HostStep
  <1>3. ASSUME NEW c \in Messages, Revert(c)
        PROVE  HostStep
    <2>1. last' = last /\ present' = {k \in present : k < c}
      BY <1>3 DEF Revert
    <2>2. ASSUME NEW m \in 1..last
          PROVE  /\ Count(present', m) <= Count(present, m)
                 /\ m \in present' => Count(present', m) = Count(present, m)
      <3>1. {k \in present' : k <= m} \in SUBSET {k \in present : k <= m}
        BY <2>1
      <3>2. IsFiniteSet({k \in present : k <= m})
        <4>1. IsFiniteSet(1..last)
          BY <1>0, FS_Interval
        <4>2. {k \in present : k <= m} \in SUBSET (1..last)
          BY <1>0
        <4> QED
          BY <4>1, <4>2, FS_Subset
      <3>3. Count(present', m) <= Count(present, m)
        BY <3>1, <3>2, FS_Subset DEF Count
      <3>4. ASSUME m \in present'
            PROVE  {k \in present' : k <= m} = {k \in present : k <= m}
        <4>1. m < c /\ c \in Int /\ m \in Int
          BY <2>1, <3>4 DEF Messages
        <4>2. \A k \in 1..last : k <= m => k < c
          BY <4>1
        <4>3. \A k \in present : k <= m => k \in present'
          BY <1>0, <2>1, <4>2
        <4>4. present' \subseteq present
          BY <2>1
        <4> QED
          BY <4>3, <4>4
      <3> QED
        BY <3>3, <3>4 DEF Count
    <2>3. last <= last' /\ last' \in Messages /\ present' \subseteq 1..last'
      <3>1. present' \subseteq present
        BY <2>1
      <3>2. last <= last' /\ last' \in Messages
        BY <1>0, <2>1 DEF Messages
      <3> QED
        BY <1>0, <2>1, <3>1, <3>2
    <2> QED
      BY <2>1, <2>2, <2>3 DEF HostStep
  <1>4. ASSUME NEW p \in Procs, Move(p)
        PROVE  UNCHANGED <<present, last>>
    BY <1>4 DEF Move, RemoveOld, Forget, Inject, Persist, ClearPending, host, context
  <1>5. ASSUME NEW p \in Procs, Reconcile(p)
        PROVE  UNCHANGED <<present, last>>
    BY <1>5 DEF Reconcile, RereadOwned, DeleteForeign, Reconciled, host, context
  <1>6. ASSUME NEW p \in Procs,
               \/ \E S \in SUBSET Messages : RecompPublishes(p, S)
               \/ DrainReads(p) \/ StepFails(p) \/ Drop(p) \/ Materialize(p) \/ ClearCache(p)
               \/ \E busting \in BOOLEAN : Rebuild(p, busting)
               \/ OnMessageRemoved(p) \/ OnCompacted(p) \/ Crash(p) \/ Restart(p)
        PROVE  UNCHANGED <<present, last>>
    BY <1>6 DEF RecompPublishes, DrainReads, StepFails, Drop, DropRows, DropRecord, Materialize, ClearCache,
                Rebuild, OnMessageRemoved, OnCompacted, Crash, Restart, host, context
  <1>7. ASSUME NEW m \in Messages, Publish(m)
        PROVE  UNCHANGED <<present, last>>
    BY <1>7 DEF Publish, host
  <1>8. CASE UNCHANGED vars \/ \E l \in summaries : DeleteSummary(l)
    BY <1>1, <1>8 DEF vars, DeleteSummary
  <1> QED
    BY <1>1, <1>2, <1>3, <1>4, <1>5, <1>6, <1>7, <1>8 DEF Next

----------------------------------------------------------------------------
(* What a step does to the ends *)

\* What the two publications do; nothing else touches the compartments.
Published ==
    \E m \in present : Count(present, m) > Newest(ends).ordinal /\ ends' = ends \cup {EndAt(m)}

Rebuilt ==
    \E S \in SUBSET present :
       /\ S # {} /\ ends' = {EndAt(m) : m \in S}
       /\ Shorter \/ {m \in present : m <= Newest(ends).id} \subseteq 1..Maximum(S)

LEMMA EndsTakeSteps ==
    ASSUME TypeOK, [Next]_vars
    PROVE  ends' = ends \/ (UNCHANGED <<present, last>> /\ (Published \/ Rebuilt))
  <1>1. ASSUME NEW p \in Procs, Move(p)
        PROVE  ends' = ends
    BY <1>1 DEF Move, RemoveOld, Forget, Inject, Persist, ClearPending, host, context
  <1>2. ASSUME NEW p \in Procs, Reconcile(p)
        PROVE  ends' = ends
    BY <1>2 DEF Reconcile, RereadOwned, DeleteForeign, Reconciled, host, context
  <1>3. ASSUME NEW p \in Procs,
               \/ DrainReads(p) \/ StepFails(p) \/ Drop(p) \/ Materialize(p) \/ ClearCache(p)
               \/ \E busting \in BOOLEAN : Rebuild(p, busting)
               \/ OnMessageRemoved(p) \/ OnCompacted(p) \/ Crash(p) \/ Restart(p)
        PROVE  ends' = ends
    BY <1>3 DEF DrainReads, StepFails, Drop, DropRows, DropRecord, Materialize, ClearCache, Rebuild,
                OnMessageRemoved, OnCompacted, Crash, Restart, host, context
  <1>4. ASSUME NEW m \in Messages, Publish(m)
        PROVE  UNCHANGED <<present, last>> /\ Published
    BY <1>4 DEF Publish, host, Published, Count, Ordinal, LastEnd, Newest
  <1>5. ASSUME NEW p \in Procs, NEW S \in SUBSET Messages, RecompPublishes(p, S)
        PROVE  UNCHANGED <<present, last>> /\ Rebuilt
    BY <1>5 DEF RecompPublishes, host, Rebuilt, LastEnd, Newest
  <1>6. ASSUME \/ UNCHANGED vars \/ MessageArrives \/ \E m \in Messages : Revert(m)
               \/ \E l \in summaries : DeleteSummary(l)
        PROVE  ends' = ends
    BY <1>6 DEF vars, MessageArrives, Revert, DeleteSummary, context
  <1> QED
    BY <1>1, <1>2, <1>3, <1>4, <1>5, <1>6 DEF Next

\* The end at a present message is numbered.
LEMMA EndAtIs ==
    ASSUME TypeOK, NEW m \in present
    PROVE  /\ EndAt(m) \in End /\ EndAt(m).id = m /\ EndAt(m).ordinal = Count(present, m)
           /\ m \in 1..last /\ m \in 0..MaxMessage
  <1>1. m \in 1..last /\ m \in 0..MaxMessage /\ present \in SUBSET Messages
    BY MarkerAssumption DEF TypeOK, Messages
  <1>2. Count(present, m) \in 0..MaxMessage
    BY <1>1, CountIs
  <1> QED
    BY <1>1, <1>2 DEF EndAt, Ordinal, Count, End

\* Every step keeps the ends numbered and in order.
LEMMA EndsStay ==
    ASSUME TypeOK, Numbered, InOrder(ends), [Next]_vars
    PROVE  ends' \subseteq End /\ Numbered' /\ InOrder(ends')
  <1>0. /\ ends \in SUBSET End /\ present \in SUBSET Messages /\ MaxMessage \in Nat
        /\ last \in 1..MaxMessage
    BY MarkerAssumption DEF TypeOK, Messages
  <1>1. CASE ends' = ends
    <2>1. HostStep
      BY HostTakesSteps
    <2>2. ASSUME NEW e \in ends'
          PROVE  /\ e.id \in 1..last'
                 /\ Count(present', e.id) <= e.ordinal
                 /\ e.id \in present' => Count(present', e.id) = e.ordinal
      <3>1. /\ e.id \in 1..last /\ Count(present, e.id) <= e.ordinal
            /\ e.id \in present => Count(present, e.id) = e.ordinal
        BY <1>1 DEF Numbered
      <3>2. /\ e.id \in present' => e.id \in present
            /\ Count(present', e.id) <= Count(present, e.id)
            /\ e.id \in present' => Count(present', e.id) = Count(present, e.id)
            /\ last <= last' /\ last' \in Messages /\ present' \subseteq 1..last'
        BY <2>1, <3>1 DEF HostStep
      <3>3. e.ordinal \in Nat
        BY <1>0, <1>1 DEF End
      <3>4. e.id \in 0..MaxMessage /\ present' \in SUBSET Messages
        BY <1>0, <3>1, <3>2 DEF Messages
      <3>5. Count(present, e.id) \in Nat /\ Count(present', e.id) \in Nat
        BY <1>0, <3>4, CountIs
      <3>6. e.id \in 1..last'
        BY <1>0, <3>1, <3>2 DEF Messages
      <3> QED
        BY <3>1, <3>2, <3>3, <3>5, <3>6
    <2> QED
      BY <1>0, <1>1, <2>2 DEF Numbered
  <1>2. CASE UNCHANGED <<present, last>> /\ Published
    <2>1. PICK m \in present : Count(present, m) > Newest(ends).ordinal /\ ends' = ends \cup {EndAt(m)}
      BY <1>2 DEF Published
    <2> DEFINE n == EndAt(m)
    <2>2. n \in End /\ n.id = m /\ n.ordinal = Count(present, m) /\ m \in 1..last /\ m \in 0..MaxMessage
      BY EndAtIs
    <2>3. /\ Newest(ends) \in End
          /\ \A e \in ends : e.ordinal <= Newest(ends).ordinal
      BY <1>0, NewestIs
    <2> HIDE DEF n
    <2>4. ASSUME NEW e \in ends
          PROVE  e.ordinal < n.ordinal /\ e.id <= n.id
      <3>1. e \in End /\ e.id \in 1..last /\ Count(present, e.id) <= e.ordinal
        BY <1>0 DEF Numbered
      <3>2. e.ordinal \in Nat /\ n.ordinal \in Nat /\ Newest(ends).ordinal \in Nat
        BY <2>2, <2>3, <3>1 DEF End
      <3>3. e.ordinal < n.ordinal
        BY <2>1, <2>2, <2>3, <3>2
      <3>4. e.id \in 0..MaxMessage
        BY <1>0, <3>1
      <3>5. /\ Count(present, e.id) \in Nat /\ Count(present, m) \in Nat
            /\ m <= e.id => Count(present, m) <= Count(present, e.id)
        BY <1>0, <2>2, <3>4, CountIs
      <3>6. ~(m <= e.id)
        BY <2>2, <3>1, <3>2, <3>3, <3>5
      <3> QED
        BY <1>0, <2>2, <3>1, <3>3, <3>6
    <2>5. ends' = ends \cup {n}
      BY <2>1 DEF n
    <2>6. Numbered'
      <3>1. Count(present, n.id) = n.ordinal /\ n.ordinal \in Nat /\ n.id \in 1..last
        BY <2>2 DEF End
      <3> QED
        BY <1>2, <2>5, <3>1 DEF Numbered
    <2>7. InOrder(ends')
      <3>1. n.ordinal \in Nat /\ n.id \in Nat
        BY <2>2 DEF End
      <3>2. \A e \in ends : e.ordinal \in Nat /\ e.id \in Nat
        BY <1>0 DEF End
      <3> QED
        BY <2>4, <2>5, <3>1, <3>2 DEF InOrder
    <2> QED
      BY <1>0, <2>2, <2>5, <2>6, <2>7
  <1>3. CASE UNCHANGED <<present, last>> /\ Rebuilt
    <2>1. PICK S \in SUBSET present : ends' = {EndAt(m) : m \in S}
      BY <1>3 DEF Rebuilt
    <2>2. \A e \in ends' : \E m \in S : e = EndAt(m)
      BY <2>1
    <2>3. ASSUME NEW e \in ends'
          PROVE  /\ e \in End /\ e.id \in present /\ e.id \in 1..last /\ e.id \in 0..MaxMessage
                 /\ Count(present, e.id) = e.ordinal
      BY <2>2, EndAtIs
    <2>4. Numbered'
      <3>1. \A e \in ends' : e.ordinal \in Nat
        BY <2>3 DEF End
      <3> QED
        BY <1>3, <2>3, <3>1 DEF Numbered
    <2>5. InOrder(ends')
      <3>1. SUFFICES ASSUME NEW e \in ends', NEW f \in ends', e.ordinal <= f.ordinal
                     PROVE  e.id <= f.id
        BY DEF InOrder
      <3>2. /\ f.id < e.id => Count(present, f.id) < Count(present, e.id)
            /\ Count(present, f.id) \in Nat /\ Count(present, e.id) \in Nat
        BY <1>0, <2>3, CountIs
      <3>3. ~(f.id < e.id)
        BY <2>3, <3>1, <3>2
      <3>4. e.id \in Nat /\ f.id \in Nat
        BY <2>3
      <3> QED
        BY <3>3, <3>4
    <2> QED
      BY <2>3, <2>4, <2>5
  <1> QED
    BY <1>1, <1>2, <1>3, EndsTakeSteps

\* A place that is covered, or gone.
Behind(b) == b \in present => b <= Newest(ends).id

\* If a recomp covers what was covered, a covered place stays covered.
LEMMA BehindStays ==
    ASSUME TypeOK, Numbered, InOrder(ends), ~Shorter, [Next]_vars, NEW b \in 1..last, Behind(b)
    PROVE  Behind(b)'
  <1> SUFFICES ASSUME b \in present'
               PROVE  b <= Newest(ends').id
    BY DEF Behind
  <1>0. /\ ends \in SUBSET End /\ ends' \in SUBSET End /\ InOrder(ends')
        /\ present \in SUBSET Messages /\ MaxMessage \in Nat
    BY MarkerAssumption, EndsStay DEF TypeOK, Messages
  <1>1. b \in present /\ b <= Newest(ends).id
    <2>1. HostStep
      BY HostTakesSteps
    <2> QED
      BY <2>1 DEF HostStep, Behind
  <1>2. CASE ends' = ends
    BY <1>1, <1>2
  <1>3. CASE Published
    <2>1. Newest(ends) \in ends'
      <3>1. ends # {}
        <4>1. ends = {} => Newest(ends).id = 0
          BY DEF Newest, NoEnd
        <4> QED
          BY <1>1, <4>1
      <3> QED
        BY <1>0, <1>3, <3>1, NewestIs DEF Published
    <2>2. Newest(ends).id <= Newest(ends').id /\ Newest(ends').id \in Nat /\ Newest(ends).id \in Nat
      <3>1. Newest(ends) \in End /\ Newest(ends') \in End /\ Newest(ends).id <= Newest(ends').id
        BY <1>0, <2>1, NewestIs
      <3> QED
        BY <3>1 DEF End
    <2> QED
      BY <1>1, <2>2
  <1>4. CASE Rebuilt
    <2>1. PICK S \in SUBSET present :
             /\ S # {} /\ ends' = {EndAt(m) : m \in S}
             /\ {m \in present : m <= Newest(ends).id} \subseteq 1..Maximum(S)
      BY <1>4 DEF Rebuilt
    <2>2. b <= Maximum(S)
      BY <1>1, <2>1
    <2>3. Maximum(S) \in S
      <3>1. S \in SUBSET (0..MaxMessage)
        BY <1>0 DEF Messages
      <3> QED
        BY <2>1, <3>1, MaximumIs
    <2>4. EndAt(Maximum(S)) \in ends' /\ EndAt(Maximum(S)).id = Maximum(S) /\ Maximum(S) \in Nat
      BY <2>1, <2>3, EndAtIs
    <2>5. EndAt(Maximum(S)).id <= Newest(ends').id /\ Newest(ends') \in End
      BY <1>0, <2>4, NewestIs
    <2>6. Newest(ends').id \in Nat
      BY <2>5 DEF End
    <2> QED
      BY <2>2, <2>4, <2>5, <2>6
  <1> QED
    BY <1>2, <1>3, <1>4, EndsTakeSteps

----------------------------------------------------------------------------
(* What a step does to the rows and to the record *)

\* Rows are only written by an operation that injects, and a marker is only
\* recorded by one that has injected it.
RowsStep ==
    \/ parts' \subseteq parts /\ summaries' \subseteq summaries
    \/ \E p \in Procs : run[p].pc = "injecting" /\ InjectRows(RowsOf(Replacement(p)))

OwnedStep ==
    \/ owned' \in {owned, NoMarker}
    \/ \E p \in Procs : run[p].pc = "persisting" /\ owned' = Replacement(p) /\ present' = present

LEMMA RowsTakeSteps ==
    ASSUME [Next]_vars
    PROVE  RowsStep /\ OwnedStep
  <1>1. ASSUME NEW p \in Procs, Move(p)
        PROVE  RowsStep /\ OwnedStep
    <2>1. CASE RemoveOld(p)
      BY <2>1 DEF RemoveOld, RemoveRows, RowsStep, OwnedStep, context
    <2>2. CASE Forget(p)
      BY <2>2 DEF Forget, RowsStep, OwnedStep, host
    <2>3. CASE Inject(p)
      BY <2>3 DEF Inject, RowsStep, OwnedStep, context
    <2>4. CASE Persist(p)
      BY <2>4 DEF Persist, RowsStep, OwnedStep, host
    <2>5. CASE ClearPending(p)
      BY <2>5 DEF ClearPending, RowsStep, OwnedStep, host
    <2> QED
      BY <1>1, <2>1, <2>2, <2>3, <2>4, <2>5 DEF Move
  <1>2. ASSUME NEW p \in Procs, Reconcile(p)
        PROVE  RowsStep /\ OwnedStep
    BY <1>2 DEF Reconcile, RereadOwned, DeleteForeign, Reconciled, host, context, RowsStep, OwnedStep
  <1>3. ASSUME NEW p \in Procs, Drop(p)
        PROVE  RowsStep /\ OwnedStep
    BY <1>3 DEF Drop, DropRows, DropRecord, RemoveRows, host, context, RowsStep, OwnedStep
  <1>4. ASSUME NEW p \in Procs,
               \/ \E S \in SUBSET Messages : RecompPublishes(p, S)
               \/ DrainReads(p) \/ StepFails(p) \/ Materialize(p) \/ ClearCache(p)
               \/ \E busting \in BOOLEAN : Rebuild(p, busting)
               \/ OnMessageRemoved(p) \/ OnCompacted(p) \/ Crash(p) \/ Restart(p)
        PROVE  RowsStep /\ OwnedStep
    BY <1>4 DEF RecompPublishes, DrainReads, StepFails, Materialize, ClearCache, Rebuild, OnMessageRemoved,
                OnCompacted, Crash, Restart, host, context, RowsStep, OwnedStep
  <1>5. ASSUME \/ UNCHANGED vars \/ MessageArrives
               \/ \E m \in Messages : Revert(m) \/ Publish(m)
               \/ \E l \in summaries : DeleteSummary(l)
        PROVE  RowsStep /\ OwnedStep
    BY <1>5 DEF vars, MessageArrives, Revert, Publish, DeleteSummary, host, context, RowsStep, OwnedStep
  <1> QED
    BY <1>1, <1>2, <1>3, <1>4, <1>5 DEF Next

\* What the other variables become.
LEMMA OtherTypes ==
    ASSUME TypeOK, [Next]_vars
    PROVE  pending' \in End /\ degraded' \in [Procs -> 0..2] /\ baseline' \subseteq 0..MaxMessage
  <1>0. /\ pending \in End /\ degraded \in [Procs -> 0..2] /\ baseline \subseteq 0..MaxMessage
        /\ ends \in SUBSET End
    BY DEF TypeOK
  <1>1. ASSUME NEW p \in Procs, Move(p)
        PROVE  pending' \in {pending, NoEnd} /\ degraded' = degraded /\ baseline' = baseline
    BY <1>1 DEF Move, RemoveOld, Forget, Inject, Persist, ClearPending, host, context
  <1>2. ASSUME NEW p \in Procs, Reconcile(p)
        PROVE  UNCHANGED <<pending, degraded, baseline>>
    BY <1>2 DEF Reconcile, RereadOwned, DeleteForeign, Reconciled, host, context
  <1>3. ASSUME NEW p \in Procs, OnMessageRemoved(p) \/ OnCompacted(p) \/ Crash(p) \/ ClearCache(p)
        PROVE  /\ UNCHANGED <<pending, baseline>>
               /\ degraded' = degraded \/ degraded' = [degraded EXCEPT ![p] = 0]
    BY <1>3 DEF OnMessageRemoved, OnCompacted, Crash, ClearCache, context
  <1>4. ASSUME NEW p \in Procs, NEW busting \in BOOLEAN, Rebuild(p, busting)
        PROVE  /\ UNCHANGED <<pending, baseline>>
               /\ degraded' = [degraded EXCEPT ![p] = Counted(p, TrimEnd(busting))]
    BY <1>4 DEF Rebuild, context
  <1>5. ASSUME NEW p \in Procs, Materialize(p)
        PROVE  UNCHANGED <<pending, degraded>> /\ baseline' = {LastEnd.id}
    BY <1>5 DEF Materialize
  <1>6. ASSUME NEW p \in Procs, NEW S \in SUBSET Messages, RecompPublishes(p, S)
        PROVE  UNCHANGED <<pending, degraded>> /\ baseline' = {}
    BY <1>6 DEF RecompPublishes
  <1>7. ASSUME NEW p \in Procs, DrainReads(p) \/ StepFails(p) \/ Drop(p) \/ Restart(p)
        PROVE  UNCHANGED <<pending, degraded, baseline>>
    BY <1>7 DEF DrainReads, StepFails, Drop, DropRows, DropRecord, Restart, context
  <1>8. ASSUME NEW m \in Messages, Publish(m)
        PROVE  pending' \in End /\ UNCHANGED <<degraded, baseline>>
    BY <1>8, EndAtIs DEF Publish
  <1>9. ASSUME \/ UNCHANGED vars \/ MessageArrives \/ \E m \in Messages : Revert(m)
               \/ \E l \in summaries : DeleteSummary(l)
        PROVE  UNCHANGED <<pending, degraded, baseline>>
    BY <1>9 DEF vars, MessageArrives, Revert, DeleteSummary, context
  <1>10. \A p \in Procs : [degraded EXCEPT ![p] = 0] \in [Procs -> 0..2]
    BY <1>0
  <1>11. \A p \in Procs : \A m : [degraded EXCEPT ![p] = Counted(p, m)] \in [Procs -> 0..2]
    <2>1. \A p \in Procs : \A m : Counted(p, m) \in 0..2
      BY DEF Counted
    <2> QED
      BY <1>0, <2>1
  <1>12. NoEnd \in End /\ LastEnd.id \in 0..MaxMessage
    <2>1. NoEnd \in End
      BY EmptyValues
    <2>2. LastEnd \in End
      BY <1>0, <2>1, LastEndOf DEF LastEnd
    <2> QED
      BY <2>1, <2>2 DEF End
  <1>13. pending' \in End
    BY <1>0, <1>1, <1>2, <1>3, <1>4, <1>5, <1>6, <1>7, <1>8, <1>9, <1>12 DEF Next
  <1>14. baseline' \subseteq 0..MaxMessage
    BY <1>0, <1>1, <1>2, <1>3, <1>4, <1>5, <1>6, <1>7, <1>8, <1>9, <1>12 DEF Next
  <1>15. degraded' \in [Procs -> 0..2]
    BY <1>0, <1>1, <1>2, <1>3, <1>4, <1>5, <1>6, <1>7, <1>8, <1>9, <1>10, <1>11 DEF Next
  <1> QED
    BY <1>13, <1>14, <1>15

\* The events are about messages that were there, and about rows that were.
LEMMA RemovedType ==
    ASSUME TypeOK, [Next]_vars
    PROVE  removed' \subseteq Removal
  <1>0. /\ removed \subseteq Removal /\ summaries \subseteq Lineage /\ present \subseteq Messages
        /\ MaxMessage \in Nat
    BY MarkerAssumption DEF TypeOK, Messages
  <1>1. \A m \in present : MessageGone(m) \in Removal
    BY <1>0 DEF MessageGone, Removal
  <1>2. \A l \in summaries : SummaryGone(l) \in Removal
    <2> SUFFICES ASSUME NEW l \in summaries
                 PROVE  SummaryGone(l) \in Removal
      OBVIOUS
    <2>1. l.boundary \in Messages /\ l.target \in 0..MaxMessage
      BY <1>0 DEF Lineage, Messages
    <2> QED
      BY <2>1 DEF SummaryGone, Removal
  <1>3. ASSUME NEW m \in Messages, Revert(m)
        PROVE  removed' \subseteq Removal
    BY <1>0, <1>1, <1>2, <1>3 DEF Revert
  <1>4. ASSUME NEW l \in summaries, DeleteSummary(l)
        PROVE  removed' \subseteq Removal
    BY <1>0, <1>2, <1>4 DEF DeleteSummary
  <1>5. ASSUME NEW p \in Procs, Move(p) \/ Drop(p) \/ Reconcile(p)
        PROVE  removed' = removed
    BY <1>5 DEF Move, RemoveOld, Forget, Inject, Persist, ClearPending, Drop, DropRows, DropRecord,
                Reconcile, RereadOwned, DeleteForeign, Reconciled
  <1>6. ASSUME NEW p \in Procs,
               \/ \E S \in SUBSET Messages : RecompPublishes(p, S)
               \/ DrainReads(p) \/ StepFails(p) \/ Materialize(p) \/ ClearCache(p)
               \/ \E busting \in BOOLEAN : Rebuild(p, busting)
               \/ OnMessageRemoved(p) \/ OnCompacted(p) \/ Crash(p) \/ Restart(p)
        PROVE  removed' \subseteq removed
    BY <1>6 DEF RecompPublishes, DrainReads, StepFails, Materialize, ClearCache, Rebuild, OnMessageRemoved,
                OnCompacted, Crash, Restart
  <1>7. ASSUME UNCHANGED vars \/ MessageArrives \/ \E m \in Messages : Publish(m)
        PROVE  removed' = removed
    BY <1>7 DEF vars, MessageArrives, Publish
  <1> QED
    BY <1>0, <1>3, <1>4, <1>5, <1>6, <1>7 DEF Next

----------------------------------------------------------------------------
(* The inductive invariant *)

\* A marker sits on a user message up to its target, and the target's ordinal
\* is not below its place.
Sound(b, t) ==
    b \in Users /\ b <= t.id /\ t.id \in 1..last /\ Count(present, t.id) <= t.ordinal

MarkerInv ==
    /\ TypeOK /\ Numbered /\ InOrder(ends)
    /\ owned = NoMarker \/ Sound(owned.boundary, owned.target)
    /\ \A p \in Procs : run[p].pc \in Moving => Sound(run[p].boundary, run[p].target)

LEMMA SoundStays ==
    ASSUME TypeOK, HostStep, NEW b, NEW t \in End, Sound(b, t)
    PROVE  b \in Users /\ b <= t.id /\ t.id \in 1..last' /\ Count(present', t.id) <= t.ordinal
  <1>1. /\ t.id \in 1..last /\ t.ordinal \in Nat /\ Count(present, t.id) <= t.ordinal
        /\ last \in 1..MaxMessage /\ MaxMessage \in Nat /\ present \in SUBSET Messages
    BY MarkerAssumption DEF Sound, End, TypeOK, Messages
  <1>2. last <= last' /\ last' \in 1..MaxMessage /\ present' \subseteq 1..last'
        /\ Count(present', t.id) <= Count(present, t.id)
    BY <1>1 DEF HostStep, Messages
  <1>3. t.id \in 0..MaxMessage /\ present' \in SUBSET Messages
    BY <1>1, <1>2 DEF Messages
  <1>4. Count(present, t.id) \in Nat /\ Count(present', t.id) \in Nat
    BY <1>1, <1>3, CountIs
  <1> QED
    BY <1>1, <1>2, <1>4 DEF Sound

LEMMA InitMarker == Init => MarkerInv
  <1> SUFFICES ASSUME Init PROVE MarkerInv
    OBVIOUS
  <1>0. MaxMessage \in Nat \ {0} /\ Forked \in BOOLEAN
    BY MarkerAssumption
  <1>1. last \in Messages
    BY <1>0 DEF Init, Messages
  <1>2. Inherited \subseteq Lineage
    <2>1. MaxMessage \in Messages
      BY <1>0 DEF Messages
    <2>2. [boundary |-> MaxMessage, target |-> MaxMessage, foreign |-> TRUE] \in Lineage
      BY <2>1 DEF Lineage
    <2> QED
      BY <2>2 DEF Inherited
  <1>3. TypeOK
    BY <1>1, <1>2, EmptyValues DEF Init, TypeOK, RunRecord, RunKinds
  <1>4. \A p \in Procs : run[p].pc \notin Moving
    BY DEF Init, IdleRun, Moving
  <1> QED
    BY <1>3, <1>4 DEF Init, MarkerInv, Numbered, InOrder

LEMMA StepMarker ==
    ASSUME MarkerInv, [Next]_vars
    PROVE  MarkerInv'
  <1>0. /\ TypeOK /\ Numbered /\ InOrder(ends) /\ run \in [Procs -> RunRecord] /\ owned \in Owned
        /\ MaxMessage \in Nat
    BY MarkerAssumption DEF MarkerInv, TypeOK, RunRecord
  <1>1. HostStep /\ RunsStep /\ RowsStep /\ OwnedStep
    BY <1>0, HostTakesSteps, RunsTakeSteps, RowsTakeSteps
  <1>2. ends' \in SUBSET End /\ Numbered' /\ InOrder(ends')
    BY <1>0, EndsStay
  <1>3. ASSUME NEW p \in Procs, run[p].pc \in Moving
        PROVE  /\ Sound(run[p].boundary, run[p].target) /\ run[p].target \in End
               /\ run[p].boundary \in Messages /\ run[p].target.id \in Messages
               /\ Replacement(p) \in Owned /\ RowsOf(Replacement(p)) \in Lineage
    <2>1. Sound(run[p].boundary, run[p].target) /\ run[p].target \in End /\ run[p].boundary \in 0..MaxMessage
      BY <1>0, <1>3 DEF MarkerInv, RunRecord
    <2>2. run[p].boundary \in Messages /\ run[p].target.id \in Messages
      <3>1. last \in 1..MaxMessage
        BY <1>0 DEF TypeOK, Messages
      <3> QED
        BY <1>0, <2>1, <3>1, MarkerAssumption DEF Sound, Messages
    <2> QED
      BY <2>1, <2>2 DEF Replacement, Owned, RowsOf, Lineage
  <1>4. parts' \subseteq Lineage /\ summaries' \subseteq Lineage
    <2>1. parts \subseteq Lineage /\ summaries \subseteq Lineage
      BY <1>0 DEF TypeOK
    <2>2. ASSUME NEW p \in Procs, run[p].pc = "injecting", InjectRows(RowsOf(Replacement(p)))
          PROVE  parts' \subseteq Lineage /\ summaries' \subseteq Lineage
      <3>1. RowsOf(Replacement(p)) \in Lineage
        BY <1>3, <2>2 DEF Moving
      <3> QED
        BY <2>1, <2>2, <3>1 DEF InjectRows
    <2> QED
      BY <1>1, <2>1, <2>2 DEF RowsStep
  <1>5. owned' \in Owned /\ (owned' = NoMarker \/ Sound(owned.boundary, owned.target)')
    <2>1. CASE owned' = NoMarker
      BY <2>1, EmptyValues
    <2>2. CASE owned' = owned /\ owned # NoMarker
      <3>1. Sound(owned.boundary, owned.target) /\ owned.target \in End
        BY <1>0, <2>2 DEF MarkerInv, Owned
      <3>2. /\ owned.boundary \in Users /\ owned.boundary <= owned.target.id /\ owned.target.id \in 1..last'
            /\ Count(present', owned.target.id) <= owned.target.ordinal
        BY <1>0, <1>1, <3>1, SoundStays
      <3> QED
        BY <1>0, <2>2, <3>2 DEF Sound
    <2>3. ASSUME NEW p \in Procs, run[p].pc = "persisting", owned' = Replacement(p)
          PROVE  owned' \in Owned /\ Sound(owned.boundary, owned.target)'
      <3>1. /\ Sound(run[p].boundary, run[p].target) /\ run[p].target \in End
            /\ Replacement(p) \in Owned
        BY <1>3, <2>3 DEF Moving
      <3>2. /\ run[p].boundary \in Users /\ run[p].boundary <= run[p].target.id
            /\ run[p].target.id \in 1..last' /\ Count(present', run[p].target.id) <= run[p].target.ordinal
        BY <1>0, <1>1, <3>1, SoundStays
      <3>3. owned'.boundary = run[p].boundary /\ owned'.target = run[p].target
        BY <2>3 DEF Replacement
      <3> QED
        BY <2>3, <3>1, <3>2, <3>3 DEF Sound
    <2> QED
      BY <1>1, <2>1, <2>2, <2>3 DEF OwnedStep
  <1>6. ASSUME NEW q \in Procs, run'[q].pc \in Moving
        PROVE  Sound(run[q].boundary, run[q].target)'
    <2>1. CASE GoesOn(q)
      <3>1. Sound(run[q].boundary, run[q].target) /\ run[q].target \in End
        BY <1>3, <2>1 DEF GoesOn
      <3>2. /\ run[q].boundary \in Users /\ run[q].boundary <= run[q].target.id
            /\ run[q].target.id \in 1..last' /\ Count(present', run[q].target.id) <= run[q].target.ordinal
        BY <1>0, <1>1, <3>1, SoundStays
      <3> QED
        BY <2>1, <3>2 DEF GoesOn, Sound
    <2>2. CASE Decides(q)
      <3> DEFINE t == run'[q].target
      <3>1. /\ t \in ends' /\ t.id \in present /\ run'[q].boundary = FindBoundary(t.id)
            /\ run'[q].boundary # 0 /\ present' = present /\ last' = last
        BY <2>2 DEF Decides
      <3>2. t.id \in 1..last' /\ Count(present', t.id) <= t.ordinal
        BY <1>2, <3>1 DEF Numbered
      <3>3. t.id \in 0..MaxMessage /\ present \subseteq Messages
        <4>1. present \subseteq 1..last /\ last \in 1..MaxMessage
          BY <1>0 DEF TypeOK, Messages
        <4>2. 1..last \subseteq Messages /\ Messages \subseteq 0..MaxMessage
          BY <1>0, <4>1 DEF Messages
        <4> HIDE DEF t
        <4> QED
          BY <3>1, <4>1, <4>2
      <3> HIDE DEF t
      <3>4. FindBoundary(t.id) \in Users /\ FindBoundary(t.id) <= t.id
        BY <3>1, <3>3, BoundaryIs
      <3> QED
        BY <3>1, <3>2, <3>4 DEF Sound, t
    <2> QED
      BY <1>1, <1>6, <2>1, <2>2 DEF RunsStep
  <1>7. TypeOK'
    <2>1. last' \in Messages /\ present' \subseteq 1..last' /\ run' \in [Procs -> RunRecord]
      BY <1>1 DEF HostStep, RunsStep
    <2>2. /\ pending' \in End /\ degraded' \in [Procs -> 0..2] /\ baseline' \subseteq 0..MaxMessage
          /\ removed' \subseteq Removal
      BY <1>0, OtherTypes, RemovedType
    <2> QED
      BY <1>2, <1>4, <1>5, <2>1, <2>2 DEF TypeOK, RunRecord
  <1> QED
    BY <1>2, <1>5, <1>6, <1>7 DEF MarkerInv

\* Every variable of the marker's protocol keeps its type, in whatever order
\* processes, reverts, failures and crashes interleave.
THEOREM MarkerTypeCorrect == Spec => []TypeOK
  <1>1. MarkerInv => TypeOK
    BY DEF MarkerInv
  <1> QED
    BY <1>1, InitMarker, StepMarker, PTL DEF Spec

----------------------------------------------------------------------------
(* One marker on a boundary *)

\* Injecting a marker deletes every other one on its boundary, so that two
\* processes, or a retry after a crash between the two databases, never leave
\* two summaries on one message.
THEOREM LineageIsUnique == Spec => []OneLineagePerBoundary
  <1>1. Init => OneLineagePerBoundary
    BY DEF Init, Inherited, OneLineagePerBoundary
  <1>2. ASSUME OneLineagePerBoundary, [Next]_vars
        PROVE  OneLineagePerBoundary'
    <2>1. RowsStep
      BY <1>2, RowsTakeSteps
    <2>2. CASE summaries' \subseteq summaries
      BY <1>2, <2>2 DEF OneLineagePerBoundary
    <2>3. ASSUME NEW rows, InjectRows(rows)
          PROVE  OneLineagePerBoundary'
      <3>1. \A l \in summaries' : l = rows \/ (l \in summaries /\ l.boundary # rows.boundary)
        BY <2>3 DEF InjectRows
      <3> QED
        BY <1>2, <3>1 DEF OneLineagePerBoundary
    <2> QED
      BY <2>1, <2>2, <2>3 DEF RowsStep
  <1> QED
    BY <1>1, <1>2, PTL DEF Spec

----------------------------------------------------------------------------
(* What is hidden is summarised *)

\* The rows of this session, and the markers about to be written, sit behind
\* the last compartment.
RowsBehind ==
    /\ \A l \in parts : ~l.foreign => l.boundary \in 1..last /\ Behind(l.boundary)
    /\ \A p \in Procs : run[p].pc \in Moving => Behind(run[p].boundary)

LEMMA StepBehind ==
    ASSUME MarkerInv, RowsBehind, ~Shorter, [Next]_vars
    PROVE  RowsBehind'
  <1>0. /\ TypeOK /\ Numbered /\ InOrder(ends) /\ MaxMessage \in Nat
        /\ last \in 1..MaxMessage /\ present \subseteq 1..last
    BY MarkerAssumption DEF MarkerInv, TypeOK, Messages
  <1>1. HostStep /\ RunsStep /\ RowsStep
    BY <1>0, HostTakesSteps, RunsTakeSteps, RowsTakeSteps
  <1>2. ends' \in SUBSET End /\ Numbered' /\ InOrder(ends')
    BY <1>0, EndsStay
  <1>3. \A b \in 1..last : Behind(b) => Behind(b)'
    BY <1>0, BehindStays
  <1>4. \A b \in 1..last : b \in 1..last'
    BY <1>0, <1>1 DEF HostStep, Messages
  <1>5. ASSUME NEW p \in Procs, run[p].pc \in Moving
        PROVE  run[p].boundary \in 1..last /\ Behind(run[p].boundary)
    <2>1. Sound(run[p].boundary, run[p].target) /\ Behind(run[p].boundary)
      BY <1>5 DEF MarkerInv, RowsBehind
    <2>2. run[p].boundary \in 1..MaxMessage /\ run[p].boundary <= run[p].target.id /\ run[p].target.id \in 1..last
      BY <2>1, MarkerAssumption DEF Sound
    <2> QED
      BY <1>0, <2>1, <2>2
  <1>6. ASSUME NEW l \in parts', ~l.foreign
        PROVE  l.boundary \in 1..last' /\ Behind(l.boundary)'
    <2>1. CASE l \in parts
      BY <1>3, <1>4, <1>6, <2>1 DEF RowsBehind
    <2>2. ASSUME NEW p \in Procs, run[p].pc = "injecting", l = RowsOf(Replacement(p))
          PROVE  l.boundary \in 1..last' /\ Behind(l.boundary)'
      <3>1. l.boundary = run[p].boundary
        BY <2>2 DEF RowsOf, Replacement
      <3>2. run[p].boundary \in 1..last /\ Behind(run[p].boundary)
        BY <1>5, <2>2 DEF Moving
      <3>3. l.boundary \in 1..last /\ Behind(l.boundary)
        BY <3>1, <3>2 DEF Behind
      <3> QED
        BY <1>3, <1>4, <3>3
    <2>3. l \in parts \/ \E p \in Procs : run[p].pc = "injecting" /\ l = RowsOf(Replacement(p))
      BY <1>1, <1>6 DEF RowsStep, InjectRows
    <2> QED
      BY <2>1, <2>2, <2>3
  <1>7. ASSUME NEW q \in Procs, run'[q].pc \in Moving
        PROVE  Behind(run[q].boundary)'
    <2>1. CASE GoesOn(q)
      <3>1. run[q].boundary \in 1..last /\ Behind(run[q].boundary) /\ run'[q].boundary = run[q].boundary
        BY <1>5, <2>1 DEF GoesOn
      <3>2. run[q].boundary \in present' => run[q].boundary <= Newest(ends').id
        BY <1>3, <3>1 DEF Behind
      <3> QED
        BY <3>1, <3>2 DEF Behind
    <2>2. CASE Decides(q)
      <3> DEFINE t == run'[q].target
      <3>1. t \in ends' /\ run'[q].boundary = FindBoundary(t.id) /\ run'[q].boundary # 0
        BY <2>2 DEF Decides
      <3>2. t \in End /\ t.id <= Newest(ends').id /\ Newest(ends') \in End
        BY <1>2, <3>1, NewestIs
      <3> HIDE DEF t
      <3>3. present \subseteq Messages /\ t.id \in 0..MaxMessage
        BY <1>0, <3>2 DEF End, Messages
      <3>4. FindBoundary(t.id) <= t.id /\ FindBoundary(t.id) \in 0..MaxMessage
        BY <3>1, <3>3, BoundaryIs
      <3>5. Newest(ends').id \in Nat
        BY <3>2 DEF End
      <3> QED
        BY <3>1, <3>2, <3>3, <3>4, <3>5 DEF Behind
    <2> QED
      BY <1>1, <1>7, <2>1, <2>2 DEF RunsStep
  <1> QED
    BY <1>6, <1>7 DEF RowsBehind

\* As long as a recomp covers at least what was covered before, the host hides
\* behind this session's markers only messages that the compartments summarise:
\* with any number of processes moving the marker at once, late writes
\* included.
THEOREM HiddenIsCovered ==
    ASSUME ~Shorter
    PROVE  Spec => []HiddenIsSummarised
  <1>1. Init => MarkerInv /\ RowsBehind
    <2> SUFFICES ASSUME Init PROVE RowsBehind
      BY InitMarker
    <2>1. \A l \in parts : l.foreign = TRUE
      BY DEF Init, Inherited
    <2>2. \A p \in Procs : run[p].pc \notin Moving
      BY DEF Init, IdleRun, Moving
    <2> QED
      BY <2>1, <2>2 DEF RowsBehind
  <1>2. ASSUME MarkerInv, RowsBehind, [Next]_vars
        PROVE  MarkerInv' /\ RowsBehind'
    BY <1>2, StepMarker, StepBehind
  <1>3. MarkerInv /\ RowsBehind => HiddenIsSummarised
    <2> SUFFICES ASSUME MarkerInv, RowsBehind, NEW l \in parts \cap summaries, NEW m \in present,
                        ~l.foreign, l.boundary \in present, m < l.boundary
                 PROVE  m <= LastEnd.id
      BY DEF HiddenIsSummarised
    <2>1. l.boundary <= Newest(ends).id
      BY DEF RowsBehind, Behind
    <2>2. Newest(ends).id \in Nat
      <3>1. ends \in SUBSET End /\ InOrder(ends)
        BY DEF MarkerInv, TypeOK
      <3> QED
        BY <3>1, NewestIs DEF End
    <2>3. m \in Nat /\ l.boundary \in Nat
      <3>1. present \subseteq 1..last /\ last \in 1..MaxMessage /\ MaxMessage \in Nat
        BY MarkerAssumption DEF MarkerInv, TypeOK, Messages
      <3>2. \A k \in 1..last : k \in Nat
        BY <3>1
      <3> QED
        BY <3>1, <3>2, Zenon
    <2>4. m <= Newest(ends).id
      BY <2>1, <2>2, <2>3
    <2> QED
      BY <2>4 DEF LastEnd, Newest
  <1> QED
    BY <1>1, <1>2, <1>3, PTL DEF Spec
=============================================================================
