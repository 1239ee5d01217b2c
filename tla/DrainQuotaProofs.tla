----------------------------- MODULE DrainQuotaProofs -----------------------------
(***************************************************************************)
(* What is proved about the drain quota, for any number of overlapping     *)
(* runs and any budgets.                                                   *)
(*                                                                         *)
(* A reservation that comes back is taken from the counter and from the    *)
(* history of its window, so the history must cover every reservation that *)
(* can still come back.  The tokens of a set of runs are counted as the    *)
(* cardinality of a set of units, one per token.                           *)
(***************************************************************************)
EXTENDS DrainQuota, FiniteSetTheorems, TLAPS

----------------------------------------------------------------------------
(* Tokens of a set of runs *)

RunRecord == [pc : {"idle", "reserved", "awaiting", "validated"},
              reserved : 0..Cap, over : BOOLEAN, late : BOOLEAN]

Units(A, f) == {x \in A \X (1..Cap) : x[2] <= f[x[1]].reserved}

\* The bounds are positive naturals.
LEMMA Bounds ==
    /\ Window \in Nat /\ MaxLatch \in Nat /\ Backoff \in Nat /\ Cap \in Nat /\ Budget \in Nat
    /\ HighBudget \in Nat /\ TopBudget \in Nat /\ MaxTokens \in Nat
    /\ Window > 0 /\ MaxLatch > 0 /\ Backoff > 0 /\ Cap > 0 /\ Budget > 0
    /\ Cap <= Budget /\ Budget <= HighBudget /\ HighBudget <= TopBudget /\ TopBudget <= MaxTokens
  BY QuotaAssumption

\* A run more is its tokens more.
LEMMA UnitsOfOneMore ==
    ASSUME NEW f \in [Runs -> RunRecord], NEW A \in SUBSET Runs, NEW r \in Runs, r \notin A,
           IsFiniteSet(Units(A, f))
    PROVE  /\ IsFiniteSet(Units(A \cup {r}, f))
           /\ Cardinality(Units(A \cup {r}, f)) = Cardinality(Units(A, f)) + f[r].reserved
           /\ Cardinality(Units(A, f)) \in Nat
  <1> DEFINE n == f[r].reserved
             U == {r} \X (1..n)
  <1>1. n \in Nat /\ n <= Cap /\ Cap \in Nat
    BY Bounds DEF RunRecord
  <1>2. IsFiniteSet(1..n) /\ Cardinality(1..n) = n
    <2>1. 1 \in Int /\ n \in Int
      BY <1>1
    <2> HIDE DEF n
    <2>2. IsFiniteSet(1..n) /\ Cardinality(1..n) = IF 1 > n THEN 0 ELSE n - 1 + 1
      BY <2>1, FS_Interval
    <2> QED
      BY <1>1, <2>2
  <1>3. IsFiniteSet({r}) /\ Cardinality({r}) = 1
    BY FS_Singleton
  <1>4. IsFiniteSet(U) /\ Cardinality(U) = n
    <2> HIDE DEF n
    <2>1. IsFiniteSet(U) /\ Cardinality(U) = Cardinality({r}) * Cardinality(1..n)
      BY <1>2, <1>3, FS_Product
    <2> QED
      BY <1>1, <1>2, <1>3, <2>1
  <1>5. Units(A \cup {r}, f) = Units(A, f) \cup U
    BY <1>1 DEF Units
  <1>6. Units(A, f) \cap U = {}
    BY DEF Units
  <1> HIDE DEF U, n
  <1>7. Cardinality(Units(A, f)) \in Nat
    BY FS_CardinalityType
  <1>8. /\ IsFiniteSet(Units(A, f) \cup U)
        /\ Cardinality(Units(A, f) \cup U) = Cardinality(Units(A, f)) + Cardinality(U) - Cardinality({})
    BY <1>4, <1>6, FS_Union
  <1>9. Cardinality(Units(A, f) \cup U) = Cardinality(Units(A, f)) + n
    <2>1. Cardinality({}) = 0
      BY FS_EmptySet
    <2> QED
      BY <1>1, <1>4, <1>7, <1>8, <2>1
  <1> QED
    BY <1>5, <1>7, <1>8, <1>9 DEF n

\* A run less is its tokens less.
LEMMA UnitsOfOneLess ==
    ASSUME NEW f \in [Runs -> RunRecord], NEW A \in SUBSET Runs, NEW r \in Runs,
           IsFiniteSet(Units(A, f))
    PROVE  /\ IsFiniteSet(Units(A \ {r}, f))
           /\ Cardinality(Units(A \ {r}, f)) \in Nat /\ Cardinality(Units(A, f)) \in Nat
           /\ Cardinality(Units(A, f)) =
                 Cardinality(Units(A \ {r}, f)) + IF r \in A THEN f[r].reserved ELSE 0
  <1>1. Units(A \ {r}, f) \subseteq Units(A, f)
    BY DEF Units
  <1>2. /\ IsFiniteSet(Units(A \ {r}, f))
        /\ Cardinality(Units(A \ {r}, f)) \in Nat /\ Cardinality(Units(A, f)) \in Nat
    BY <1>1, FS_Subset, FS_CardinalityType
  <1>3. CASE r \in A
    <2>1. (A \ {r}) \cup {r} = A /\ A \ {r} \in SUBSET Runs /\ r \notin A \ {r}
      BY <1>3
    <2>2. Cardinality(Units((A \ {r}) \cup {r}, f)) = Cardinality(Units(A \ {r}, f)) + f[r].reserved
      BY <1>2, <2>1, UnitsOfOneMore
    <2> QED
      BY <1>2, <1>3, <2>1, <2>2
  <1>4. CASE r \notin A
    <2>1. A \ {r} = A
      BY <1>4
    <2> QED
      BY <1>2, <1>4, <2>1
  <1> QED
    BY <1>3, <1>4

\* Only the reservations of the runs in the set count.
LEMMA UnitsSame ==
    ASSUME NEW A, NEW f, NEW g, \A r \in A : f[r].reserved = g[r].reserved
    PROVE  Units(A, f) = Units(A, g)
  BY DEF Units

\* The smallest of two or three numbers.
LEMMA MinOf ==
    ASSUME NEW a \in Nat, NEW b \in Nat, NEW c \in Nat
    PROVE  /\ Min({a, b}) \in Nat /\ Min({a, b}) <= a /\ Min({a, b}) <= b
           /\ Min({a, b, c}) \in Nat /\ Min({a, b, c}) <= a /\ Min({a, b, c}) <= b /\ Min({a, b, c}) <= c
  <1>1. \E x \in {a, b} : \A y \in {a, b} : x <= y
    OBVIOUS
  <1>2. Min({a, b}) \in {a, b} /\ \A y \in {a, b} : Min({a, b}) <= y
    BY <1>1 DEF Min
  <1>3. \E x \in {a, b, c} : \A y \in {a, b, c} : x <= y
    OBVIOUS
  <1>4. Min({a, b, c}) \in {a, b, c} /\ \A y \in {a, b, c} : Min({a, b, c}) <= y
    BY <1>3 DEF Min
  <1> QED
    BY <1>2, <1>4

\* A request gets a run's cap at most, and no more than what remains, if
\* anything does; a window that is over has its whole budget again.
LEMMA GrantedBounds ==
    ASSUME TypeOK, NEW requested \in 1..(Cap + 1)
    PROVE  /\ Remaining \in Nat /\ Granted(requested) \in 0..Cap
           /\ Remaining > 0 => /\ Granted(requested) <= Remaining
                               /\ (IF WindowOver THEN 0 ELSE tokens) + Remaining <= TopBudget
           /\ WindowOver => Remaining > 0
  <1>1. tokens \in Nat /\ BudgetFor(usage) \in Nat /\ BudgetFor(usage) > 0 /\ BudgetFor(usage) <= TopBudget
    BY Bounds DEF TypeOK, BudgetFor
  <1>2. Remaining \in Nat /\ (WindowOver => Remaining > 0)
    BY <1>1 DEF Remaining
  <1>3. Remaining > 0 => (IF WindowOver THEN 0 ELSE tokens) + Remaining <= TopBudget
    BY <1>1, Bounds DEF Remaining
  <1>4. requested \in Nat /\ Cap \in Nat
    BY Bounds
  <1>5. Granted(requested) \in 0..Cap /\ (Remaining > 0 => Granted(requested) <= Remaining)
    BY <1>2, <1>4, MinOf DEF Granted
  <1> QED
    BY <1>2, <1>3, <1>5

----------------------------------------------------------------------------
(* The inductive invariant *)

\* Runs whose reservation is of the current window, and those of them that
\* reserved over its budget.
Current == {r \in Runs : run[r].pc # "idle" /\ ~run[r].late}
Over    == {r \in Current : run[r].over}

\* The history covers what can still come back.
Covered ==
    /\ IsFiniteSet(Units(Current, run)) /\ Cardinality(Units(Current, run)) <= spent
    /\ IsFiniteSet(Units(Over, run)) /\ Cardinality(Units(Over, run)) <= bypassed

QuotaInv == TypeOK /\ Covered /\ QuotaIsHonest /\ WindowBudget

\* The counters of the window as numbers.
Counters == tokens \in Nat /\ spent \in Nat /\ stray \in Nat /\ bypassed \in Nat /\ failures \in Nat

\* The clock, the usage and steps of other runs do not touch the account.
LEMMA AccountUntouched ==
    ASSUME QuotaInv, TypeOK', UNCHANGED <<tokens, spent, stray, bypassed, run>>
    PROVE  QuotaInv'
  <1>1. Current' = Current /\ Over' = Over
    BY DEF Current, Over
  <1> QED
    BY <1>1 DEF QuotaInv, Covered, QuotaIsHonest, WindowBudget

\* A run that is over holds no tokens any more.
LEMMA RunLeaves ==
    ASSUME QuotaInv, NEW r \in Runs, SetRun(r, IdleRun)
    PROVE  /\ run' \in [Runs -> RunRecord]
           /\ IsFiniteSet(Units(Current', run')) /\ IsFiniteSet(Units(Over', run'))
           /\ Cardinality(Units(Current', run')) \in Nat /\ Cardinality(Units(Over', run')) \in Nat
           /\ Cardinality(Units(Current', run')) + (IF r \in Current THEN run[r].reserved ELSE 0) <= spent
           /\ Cardinality(Units(Over', run')) + (IF r \in Over THEN run[r].reserved ELSE 0) <= bypassed
  <1>0. run \in [Runs -> RunRecord] /\ run[r].reserved \in Nat
    BY DEF QuotaInv, TypeOK, RunRecord
  <1>1. IdleRun \in RunRecord /\ IdleRun.pc = "idle"
    BY Bounds DEF IdleRun, RunRecord
  <1>2. run' = [run EXCEPT ![r] = IdleRun]
    BY DEF SetRun
  <1>3. run' \in [Runs -> RunRecord] /\ run'[r].pc = "idle" /\ \A s \in Runs : s # r => run'[s] = run[s]
    BY <1>0, <1>1, <1>2
  <1>4. Current' = Current \ {r} /\ Over' = Over \ {r}
    BY <1>3 DEF Current, Over
  <1>5. Units(Current', run') = Units(Current \ {r}, run) /\ Units(Over', run') = Units(Over \ {r}, run)
    <2>1. \A s \in Current \ {r} : run'[s].reserved = run[s].reserved
      BY <1>3 DEF Current
    <2>2. \A s \in Over \ {r} : run'[s].reserved = run[s].reserved
      BY <2>1 DEF Over
    <2> QED
      BY <1>4, <2>1, <2>2, UnitsSame
  <1>6. Current \in SUBSET Runs /\ Over \in SUBSET Runs
    BY DEF Current, Over
  <1>7. /\ IsFiniteSet(Units(Current, run)) /\ Cardinality(Units(Current, run)) <= spent
        /\ IsFiniteSet(Units(Over, run)) /\ Cardinality(Units(Over, run)) <= bypassed
    BY DEF QuotaInv, Covered
  <1>8. /\ IsFiniteSet(Units(Current \ {r}, run))
        /\ Cardinality(Units(Current \ {r}, run)) \in Nat
        /\ Cardinality(Units(Current, run)) =
              Cardinality(Units(Current \ {r}, run)) + IF r \in Current THEN run[r].reserved ELSE 0
    BY <1>0, <1>6, <1>7, UnitsOfOneLess
  <1>9. /\ IsFiniteSet(Units(Over \ {r}, run))
        /\ Cardinality(Units(Over \ {r}, run)) \in Nat
        /\ Cardinality(Units(Over, run)) =
              Cardinality(Units(Over \ {r}, run)) + IF r \in Over THEN run[r].reserved ELSE 0
    BY <1>0, <1>6, <1>7, UnitsOfOneLess
  <1> QED
    BY <1>3, <1>5, <1>7, <1>8, <1>9

\* Crashes, failed passes and publications, also those that fail late, keep the
\* reservation.
LEMMA RunKeepsTokens ==
    ASSUME QuotaInv, NEW r \in Runs,
           Crash(r) \/ PassFails(r) \/ PublicationFailsLate(r) \/ Publish(r)
    PROVE  QuotaInv'
  <1>0. Counters
    BY Bounds DEF QuotaInv, TypeOK, Counters
  <1>1. /\ SetRun(r, IdleRun) /\ UNCHANGED <<tokens, window, latch, usage, spent, stray, bypassed>>
        /\ failure' \in {failure, 0, 1} /\ failures' \in {failures, failures + 1, 0}
    BY DEF Crash, PassFails, PublicationFailsLate, Publish, history
  <1>2. /\ run' \in [Runs -> RunRecord]
        /\ IsFiniteSet(Units(Current', run')) /\ IsFiniteSet(Units(Over', run'))
        /\ Cardinality(Units(Current', run')) \in Nat /\ Cardinality(Units(Over', run')) \in Nat
        /\ Cardinality(Units(Current', run')) + (IF r \in Current THEN run[r].reserved ELSE 0) <= spent
        /\ Cardinality(Units(Over', run')) + (IF r \in Over THEN run[r].reserved ELSE 0) <= bypassed
    BY <1>1, RunLeaves
  <1>3. run[r].reserved \in Nat
    BY Bounds DEF QuotaInv, TypeOK, RunRecord
  <1>4. Covered'
    BY <1>0, <1>1, <1>2, <1>3 DEF Covered, Counters
  <1>5. failure' \in 0..(Backoff + 1) /\ failures' \in Nat
    BY <1>0, <1>1, Bounds DEF QuotaInv, TypeOK, Counters
  <1>6. TypeOK'
    BY <1>1, <1>2, <1>5 DEF QuotaInv, TypeOK, RunRecord
  <1> QED
    BY <1>1, <1>4, <1>6 DEF QuotaInv, QuotaIsHonest, WindowBudget

\* A reservation that is given back leaves the counter and the history.
LEMMA RunGivesBack ==
    ASSUME QuotaInv, NEW r \in Runs, EmptyChunk(r) \/ FailEarly(r) \/ NotPublished(r)
    PROVE  QuotaInv'
  <1>0. Counters
    BY Bounds DEF QuotaInv, TypeOK, Counters
  <1>1. /\ SetRun(r, IdleRun) /\ GiveBack(r) /\ run[r].pc # "idle"
        /\ UNCHANGED <<window, failure, usage, failures>> /\ latch' \in {latch, 0}
    BY DEF EmptyChunk, FailEarly, NotPublished
  <1> DEFINE n == run[r].reserved
             C == Cardinality(Units(Current', run'))
             O == Cardinality(Units(Over', run'))
  <1>2. /\ run' \in [Runs -> RunRecord]
        /\ IsFiniteSet(Units(Current', run')) /\ IsFiniteSet(Units(Over', run'))
        /\ C \in Nat /\ O \in Nat
        /\ C + (IF r \in Current THEN n ELSE 0) <= spent
        /\ O + (IF r \in Over THEN n ELSE 0) <= bypassed
    BY <1>1, RunLeaves
  <1>3. n \in Nat /\ run[r].late \in BOOLEAN /\ run[r].over \in BOOLEAN
    BY Bounds DEF QuotaInv, TypeOK, RunRecord
  <1>4. (r \in Current <=> ~run[r].late) /\ (r \in Over <=> ~run[r].late /\ run[r].over)
    BY <1>1 DEF Current, Over
  <1>5. tokens' = IF tokens > n THEN tokens - n ELSE 0
    BY <1>1 DEF GiveBack
  <1>6. \/ r \notin Current /\ r \notin Over /\ stray' = stray + n /\ spent' = spent /\ bypassed' = bypassed
        \/ r \in Current /\ r \in Over /\ stray' = stray /\ spent' = spent - n /\ bypassed' = bypassed - n
        \/ r \in Current /\ r \notin Over /\ stray' = stray /\ spent' = spent - n /\ bypassed' = bypassed
    BY <1>1, <1>3, <1>4 DEF GiveBack, Returned
  <1>7. /\ tokens <= spent /\ spent <= tokens + stray /\ spent <= TopBudget + bypassed + stray
        /\ TopBudget \in Nat
    BY Bounds DEF QuotaInv, QuotaIsHonest, WindowBudget
  <1> HIDE DEF n, C, O
  <1>8. /\ C <= spent' /\ O <= bypassed' /\ spent' \in Nat /\ bypassed' \in Nat /\ stray' \in Nat
        /\ tokens' \in Nat /\ tokens' <= tokens
        /\ tokens' <= spent' /\ spent' <= tokens' + stray'
        /\ spent' <= TopBudget + bypassed' + stray'
    BY <1>0, <1>2, <1>3, <1>5, <1>6, <1>7 DEF Counters
  <1>9. latch' \in 0..(MaxLatch + 2) /\ tokens' \in 0..MaxTokens
    BY <1>1, <1>8, Bounds DEF QuotaInv, TypeOK
  <1>10. TypeOK'
    BY <1>1, <1>2, <1>8, <1>9 DEF QuotaInv, TypeOK, RunRecord
  <1>11. Covered' /\ QuotaIsHonest' /\ WindowBudget'
    BY <1>2, <1>8 DEF Covered, QuotaIsHonest, WindowBudget, C, O
  <1> QED
    BY <1>10, <1>11 DEF QuotaInv

\* A run that goes on holds what it held.
LEMMA RunGoesOn ==
    ASSUME QuotaInv, NEW r \in Runs, CallHistorian(r) \/ PassReturns(r)
    PROVE  QuotaInv'
  <1>0. run \in [Runs -> RunRecord]
    BY DEF QuotaInv, TypeOK, RunRecord
  <1>1. /\ run[r].pc # "idle" /\ UNCHANGED <<tokens, window, latch, failure, usage, history>>
        /\ \E pc \in {"awaiting", "validated"} : run' = [run EXCEPT ![r].pc = pc]
    BY DEF CallHistorian, PassReturns
  <1>2. /\ run' \in [Runs -> RunRecord] /\ run'[r].pc # "idle"
        /\ \A s \in Runs : /\ run'[s].reserved = run[s].reserved /\ run'[s].late = run[s].late
                            /\ run'[s].over = run[s].over /\ (s # r => run'[s].pc = run[s].pc)
    BY <1>0, <1>1 DEF RunRecord
  <1>3. Current' = Current /\ Over' = Over
    BY <1>1, <1>2 DEF Current, Over
  <1>4. Units(Current', run') = Units(Current, run) /\ Units(Over', run') = Units(Over, run)
    <2>1. (\A s \in Current : run'[s].reserved = run[s].reserved) /\ \A s \in Over : run'[s].reserved = run[s].reserved
      BY <1>2 DEF Current, Over
    <2> QED
      BY <1>3, <2>1, UnitsSame
  <1>5. TypeOK'
    BY <1>1, <1>2 DEF QuotaInv, TypeOK, RunRecord, history
  <1> QED
    BY <1>1, <1>4, <1>5 DEF QuotaInv, Covered, QuotaIsHonest, WindowBudget, history

\* A run without a reservation adds nothing to the account.
LEMMA RunTakesNothing ==
    ASSUME QuotaInv, NEW r \in Runs, ReserveNothing(r)
    PROVE  QuotaInv'
  <1> DEFINE new == [pc |-> "reserved", reserved |-> 0, over |-> FALSE, late |-> FALSE]
  <1>0. run \in [Runs -> RunRecord] /\ run[r].pc = "idle"
    BY DEF QuotaInv, TypeOK, RunRecord, ReserveNothing
  <1>1. /\ new \in RunRecord /\ new.pc = "reserved" /\ new.reserved = 0
        /\ ~new.over /\ ~new.late
    BY Bounds DEF RunRecord
  <1>2. run' = [run EXCEPT ![r] = new] /\ UNCHANGED <<tokens, window, latch, failure, usage, history>>
    BY DEF ReserveNothing, SetRun
  <1> HIDE DEF new
  <1>3. run' \in [Runs -> RunRecord] /\ run'[r] = new /\ \A s \in Runs : s # r => run'[s] = run[s]
    BY <1>0, <1>1, <1>2
  <1>4. Current' = Current \cup {r} /\ r \notin Current /\ Over' = Over /\ r \notin Over
    BY <1>0, <1>1, <1>3 DEF Current, Over
  <1>5. Current \in SUBSET Runs /\ Over \in SUBSET Runs
    BY DEF Current, Over
  <1>6. Units(Current, run') = Units(Current, run) /\ Units(Over, run') = Units(Over, run)
    <2>1. (\A s \in Current : run'[s].reserved = run[s].reserved) /\ \A s \in Over : run'[s].reserved = run[s].reserved
      BY <1>3, <1>4, <1>5
    <2> QED
      BY <2>1, UnitsSame
  <1>7. /\ IsFiniteSet(Units(Current \cup {r}, run'))
        /\ Cardinality(Units(Current \cup {r}, run')) = Cardinality(Units(Current, run')) + run'[r].reserved
        /\ Cardinality(Units(Current, run')) \in Nat
    <2>1. IsFiniteSet(Units(Current, run'))
      BY <1>6 DEF QuotaInv, Covered
    <2> QED
      BY <1>3, <1>4, <1>5, <2>1, UnitsOfOneMore
  <1>8. Cardinality(Units(Current', run')) = Cardinality(Units(Current, run))
    BY <1>1, <1>3, <1>4, <1>6, <1>7
  <1>9. Covered'
    BY <1>2, <1>4, <1>6, <1>7, <1>8 DEF QuotaInv, Covered, history
  <1>10. TypeOK'
    BY <1>2, <1>3 DEF QuotaInv, TypeOK, RunRecord, history
  <1> QED
    BY <1>2, <1>9, <1>10 DEF QuotaInv, QuotaIsHonest, WindowBudget, history

\* The runs after a reservation: r has what it got, and if the window was
\* over, nobody else has anything of the new one.
LEMMA RunsAfter ==
    ASSUME TypeOK, NEW r \in Runs, NEW n \in 0..Cap, run[r].pc = "idle", run' = RunsAfterReserve(r, n)
    PROVE  /\ run' \in [Runs -> RunRecord]
           /\ run'[r].reserved = n
           /\ \A s \in Runs : s # r => run'[s].reserved = run[s].reserved
           /\ r \in Current' <=> n # 0
           /\ r \in Over' <=> n # 0 /\ Remaining = 0
           /\ ~WindowOver => Current' \ {r} = Current /\ Over' \ {r} = Over
           /\ WindowOver => Current' \ {r} = {} /\ Over' \ {r} = {}
           /\ r \notin Current /\ r \notin Over
  <1>0. run \in [Runs -> RunRecord]
    BY DEF TypeOK, RunRecord
  <1>1. /\ run'[r] = IF n = 0 THEN IdleRun
                     ELSE [pc |-> "reserved", reserved |-> n, over |-> Remaining = 0, late |-> FALSE]
        /\ \A s \in Runs : s # r => run'[s] = IF WindowOver /\ run[s].pc # "idle"
                                               THEN [run[s] EXCEPT !.late = TRUE] ELSE run[s]
    BY DEF RunsAfterReserve
  <1>2. IdleRun \in RunRecord /\ IdleRun.pc = "idle" /\ IdleRun.reserved = 0
    BY Bounds DEF IdleRun, RunRecord
  <1>3. /\ run'[r] \in RunRecord /\ run'[r].reserved = n
        /\ n = 0 => run'[r].pc = "idle"
        /\ n # 0 => run'[r].pc # "idle" /\ ~run'[r].late /\ (run'[r].over <=> Remaining = 0)
    <2>1. CASE n = 0
      BY <1>1, <1>2, <2>1
    <2>2. CASE n # 0
      <3>1. (Remaining = 0) \in BOOLEAN
        OBVIOUS
      <3>2. run'[r] = [pc |-> "reserved", reserved |-> n, over |-> (Remaining = 0), late |-> FALSE]
        BY <1>1, <2>2
      <3>3. \A b \in BOOLEAN : [pc |-> "reserved", reserved |-> n, over |-> b, late |-> FALSE] \in RunRecord
        BY DEF RunRecord
      <3>4. run'[r] \in RunRecord
        BY <3>1, <3>2, <3>3
      <3>5. /\ run'[r].reserved = n /\ run'[r].pc = "reserved"
            /\ run'[r].over = (Remaining = 0) /\ run'[r].late = FALSE
        BY <3>2
      <3> QED
        BY <2>2, <3>4, <3>5
    <2> QED
      BY <2>1, <2>2
  <1>4. \A s \in Runs : s # r =>
           /\ run'[s] \in RunRecord /\ run'[s].reserved = run[s].reserved
           /\ run'[s].pc = run[s].pc /\ run'[s].over = run[s].over
           /\ run'[s].late = (run[s].late \/ (WindowOver /\ run[s].pc # "idle"))
    <2> TAKE s \in Runs
    <2> HAVE s # r
    <2>1. CASE WindowOver /\ run[s].pc # "idle"
      <3>1. run'[s] = [run[s] EXCEPT !.late = TRUE] /\ run[s] \in RunRecord
        BY <1>0, <1>1, <2>1
      <3> QED
        BY <2>1, <3>1 DEF RunRecord
    <2>2. CASE ~(WindowOver /\ run[s].pc # "idle")
      <3>1. run'[s] = run[s] /\ run[s] \in RunRecord
        BY <1>0, <1>1, <2>2
      <3>2. run[s].late \in BOOLEAN
        BY <3>1 DEF RunRecord
      <3> QED
        BY <2>2, <3>1, <3>2
    <2> QED
      BY <2>1, <2>2
  <1>5. run' \in [Runs -> RunRecord]
    <2>1. run' = [s \in Runs |-> run'[s]]
      BY DEF RunsAfterReserve
    <2> QED
      BY <1>3, <1>4, <2>1
  <1>6. (r \in Current' <=> n # 0) /\ (r \in Over' <=> n # 0 /\ Remaining = 0)
    BY <1>3 DEF Current, Over
  <1>7. ~WindowOver => Current' \ {r} = Current /\ Over' \ {r} = Over
    BY <1>4 DEF Current, Over
  <1>8. WindowOver => Current' \ {r} = {} /\ Over' \ {r} = {}
    BY <1>4 DEF Current, Over
  <1>9. r \notin Current /\ r \notin Over
    BY DEF Current, Over
  <1> QED
    BY <1>3, <1>4, <1>5, <1>6, <1>7, <1>8, <1>9

\* What the runs hold after a reservation: what they held in this window, and
\* what r got.
LEMMA TokensAfter ==
    ASSUME QuotaInv, NEW r \in Runs, NEW n \in 0..Cap, run[r].pc = "idle", run' = RunsAfterReserve(r, n)
    PROVE  /\ IsFiniteSet(Units(Current', run')) /\ IsFiniteSet(Units(Over', run'))
           /\ Cardinality(Units(Current', run')) <= (IF WindowOver THEN 0 ELSE spent) + n
           /\ Cardinality(Units(Over', run')) <=
                 (IF WindowOver THEN 0 ELSE bypassed) + (IF Remaining = 0 THEN n ELSE 0)
  <1>0. TypeOK /\ n \in Nat /\ Counters
    BY Bounds DEF QuotaInv, TypeOK, Counters
  <1>1. /\ run' \in [Runs -> RunRecord]
        /\ run'[r].reserved = n
        /\ \A s \in Runs : s # r => run'[s].reserved = run[s].reserved
        /\ r \in Current' <=> n # 0
        /\ r \in Over' <=> n # 0 /\ Remaining = 0
        /\ ~WindowOver => Current' \ {r} = Current /\ Over' \ {r} = Over
        /\ WindowOver => Current' \ {r} = {} /\ Over' \ {r} = {}
        /\ r \notin Current /\ r \notin Over
    BY <1>0, RunsAfter
  <1>2. /\ IsFiniteSet(Units(Current, run)) /\ Cardinality(Units(Current, run)) <= spent
        /\ IsFiniteSet(Units(Over, run)) /\ Cardinality(Units(Over, run)) <= bypassed
    BY DEF QuotaInv, Covered
  <1>3. ASSUME NEW A \in SUBSET Runs, NEW B \in SUBSET Runs, NEW limit \in Nat,
               r \notin B, A \ {r} = B, IsFiniteSet(Units(B, run')), Cardinality(Units(B, run')) <= limit
        PROVE  /\ IsFiniteSet(Units(A, run'))
               /\ Cardinality(Units(A, run')) <= limit + (IF r \in A THEN n ELSE 0)
    <2>1. CASE r \in A
      <3>1. A = B \cup {r}
        BY <1>3, <2>1
      <3>2. /\ IsFiniteSet(Units(B \cup {r}, run'))
            /\ Cardinality(Units(B \cup {r}, run')) = Cardinality(Units(B, run')) + n
            /\ Cardinality(Units(B, run')) \in Nat
        BY <1>1, <1>3, UnitsOfOneMore
      <3> QED
        BY <1>0, <1>3, <2>1, <3>1, <3>2
    <2>2. CASE r \notin A
      <3>1. A = B
        BY <1>3, <2>2
      <3>2. Cardinality(Units(B, run')) \in Nat
        BY <1>3, FS_CardinalityType
      <3> QED
        BY <1>3, <2>2, <3>1, <3>2
    <2> QED
      BY <2>1, <2>2
  <1>4. Current' \in SUBSET Runs /\ Over' \in SUBSET Runs /\ Current \in SUBSET Runs /\ Over \in SUBSET Runs
    BY DEF Current, Over
  <1>5. CASE WindowOver
    <2>1. Units({}, run') = {} /\ IsFiniteSet(Units({}, run')) /\ Cardinality(Units({}, run')) = 0
      <3>1. Units({}, run') = {}
        BY DEF Units
      <3> QED
        BY <3>1, FS_EmptySet
    <2>2. /\ IsFiniteSet(Units(Current', run'))
          /\ Cardinality(Units(Current', run')) <= 0 + (IF r \in Current' THEN n ELSE 0)
      BY <1>1, <1>3, <1>4, <1>5, <2>1
    <2>3. /\ IsFiniteSet(Units(Over', run'))
          /\ Cardinality(Units(Over', run')) <= 0 + (IF r \in Over' THEN n ELSE 0)
      BY <1>1, <1>3, <1>4, <1>5, <2>1
    <2> QED
      BY <1>0, <1>1, <1>5, <2>2, <2>3
  <1>6. CASE ~WindowOver
    <2>1. Units(Current, run') = Units(Current, run) /\ Units(Over, run') = Units(Over, run)
      <3>1. \A s \in Current : run'[s].reserved = run[s].reserved
        BY <1>1, <1>4
      <3>2. \A s \in Over : run'[s].reserved = run[s].reserved
        BY <1>1, <1>4
      <3> QED
        BY <3>1, <3>2, UnitsSame
    <2>2. /\ IsFiniteSet(Units(Current', run'))
          /\ Cardinality(Units(Current', run')) <= spent + (IF r \in Current' THEN n ELSE 0)
      BY <1>0, <1>1, <1>2, <1>3, <1>4, <1>6, <2>1 DEF Counters
    <2>3. /\ IsFiniteSet(Units(Over', run'))
          /\ Cardinality(Units(Over', run')) <= bypassed + (IF r \in Over' THEN n ELSE 0)
      BY <1>0, <1>1, <1>2, <1>3, <1>4, <1>6, <2>1 DEF Counters
    <2> QED
      BY <1>0, <1>1, <1>6, <2>2, <2>3
  <1> QED
    BY <1>5, <1>6

\* Arithmetic: what a bounded counter and the stray tokens cover.
LEMMA Chain ==
    ASSUME NEW a \in Nat, NEW b \in Nat, NEW c \in Nat, NEW d \in Nat, NEW e \in Nat,
           a <= b + c, b <= d
    PROVE  a <= d + e + c
  OBVIOUS

\* A reservation is counted once, within the budget or as let through.
LEMMA ReserveCounts ==
    ASSUME QuotaInv, NEW r \in Runs, NEW requested \in 1..(Cap + 1), Reserve(r, requested)
    PROVE  QuotaInv'
  <1> DEFINE n    == Granted(requested)
             used == IF WindowOver THEN 0 ELSE tokens
             base == IF WindowOver THEN 0 ELSE spent
             past == IF WindowOver THEN 0 ELSE bypassed
             more == IF Remaining = 0 THEN n ELSE 0
  <1>0. TypeOK /\ Counters
    BY Bounds DEF QuotaInv, TypeOK, Counters
  <1>1. /\ Remaining \in Nat /\ n \in 0..Cap
        /\ Remaining > 0 => n <= Remaining /\ used + Remaining <= TopBudget
        /\ WindowOver => Remaining > 0
    BY <1>0, GrantedBounds
  <1>2. /\ run[r].pc = "idle" /\ used + n <= MaxTokens
        /\ tokens' = used + n /\ run' = RunsAfterReserve(r, n)
        /\ spent' = base + n /\ bypassed' = past + more
        /\ stray' = (IF WindowOver THEN 0 ELSE stray) /\ failures' = (IF WindowOver THEN 0 ELSE failures)
        /\ window' = (IF WindowOver THEN 0 ELSE window) /\ latch' = NextLatch
        /\ UNCHANGED <<failure, usage>>
    BY DEF Reserve
  <1>3. /\ IsFiniteSet(Units(Current', run')) /\ IsFiniteSet(Units(Over', run'))
        /\ Cardinality(Units(Current', run')) <= base + n
        /\ Cardinality(Units(Over', run')) <= past + more
    BY <1>1, <1>2, TokensAfter
  <1>4. run' \in [Runs -> RunRecord]
    BY <1>0, <1>1, <1>2, RunsAfter
  <1>5. /\ tokens <= spent /\ spent <= tokens + stray /\ spent <= TopBudget + bypassed + stray
        /\ TopBudget \in Nat /\ MaxTokens \in Nat /\ Cap \in Nat
    BY Bounds DEF QuotaInv, QuotaIsHonest, WindowBudget
  <1> HIDE DEF n
  <1>6. /\ tokens' \in 0..MaxTokens /\ spent' \in Nat /\ bypassed' \in Nat /\ stray' \in Nat /\ failures' \in Nat
        /\ tokens' <= spent' /\ spent' <= tokens' + stray'
    <2>1. n \in Nat
      BY <1>1, <1>5
    <2>2. CASE WindowOver
      <3>1. tokens' = n /\ spent' = n /\ stray' = 0 /\ failures' = 0 /\ bypassed' = more /\ n <= MaxTokens
        BY <1>2, <2>1, <2>2
      <3> QED
        BY <1>5, <2>1, <3>1
    <2>3. CASE ~WindowOver
      <3>1. /\ tokens' = tokens + n /\ spent' = spent + n /\ stray' = stray /\ failures' = failures
            /\ bypassed' = bypassed + more /\ tokens + n <= MaxTokens
        BY <1>2, <2>3
      <3> QED
        BY <1>0, <1>5, <2>1, <3>1 DEF Counters
    <2> QED
      BY <2>2, <2>3
  <1>7. spent' <= TopBudget + bypassed' + stray'
    <2>1. CASE Remaining > 0
      <3>1. tokens' <= TopBudget /\ tokens' \in Nat
        BY <1>0, <1>1, <1>2, <1>5, <2>1 DEF Counters
      <3>2. /\ spent' \in Nat /\ bypassed' \in Nat /\ stray' \in Nat /\ TopBudget \in Nat
            /\ spent' <= tokens' + stray'
        BY <1>5, <1>6
      <3> HIDE DEF used, base, past, more
      <3> QED
        BY <3>1, <3>2, Chain
    <2>2. CASE Remaining = 0
      BY <1>0, <1>1, <1>2, <1>5, <2>2 DEF Counters
    <2> QED
      BY <1>1, <2>1, <2>2
  <1>8. window' \in 0..(Window + 1) /\ latch' \in 0..(MaxLatch + 2)
    <2>1. window \in 0..(Window + 1) /\ latch \in 0..(MaxLatch + 2)
      BY <1>0 DEF TypeOK
    <2>2. NextLatch \in {0, 1, latch}
      BY DEF NextLatch
    <2>3. NextLatch \in 0..(MaxLatch + 2)
      BY <2>1, <2>2, Bounds
    <2>4. latch' = NextLatch /\ window' \in {0, 1, window}
      BY <1>2
    <2> QED
      BY <2>1, <2>3, <2>4, Bounds
  <1>9. TypeOK'
    BY <1>0, <1>2, <1>4, <1>6, <1>8 DEF TypeOK, RunRecord
  <1>10. Covered'
    BY <1>2, <1>3 DEF Covered
  <1> QED
    BY <1>6, <1>7, <1>9, <1>10 DEF QuotaInv, QuotaIsHonest, WindowBudget

\* Every step keeps the account.
LEMMA StepKeepsQuota ==
    ASSUME QuotaInv, [Next]_vars
    PROVE  QuotaInv'
  <1>0. TypeOK
    BY DEF QuotaInv
  <1>1. CASE UNCHANGED vars
    <2>1. TypeOK'
      BY <1>0, <1>1 DEF vars, history, TypeOK
    <2> QED
      BY <1>1, <2>1, AccountUntouched DEF vars, history
  <1>2. CASE Tick
    <2>1. window' \in 0..(Window + 1) /\ latch' \in 0..(MaxLatch + 2) /\ failure' \in 0..(Backoff + 1)
      BY <1>0, <1>2, Bounds DEF Tick, TypeOK
    <2>2. TypeOK'
      BY <1>0, <1>2, <2>1 DEF Tick, TypeOK, history
    <2> QED
      BY <1>2, <2>2, AccountUntouched DEF Tick, history
  <1>3. CASE UsageMoves
    <2>1. TypeOK'
      BY <1>0, <1>3 DEF UsageMoves, TypeOK, history
    <2> QED
      BY <1>3, <2>1, AccountUntouched DEF UsageMoves, history
  <1>4. CASE NoEligibleHead
    <2>1. latch' = 0 /\ UNCHANGED <<tokens, window, failure, usage, run, history>>
      BY <1>4 DEF NoEligibleHead
    <2>2. latch' \in 0..(MaxLatch + 2)
      BY <2>1, Bounds
    <2>3. TypeOK'
      BY <1>0, <2>1, <2>2 DEF TypeOK, history
    <2> QED
      BY <2>1, <2>3, AccountUntouched DEF history
  <1>5. CASE Ask
    BY <1>5, ReserveCounts DEF Ask
  <1>6. ASSUME NEW r \in Runs, ReserveNothing(r) \/ Go(r) \/ Crash(r) PROVE QuotaInv'
    BY <1>6, RunTakesNothing, RunKeepsTokens, RunGivesBack, RunGoesOn DEF Go
  <1> QED
    BY <1>1, <1>2, <1>3, <1>4, <1>5, <1>6 DEF Next

\* The account is right in every state.
LEMMA QuotaInvHolds == Spec => []QuotaInv
  <1>1. Init => QuotaInv
    <2> SUFFICES ASSUME Init PROVE QuotaInv
      OBVIOUS
    <2>1. IdleRun \in RunRecord /\ IdleRun.pc = "idle"
      BY Bounds DEF IdleRun, RunRecord
    <2>2. TypeOK
      <3>1. run \in [Runs -> RunRecord]
        BY <2>1 DEF Init
      <3>2. /\ tokens \in 0..MaxTokens /\ window \in 0..(Window + 1) /\ latch \in 0..(MaxLatch + 2)
            /\ failure \in 0..(Backoff + 1) /\ usage \in Usages
            /\ spent \in Nat /\ stray \in Nat /\ bypassed \in Nat /\ failures \in Nat
        BY Bounds DEF Init
      <3> QED
        BY <3>1, <3>2 DEF TypeOK, RunRecord
    <2>3. Units(Current, run) = {} /\ Units(Over, run) = {}
      <3>1. Current = {} /\ Over = {}
        BY <2>1 DEF Init, Current, Over
      <3> QED
        BY <3>1 DEF Units
    <2>4. Covered
      BY <2>3, FS_EmptySet DEF Covered, Init
    <2>5. QuotaIsHonest /\ WindowBudget
      BY Bounds DEF Init, QuotaIsHonest, WindowBudget
    <2> QED
      BY <2>2, <2>4, <2>5 DEF QuotaInv
  <1>2. QuotaInv /\ [Next]_vars => QuotaInv'
    BY StepKeepsQuota
  <1> QED
    BY <1>1, <1>2, PTL DEF Spec

----------------------------------------------------------------------------
(* Failures.  A pass that fails and holds a reservation is paid for by the  *)
(* budget of its window, or has reserved over it or in an earlier window.    Of those  *)
(* there are no more at a time than runs, and the next ones reserve only    *)
(* when a backoff has passed since the last failure.                        *)

Holding == {r \in Runs : run[r].pc # "idle" /\ run[r].reserved > 0}
Paid    == {r \in Holding : ~run[r].late /\ ~run[r].over}
Unpaid  == {r \in Holding : run[r].late \/ run[r].over}

\* Failures in k rounds of all runs, and the time k backoffs take.
Share(k) == Cardinality(Runs) * k
Span(k)  == Backoff * k

Elapsed == IF WindowOver THEN Window ELSE window

\* v failures are paid for, and what is reserved within the budget covers as
\* many more as there are runs that reserved it.
Paying(v) == v + Cardinality(Units(Paid, run)) + bypassed <= spent

\* u failures are not: they, and those that may follow, fit k + 1 rounds.
Spread(u, k) == u + Cardinality(Unpaid) <= Share(k + 1) /\ Span(k) <= Elapsed

\* The rounds that have failed so far lie before the last failure.
Before(u, j) == u <= Share(j + 1) /\ Span(j) + (failure - 1) <= window
Apart(u) == WindowOver \/ u = 0 \/ (failure > 0 /\ \E j \in Nat : Before(u, j))

Split(u, v) == failures = u + v /\ Paying(v) /\ (\E k \in Nat : Spread(u, k)) /\ Apart(u)

Throttled == \E u \in Nat, v \in Nat : Split(u, v)

LEMMA Rounds ==
    ASSUME IsFiniteSet(Runs), NEW k \in Nat
    PROVE  /\ Cardinality(Runs) \in Nat
           /\ Share(k) \in Nat /\ Share(k + 1) \in Nat /\ Share(k + 1) = Share(k) + Cardinality(Runs)
           /\ Span(k) \in Nat /\ Span(k + 1) \in Nat /\ Span(k + 1) = Span(k) + Backoff
           /\ Share(0) = 0 /\ Span(0) = 0 /\ Share(0 + 1) = Cardinality(Runs)
  <1>1. Cardinality(Runs) \in Nat /\ Backoff \in Nat
    BY Bounds, FS_CardinalityType
  <1>2. Share(k) \in Nat /\ Share(k + 1) \in Nat /\ Share(k + 1) = Share(k) + Cardinality(Runs)
    BY <1>1 DEF Share
  <1>3. Span(k) \in Nat /\ Span(k + 1) \in Nat /\ Span(k + 1) = Span(k) + Backoff
    BY <1>1 DEF Span
  <1>4. Share(0) = 0 /\ Span(0) = 0 /\ Share(0 + 1) = Cardinality(Runs)
    BY <1>1 DEF Share, Span
  <1> QED
    BY <1>1, <1>2, <1>3, <1>4

\* Rounds that fit a window.
LEMMA RoundsInWindow ==
    ASSUME IsFiniteSet(Runs), NEW k \in Nat, Span(k) <= Window
    PROVE  Share(k + 1) <= Cardinality(Runs) * (1 + Window \div Backoff)
  <1> DEFINE N == Cardinality(Runs)
             q == Window \div Backoff
  <1>1. N \in Nat /\ Backoff \in Nat /\ Backoff > 0 /\ Window \in Nat
    BY Bounds, FS_CardinalityType
  <1>2. q \in Nat /\ Window < Backoff * (q + 1)
    BY <1>1
  <1> HIDE DEF q, N
  <1>3. k < q + 1
    <2> SUFFICES ASSUME k >= q + 1 PROVE FALSE
      BY <1>2
    <2>1. Backoff * (k - (q + 1)) >= 0
      BY <1>1, <1>2
    <2>2. Backoff * (k - (q + 1)) = Backoff * k - Backoff * (q + 1)
      BY <1>1, <1>2
    <2>3. Backoff * k \in Int /\ Backoff * (q + 1) \in Int
      BY <1>1, <1>2
    <2> QED
      BY <1>1, <1>2, <2>1, <2>2, <2>3 DEF Span
  <1>4. N * (q - k) >= 0
    BY <1>1, <1>2, <1>3
  <1>5. N * (q - k) = N * (1 + q) - N * (k + 1)
    BY <1>1, <1>2
  <1>6. N * (1 + q) \in Int /\ N * (k + 1) \in Int
    BY <1>1, <1>2
  <1> QED
    BY <1>4, <1>5, <1>6 DEF Share, N, q

\* The sets the account is about are finite.
LEMMA Counted ==
    ASSUME QuotaInv, IsFiniteSet(Runs)
    PROVE  /\ IsFiniteSet(Units(Paid, run)) /\ Cardinality(Units(Paid, run)) \in Nat
           /\ IsFiniteSet(Unpaid) /\ Cardinality(Unpaid) \in Nat /\ Cardinality(Unpaid) <= Cardinality(Runs)
           /\ Paid \in SUBSET Runs /\ Unpaid \in SUBSET Runs /\ Counters
           /\ run \in [Runs -> RunRecord] /\ TypeOK
           /\ failure \in Nat /\ window \in Nat /\ Window \in Nat /\ Backoff \in Nat /\ Cardinality(Runs) \in Nat
  <1>1. Units(Paid, run) \subseteq Units(Current, run)
    BY DEF Paid, Holding, Current, Units
  <1>2. IsFiniteSet(Units(Paid, run)) /\ Cardinality(Units(Paid, run)) \in Nat
    BY <1>1, FS_Subset, FS_CardinalityType DEF QuotaInv, Covered
  <1>3. /\ Paid \in SUBSET Runs /\ Unpaid \in SUBSET Runs
        /\ IsFiniteSet(Unpaid) /\ Cardinality(Unpaid) <= Cardinality(Runs)
    BY FS_Subset DEF Paid, Unpaid, Holding
  <1>4. Cardinality(Unpaid) \in Nat /\ Cardinality(Runs) \in Nat
    BY <1>3, FS_CardinalityType
  <1>5. TypeOK /\ run \in [Runs -> RunRecord]
    BY DEF QuotaInv, TypeOK, RunRecord
  <1>6. Counters /\ failure \in Nat /\ window \in Nat /\ Window \in Nat /\ Backoff \in Nat
    BY <1>5, Bounds DEF TypeOK, Counters
  <1> QED
    BY <1>2, <1>3, <1>4, <1>5, <1>6

\* A run that is over is neither paid nor unpaid for.
LEMMA RunLeavesShare ==
    ASSUME QuotaInv, IsFiniteSet(Runs), NEW r \in Runs, SetRun(r, IdleRun)
    PROVE  /\ Cardinality(Units(Paid', run')) \in Nat
           /\ Cardinality(Units(Paid', run')) + (IF r \in Paid THEN run[r].reserved ELSE 0)
                  = Cardinality(Units(Paid, run))
           /\ Cardinality(Unpaid') \in Nat
           /\ Cardinality(Unpaid') + (IF r \in Unpaid THEN 1 ELSE 0) = Cardinality(Unpaid)
  <1>0. /\ run \in [Runs -> RunRecord] /\ IsFiniteSet(Units(Paid, run)) /\ Paid \in SUBSET Runs
        /\ IsFiniteSet(Unpaid) /\ Cardinality(Unpaid) \in Nat
    BY Counted
  <1>1. IdleRun \in RunRecord /\ IdleRun.pc = "idle"
    BY Bounds DEF IdleRun, RunRecord
  <1>2. run' = [run EXCEPT ![r] = IdleRun]
    BY DEF SetRun
  <1>3. run' \in [Runs -> RunRecord] /\ run'[r].pc = "idle" /\ \A s \in Runs : s # r => run'[s] = run[s]
    BY <1>0, <1>1, <1>2
  <1>4. Paid' = Paid \ {r} /\ Unpaid' = Unpaid \ {r}
    BY <1>3 DEF Paid, Unpaid, Holding
  <1>5. Units(Paid', run') = Units(Paid \ {r}, run)
    <2>1. \A s \in Paid \ {r} : run'[s].reserved = run[s].reserved
      BY <1>3 DEF Paid, Holding
    <2> QED
      BY <1>4, <2>1, UnitsSame
  <1>6. /\ Cardinality(Units(Paid \ {r}, run)) \in Nat
        /\ Cardinality(Units(Paid, run)) =
              Cardinality(Units(Paid \ {r}, run)) + IF r \in Paid THEN run[r].reserved ELSE 0
    BY <1>0, UnitsOfOneLess
  <1>7. /\ IsFiniteSet(Unpaid \ {r})
        /\ Cardinality(Unpaid \ {r}) = IF r \in Unpaid THEN Cardinality(Unpaid) - 1 ELSE Cardinality(Unpaid)
    BY <1>0, FS_RemoveElement
  <1>8. Cardinality(Unpaid \ {r}) \in Nat
    BY <1>7, FS_CardinalityType
  <1>9. Cardinality(Unpaid') + (IF r \in Unpaid THEN 1 ELSE 0) = Cardinality(Unpaid)
    BY <1>0, <1>4, <1>7
  <1> QED
    BY <1>4, <1>5, <1>6, <1>8, <1>9

\* The clock, and a failure that is recorded: the rounds that have failed lie
\* before it.
ClockMoves ==
    \/ window' = window /\ failure' \in {failure, 1}
    \/ window' = (IF window > Window THEN window ELSE window + 1) /\
       failure' = (IF failure = 0 \/ failure > Backoff THEN failure ELSE failure + 1)

LEMMA ClockKeepsApart ==
    ASSUME QuotaInv, IsFiniteSet(Runs), ClockMoves,
           NEW u \in Nat, NEW k \in Nat, Spread(u, k), Apart(u)
    PROVE  Span(k) <= Elapsed' /\ Apart(u)'
  <1>0. /\ failure \in Nat /\ window \in Nat /\ Window \in Nat /\ window <= Window + 1
        /\ Cardinality(Unpaid) \in Nat
    BY Counted, Bounds DEF QuotaInv, TypeOK
  <1>1. /\ u + Cardinality(Unpaid) <= Share(k + 1) /\ Span(k) <= Elapsed
        /\ Span(k) \in Nat /\ Share(k + 1) \in Nat
    BY Rounds DEF Spread
  <1>2. CASE window' = window /\ failure' = failure
    BY <1>1, <1>2 DEF Elapsed, Apart, Before, WindowOver
  <1>3. CASE window' = window /\ failure' = 1
    <2>1. Span(k) <= Elapsed'
      BY <1>1, <1>3 DEF Elapsed, WindowOver
    <2>2. CASE WindowOver
      BY <1>3, <2>1, <2>2 DEF Apart, WindowOver
    <2>3. CASE ~WindowOver
      <3>1. Span(k) <= window
        BY <1>1, <2>3 DEF Elapsed
      <3>2. Before(u, k)'
        BY <1>0, <1>1, <1>3, <3>1 DEF Before
      <3>3. failure' > 0
        BY <1>3
      <3> QED
        BY <2>1, <3>2, <3>3 DEF Apart
    <2> QED
      BY <2>1, <2>2, <2>3
  <1>4. CASE /\ window' = IF window > Window THEN window ELSE window + 1
             /\ failure' = IF failure = 0 \/ failure > Backoff THEN failure ELSE failure + 1
    <2>0. Backoff \in Nat
      BY Bounds
    <2>1. Span(k) <= Elapsed'
      BY <1>0, <1>1, <1>4 DEF Elapsed, WindowOver
    <2>2. CASE WindowOver
      BY <1>4, <2>1, <2>2 DEF Apart, WindowOver
    <2>3. CASE u = 0
      BY <2>1, <2>3 DEF Apart
    <2>4. CASE ~WindowOver /\ u # 0
      <3>1. PICK j \in Nat : Before(u, j)
        BY <2>4 DEF Apart
      <3>2. failure > 0 /\ u <= Share(j + 1) /\ Span(j) + (failure - 1) <= window /\ Span(j) \in Nat
        BY <2>4, <3>1, Rounds DEF Apart, Before
      <3>3. window' = window + 1 /\ failure' > 0 /\ failure' <= failure + 1 /\ failure' \in Nat
        BY <1>0, <1>4, <2>0, <2>4, <3>2 DEF WindowOver
      <3>4. Span(j) + (failure' - 1) <= window'
        BY <1>0, <3>2, <3>3
      <3>5. Before(u, j)'
        BY <3>2, <3>4 DEF Before
      <3> QED
        BY <2>1, <3>3, <3>5 DEF Apart
    <2> QED
      BY <2>2, <2>3, <2>4
  <1> QED
    BY <1>2, <1>3, <1>4 DEF ClockMoves

\* Steps that neither reserve nor end a run.
LEMMA StillThrottled ==
    ASSUME QuotaInv, IsFiniteSet(Runs), Throttled, ClockMoves,
           Units(Paid', run') = Units(Paid, run), Unpaid' = Unpaid,
           UNCHANGED <<spent, bypassed, failures>>
    PROVE  Throttled'
  <1>1. PICK u \in Nat, v \in Nat : Split(u, v)
    BY DEF Throttled
  <1>2. PICK k \in Nat : Spread(u, k)
    BY <1>1 DEF Split
  <1>3. Span(k) <= Elapsed' /\ Apart(u)'
    BY <1>1, <1>2, ClockKeepsApart DEF Split
  <1>4. Spread(u, k)'
    BY <1>2, <1>3 DEF Spread
  <1>5. Paying(v)'
    BY <1>1 DEF Split, Paying
  <1>6. failures' = u + v
    BY <1>1 DEF Split
  <1>7. Split(u, v)'
    BY <1>3, <1>4, <1>5, <1>6 DEF Split
  <1> QED
    BY <1>7 DEF Throttled

\* A run that goes on keeps its reservation.
LEMMA GoingOnThrottled ==
    ASSUME QuotaInv, IsFiniteSet(Runs), Throttled, NEW r \in Runs, CallHistorian(r) \/ PassReturns(r)
    PROVE  Throttled'
  <1>0. run \in [Runs -> RunRecord]
    BY Counted
  <1>1. /\ run[r].pc # "idle" /\ UNCHANGED <<tokens, window, latch, failure, usage, history>>
        /\ \E pc \in {"awaiting", "validated"} : run' = [run EXCEPT ![r].pc = pc]
    BY DEF CallHistorian, PassReturns
  <1>2. /\ run'[r].pc # "idle"
        /\ \A s \in Runs : /\ run'[s].reserved = run[s].reserved /\ run'[s].late = run[s].late
                            /\ run'[s].over = run[s].over /\ (s # r => run'[s].pc = run[s].pc)
    BY <1>0, <1>1 DEF RunRecord
  <1>3. Paid' = Paid /\ Unpaid' = Unpaid
    BY <1>1, <1>2 DEF Paid, Unpaid, Holding
  <1>4. Units(Paid', run') = Units(Paid, run)
    <2>1. \A s \in Paid : run'[s].reserved = run[s].reserved
      BY <1>2 DEF Paid, Holding
    <2> QED
      BY <1>3, <2>1, UnitsSame
  <1>5. ClockMoves
    BY <1>1 DEF ClockMoves
  <1> QED
    BY <1>1, <1>3, <1>4, <1>5, StillThrottled DEF history

\* A run without a reservation is not counted.
LEMMA TakingNothingThrottled ==
    ASSUME QuotaInv, IsFiniteSet(Runs), Throttled, NEW r \in Runs, ReserveNothing(r)
    PROVE  Throttled'
  <1> DEFINE new == [pc |-> "reserved", reserved |-> 0, over |-> FALSE, late |-> FALSE]
  <1>0. run \in [Runs -> RunRecord]
    BY Counted
  <1>1. /\ run[r].pc = "idle" /\ run' = [run EXCEPT ![r] = new] /\ new.reserved = 0
        /\ UNCHANGED <<tokens, window, latch, failure, usage, history>>
    BY DEF ReserveNothing, SetRun
  <1> HIDE DEF new
  <1>2. run'[r] = new /\ \A s \in Runs : s # r => run'[s] = run[s]
    BY <1>0, <1>1
  <1>3. r \notin Holding /\ r \notin Holding'
    BY <1>1, <1>2 DEF Holding
  <1>4. Paid' = Paid /\ Unpaid' = Unpaid
    BY <1>2, <1>3 DEF Paid, Unpaid, Holding
  <1>5. Units(Paid', run') = Units(Paid, run)
    <2>1. \A s \in Paid : run'[s].reserved = run[s].reserved
      BY <1>2, <1>3 DEF Paid, Holding
    <2> QED
      BY <1>4, <2>1, UnitsSame
  <1>6. ClockMoves
    BY <1>1 DEF ClockMoves
  <1> QED
    BY <1>1, <1>4, <1>5, <1>6, StillThrottled DEF history

\* A run that ends without a failure, or holds no reservation: what it reserved
\* within the budget stays in the history or comes back whole.
LEMMA LeavingThrottled ==
    ASSUME QuotaInv, IsFiniteSet(Runs), Throttled, NEW r \in Runs,
           \/ Crash(r) \/ EmptyChunk(r) \/ FailEarly(r) \/ NotPublished(r) \/ PublicationFailsLate(r)
           \/ PassFails(r) /\ ~(run[r].reserved > 0)
    PROVE  Throttled'
  <1>1. /\ SetRun(r, IdleRun) /\ run[r].pc # "idle" /\ UNCHANGED <<window, failures>>
        /\ failure' \in {failure, 1}
        /\ Returned(r) \/ UNCHANGED <<spent, bypassed>>
    BY DEF Crash, EmptyChunk, FailEarly, NotPublished, PublicationFailsLate, PassFails, GiveBack, history
  <1>2. PICK u \in Nat, v \in Nat : Split(u, v)
    BY DEF Throttled
  <1>3. PICK k \in Nat : Spread(u, k)
    BY <1>2 DEF Split
  <1> DEFINE n == run[r].reserved
             P == Cardinality(Units(Paid, run))
             Q == Cardinality(Units(Paid', run'))
             C == Cardinality(Unpaid)
             D == Cardinality(Unpaid')
  <1>4. /\ Q \in Nat /\ Q + (IF r \in Paid THEN n ELSE 0) = P
        /\ D \in Nat /\ D + (IF r \in Unpaid THEN 1 ELSE 0) = C
    BY <1>1, RunLeavesShare
  <1>5. run[r] \in RunRecord /\ n \in Nat /\ Counters /\ P \in Nat /\ C \in Nat
    <2>1. run[r] \in RunRecord
      BY Counted
    <2> QED
      BY <2>1, Counted, Bounds DEF RunRecord
  <1>6. r \in Paid <=> n > 0 /\ ~run[r].late /\ ~run[r].over
    BY <1>1 DEF Paid, Holding
  <1>7. \/ spent' = spent /\ bypassed' = bypassed
        \/ spent' = spent - n /\ bypassed' = bypassed - n /\ r \notin Paid
        \/ spent' = spent - n /\ bypassed' = bypassed /\ (r \in Paid \/ n = 0)
    BY <1>1, <1>5, <1>6 DEF Returned
  <1>8. v + P + bypassed <= spent
    BY <1>2 DEF Split, Paying
  <1>9. ClockMoves
    BY <1>1 DEF ClockMoves
  <1>10. Span(k) <= Elapsed' /\ Apart(u)'
    BY <1>2, <1>3, <1>9, ClockKeepsApart DEF Split
  <1>11. u + C <= Share(k + 1) /\ Share(k + 1) \in Nat
    BY <1>3, Rounds DEF Spread
  <1> HIDE DEF n, P, Q, C, D
  <1>12. v + Q + bypassed' <= spent' /\ u + D <= Share(k + 1)
    BY <1>4, <1>5, <1>7, <1>8, <1>11 DEF Counters
  <1>13. Paying(v)' /\ Spread(u, k)'
    BY <1>10, <1>12 DEF Paying, Spread, Q, D
  <1>14. failures' = u + v
    BY <1>1, <1>2 DEF Split
  <1>15. Split(u, v)'
    BY <1>10, <1>13, <1>14 DEF Split
  <1> QED
    BY <1>15 DEF Throttled

\* A pass that fails is paid for by its reservation, or uses up its share of
\* the round.
LEMMA FailingThrottled ==
    ASSUME QuotaInv, IsFiniteSet(Runs), Throttled, NEW r \in Runs, PassFails(r), run[r].reserved > 0
    PROVE  Throttled'
  <1>1. /\ SetRun(r, IdleRun) /\ run[r].pc # "idle" /\ window' = window /\ failure' = 1
        /\ failures' = failures + 1 /\ UNCHANGED <<spent, bypassed>>
    BY DEF PassFails
  <1>2. PICK u \in Nat, v \in Nat : Split(u, v)
    BY DEF Throttled
  <1>3. PICK k \in Nat : Spread(u, k)
    BY <1>2 DEF Split
  <1> DEFINE n == run[r].reserved
             P == Cardinality(Units(Paid, run))
             Q == Cardinality(Units(Paid', run'))
             C == Cardinality(Unpaid)
             D == Cardinality(Unpaid')
  <1>4. /\ Q \in Nat /\ Q + (IF r \in Paid THEN n ELSE 0) = P
        /\ D \in Nat /\ D + (IF r \in Unpaid THEN 1 ELSE 0) = C
    BY <1>1, RunLeavesShare
  <1>5. n \in Nat /\ n > 0 /\ Counters /\ P \in Nat /\ C \in Nat
    <2>1. run[r] \in RunRecord
      BY Counted
    <2> QED
      BY <2>1, Counted, Bounds DEF RunRecord
  <1>6. r \in Paid \/ (r \in Unpaid /\ r \notin Paid)
    BY <1>1 DEF Paid, Unpaid, Holding
  <1>7. v + P + bypassed <= spent /\ failures = u + v
    BY <1>2 DEF Split, Paying
  <1>8. u + C <= Share(k + 1) /\ Share(k + 1) \in Nat /\ Span(k) <= Elapsed /\ Span(k) \in Nat
    BY <1>3, Rounds DEF Spread
  <1>9. Elapsed' = Elapsed /\ (~WindowOver => Span(k) <= window) /\ (WindowOver' <=> WindowOver)
    BY <1>1, <1>8 DEF Elapsed, WindowOver
  <1>10. window \in Nat
    BY Counted
  <1> HIDE DEF n, P, Q, C, D
  <1>11. PICK x \in Nat, y \in Nat : /\ x + y = failures + 1 /\ y + Q + bypassed <= spent
                                     /\ x + D <= Share(k + 1)
    <2>1. CASE r \in Paid
      <3>1. u + (v + 1) = failures + 1 /\ (v + 1) + Q + bypassed <= spent /\ u + D <= Share(k + 1)
        BY <1>4, <1>5, <1>7, <1>8, <2>1 DEF Counters
      <3>2. v + 1 \in Nat
        OBVIOUS
      <3> QED
        BY <3>1, <3>2
    <2>2. CASE r \in Unpaid /\ r \notin Paid
      <3>1. (u + 1) + v = failures + 1 /\ v + Q + bypassed <= spent /\ (u + 1) + D <= Share(k + 1)
        BY <1>4, <1>5, <1>7, <1>8, <2>2 DEF Counters
      <3>2. u + 1 \in Nat
        OBVIOUS
      <3> QED
        BY <3>1, <3>2
    <2> QED
      BY <1>6, <2>1, <2>2
  <1>12. Paying(y)' /\ Spread(x, k)'
    BY <1>1, <1>8, <1>9, <1>11 DEF Paying, Spread, Q, D
  <1>13. Apart(x)'
    <2>1. CASE WindowOver
      BY <1>9, <2>1 DEF Apart
    <2>2. CASE ~WindowOver
      <3>1. x <= Share(k + 1) /\ Span(k) + (failure' - 1) <= window' /\ failure' > 0
        BY <1>1, <1>4, <1>8, <1>9, <1>10, <1>11, <2>2
      <3>2. Before(x, k)'
        BY <3>1 DEF Before
      <3> QED
        BY <3>1, <3>2 DEF Apart
    <2> QED
      BY <2>1, <2>2
  <1>14. Split(x, y)'
    BY <1>1, <1>11, <1>12, <1>13 DEF Split
  <1> QED
    BY <1>14 DEF Throttled

\* The account begins anew.
LEMMA FreshThrottled ==
    ASSUME QuotaInv', IsFiniteSet(Runs), failures' = 0, Cardinality(Units(Paid', run')) + bypassed' <= spent'
    PROVE  Throttled'
  <1>1. TypeOK' /\ IsFiniteSet(Unpaid') /\ Cardinality(Unpaid') <= Cardinality(Runs)
    BY FS_Subset DEF QuotaInv, Unpaid, Holding
  <1>2. window' \in Nat /\ spent' \in Nat /\ bypassed' \in Nat /\ Window \in Nat /\ Cardinality(Runs) \in Nat
    BY <1>1, Bounds, FS_CardinalityType DEF TypeOK
  <1>3. Cardinality(Unpaid') \in Nat
    BY <1>1, FS_CardinalityType
  <1>4. Span(0) = 0 /\ Share(0 + 1) = Cardinality(Runs)
    BY Rounds
  <1>5. Spread(0, 0)'
    BY <1>1, <1>2, <1>3, <1>4 DEF Spread, Elapsed
  <1>6. Apart(0)'
    BY DEF Apart
  <1>7. Paying(0)'
    <2>1. IsFiniteSet(Units(Paid', run'))
      <3>1. Units(Paid', run') \subseteq Units(Current', run')
        BY DEF Paid, Holding, Current, Units
      <3> QED
        BY <3>1, FS_Subset DEF QuotaInv, Covered
    <2>2. Cardinality(Units(Paid', run')) \in Nat
      BY <2>1, FS_CardinalityType
    <2> QED
      BY <1>2, <2>2 DEF Paying
  <1>8. Split(0, 0)'
    BY <1>5, <1>6, <1>7 DEF Split
  <1> QED
    BY <1>8 DEF Throttled

LEMMA PublishingThrottled ==
    ASSUME QuotaInv, QuotaInv', IsFiniteSet(Runs), Throttled, NEW r \in Runs, Publish(r)
    PROVE  Throttled'
  <1>1. SetRun(r, IdleRun) /\ failures' = 0 /\ UNCHANGED <<spent, bypassed>>
    BY DEF Publish
  <1>2. PICK u \in Nat, v \in Nat : Split(u, v)
    BY DEF Throttled
  <1> DEFINE n == run[r].reserved
             P == Cardinality(Units(Paid, run))
             Q == Cardinality(Units(Paid', run'))
  <1>3. Q \in Nat /\ Q + (IF r \in Paid THEN n ELSE 0) = P
    BY <1>1, RunLeavesShare
  <1>4. n \in Nat /\ Counters /\ P \in Nat
    <2>1. run[r] \in RunRecord
      BY Counted
    <2> QED
      BY <2>1, Counted, Bounds DEF RunRecord
  <1>5. v + P + bypassed <= spent
    BY <1>2 DEF Split, Paying
  <1> HIDE DEF n, P, Q
  <1>6. Q + bypassed' <= spent'
    BY <1>1, <1>3, <1>4, <1>5 DEF Counters
  <1> QED
    BY <1>1, <1>3, <1>6, FreshThrottled DEF Q

\* The runs that have paid and those that have not, after a reservation.
LEMMA SharesAfter ==
    ASSUME TypeOK, NEW r \in Runs, NEW n \in 0..Cap, run[r].pc = "idle", run' = RunsAfterReserve(r, n)
    PROVE  /\ r \in Paid' <=> n # 0 /\ Remaining # 0
           /\ r \in Unpaid' <=> n # 0 /\ Remaining = 0
           /\ ~WindowOver => Paid' \ {r} = Paid /\ Unpaid' \ {r} = Unpaid
           /\ WindowOver => Paid' \ {r} = {}
           /\ r \notin Paid /\ r \notin Unpaid
  <1>0. run \in [Runs -> RunRecord] /\ n \in Nat
    BY DEF TypeOK, RunRecord
  <1>1. /\ run'[r] = IF n = 0 THEN IdleRun
                     ELSE [pc |-> "reserved", reserved |-> n, over |-> Remaining = 0, late |-> FALSE]
        /\ \A s \in Runs : s # r => run'[s] = IF WindowOver /\ run[s].pc # "idle"
                                               THEN [run[s] EXCEPT !.late = TRUE] ELSE run[s]
    BY DEF RunsAfterReserve
  <1>2. /\ n = 0 => run'[r].pc = "idle"
        /\ n # 0 => /\ run'[r].pc # "idle" /\ ~run'[r].late /\ (run'[r].over <=> Remaining = 0)
                    /\ run'[r].reserved = n
    <2>1. CASE n = 0
      BY <1>1, <2>1 DEF IdleRun
    <2>2. CASE n # 0
      <3>1. run'[r] = [pc |-> "reserved", reserved |-> n, over |-> (Remaining = 0), late |-> FALSE]
        BY <1>1, <2>2
      <3>2. /\ run'[r].reserved = n /\ run'[r].pc = "reserved"
            /\ run'[r].over = (Remaining = 0) /\ run'[r].late = FALSE
        BY <3>1
      <3> QED
        BY <2>2, <3>2
    <2> QED
      BY <2>1, <2>2
  <1>3. ASSUME NEW s \in Runs, s # r
        PROVE  /\ run'[s].reserved = run[s].reserved /\ run'[s].pc = run[s].pc /\ run'[s].over = run[s].over
               /\ ~WindowOver => run'[s].late = run[s].late
               /\ WindowOver /\ run[s].pc # "idle" => run'[s].late
    <2>1. CASE WindowOver /\ run[s].pc # "idle"
      <3>1. run'[s] = [run[s] EXCEPT !.late = TRUE] /\ run[s] \in RunRecord
        BY <1>0, <1>1, <1>3, <2>1
      <3> QED
        BY <2>1, <3>1 DEF RunRecord
    <2>2. CASE ~(WindowOver /\ run[s].pc # "idle")
      <3>1. run'[s] = run[s]
        BY <1>1, <1>3, <2>2
      <3> QED
        BY <2>2, <3>1
    <2> QED
      BY <2>1, <2>2
  <1>5. (r \in Paid' <=> n # 0 /\ Remaining # 0) /\ (r \in Unpaid' <=> n # 0 /\ Remaining = 0)
    BY <1>0, <1>2 DEF Paid, Unpaid, Holding
  <1>6. ~WindowOver => Paid' \ {r} = Paid /\ Unpaid' \ {r} = Unpaid
    BY <1>3 DEF Paid, Unpaid, Holding
  <1>7. WindowOver => Paid' \ {r} = {}
    BY <1>3 DEF Paid, Holding
  <1> QED
    BY <1>5, <1>6, <1>7 DEF Paid, Unpaid, Holding

\* A reservation over the budget waits for the backoff, and a window that
\* begins has no failures.
LEMMA ReservingThrottled ==
    ASSUME QuotaInv, QuotaInv', IsFiniteSet(Runs), Throttled,
           NEW r \in Runs, NEW requested \in 1..(Cap + 1), Reserve(r, requested)
    PROVE  Throttled'
  <1> DEFINE n == Granted(requested)
  <1>0. /\ TypeOK /\ Counters /\ run \in [Runs -> RunRecord]
        /\ failure \in Nat /\ window \in Nat /\ Window \in Nat /\ Backoff \in Nat /\ Cardinality(Runs) \in Nat
        /\ IsFiniteSet(Units(Paid, run)) /\ Cardinality(Units(Paid, run)) \in Nat
        /\ IsFiniteSet(Unpaid) /\ Cardinality(Unpaid) \in Nat
        /\ Paid \in SUBSET Runs /\ Unpaid \in SUBSET Runs
    BY Counted
  <1>1. Remaining \in Nat /\ n \in 0..Cap /\ (WindowOver => Remaining > 0)
    BY <1>0, GrantedBounds
  <1>2. /\ run[r].pc = "idle" /\ run' = RunsAfterReserve(r, n) /\ UNCHANGED failure
        /\ WindowOver => spent' = n /\ bypassed' = (IF Remaining = 0 THEN n ELSE 0) /\ failures' = 0
        /\ ~WindowOver => /\ spent' = spent + n /\ bypassed' = bypassed + (IF Remaining = 0 THEN n ELSE 0)
                          /\ failures' = failures /\ window' = window
    <2>1. n \in Nat
      BY <1>1, Bounds
    <2> QED
      BY <2>1 DEF Reserve
  <1>g. n # 0 /\ Remaining = 0 => ~InFailureBackoff
    BY DEF Granted
  <1>n. n \in Nat
    BY <1>1, Bounds
  <1> HIDE DEF n
  <1>3. /\ (r \in Paid' <=> n # 0 /\ Remaining # 0) /\ (r \in Unpaid' <=> n # 0 /\ Remaining = 0)
        /\ ~WindowOver => Paid' \ {r} = Paid /\ Unpaid' \ {r} = Unpaid
        /\ WindowOver => Paid' \ {r} = {}
        /\ r \notin Paid /\ r \notin Unpaid
    BY <1>0, <1>1, <1>2, SharesAfter
  <1>4. /\ run' \in [Runs -> RunRecord] /\ run'[r].reserved = n
        /\ \A s \in Runs : s # r => run'[s].reserved = run[s].reserved
    BY <1>0, <1>1, <1>2, RunsAfter
  <1> DEFINE P == Cardinality(Units(Paid, run))
             Q == Cardinality(Units(Paid', run'))
             C == Cardinality(Unpaid)
             D == Cardinality(Unpaid')
  <1>5. ASSUME NEW B \in SUBSET Runs, r \notin B, Paid' \ {r} = B, IsFiniteSet(Units(B, run'))
        PROVE  Q = Cardinality(Units(B, run')) + (IF Remaining # 0 THEN n ELSE 0)
    <2>0. Cardinality(Units(B, run')) \in Nat
      BY <1>5, FS_CardinalityType
    <2>1. CASE r \in Paid'
      <3>1. Paid' = B \cup {r}
        BY <1>5, <2>1
      <3>2. Cardinality(Units(B \cup {r}, run')) = Cardinality(Units(B, run')) + n
        BY <1>4, <1>5, UnitsOfOneMore
      <3> QED
        BY <1>3, <2>1, <3>1, <3>2
    <2>2. CASE r \notin Paid'
      <3>1. Paid' = B
        BY <1>5, <2>2
      <3>2. Q = Cardinality(Units(B, run')) /\ (n = 0 \/ Remaining = 0)
        BY <1>3, <2>2, <3>1
      <3> QED
        BY <1>n, <2>0, <3>2
    <2> QED
      BY <2>1, <2>2
  <1>6. CASE WindowOver
    <2>1. IsFiniteSet(Units({}, run')) /\ Cardinality(Units({}, run')) = 0
      <3>1. Units({}, run') = {}
        BY DEF Units
      <3> QED
        BY <3>1, FS_EmptySet
    <2>2. Q = 0 + (IF Remaining # 0 THEN n ELSE 0)
      BY <1>3, <1>5, <1>6, <2>1
    <2>3. Remaining # 0
      BY <1>1, <1>6
    <2> HIDE DEF P, Q, C, D
    <2>4. Q + bypassed' <= spent' /\ failures' = 0
      BY <1>2, <1>6, <1>n, <2>2, <2>3
    <2> QED
      BY <1>3, <2>4, FreshThrottled DEF Q
  <1>7. CASE ~WindowOver
    <2>1. PICK u \in Nat, v \in Nat : Split(u, v)
      BY DEF Throttled
    <2>2. PICK k \in Nat : Spread(u, k)
      BY <2>1 DEF Split
    <2>3. v + P + bypassed <= spent /\ failures = u + v /\ Apart(u)
      BY <2>1 DEF Split, Paying
    <2>4. Units(Paid, run') = Units(Paid, run)
      <3>1. \A s \in Paid : run'[s].reserved = run[s].reserved
        BY <1>0, <1>3, <1>4
      <3> QED
        BY <3>1, UnitsSame
    <2>5. Q = P + (IF Remaining # 0 THEN n ELSE 0)
      BY <1>0, <1>3, <1>5, <1>7, <2>4
    <2>6. Paying(v)'
      <3>1. P \in Nat
        BY <1>0
      <3> HIDE DEF P, Q
      <3>2. v + Q + bypassed' <= spent'
        BY <1>0, <1>2, <1>7, <1>n, <2>3, <2>5, <3>1 DEF Counters
      <3> QED
        BY <3>2 DEF Paying, Q
    <2>7. Apart(u)' /\ Elapsed' = Elapsed /\ Elapsed = window
      BY <1>2, <1>7, <2>3 DEF Apart, Before, WindowOver, Elapsed
    <2>8. \E m \in Nat : Spread(u, m)'
      <3>1. CASE r \notin Unpaid'
        <4>1. Unpaid' = Unpaid
          BY <1>3, <1>7, <3>1
        <4>2. Spread(u, k)'
          BY <2>2, <2>7, <4>1 DEF Spread
        <4> QED
          BY <4>2
      <3>2. CASE r \in Unpaid'
        <4>1. Unpaid' = Unpaid \cup {r} /\ r \notin Unpaid /\ n # 0 /\ Remaining = 0
          BY <1>3, <1>7, <3>2
        <4>2. D = C + 1
          BY <1>0, <4>1, FS_AddElement
        <4>3. D \in Nat /\ D <= Cardinality(Runs)
          <5>1. Unpaid' \subseteq Runs
            BY DEF Unpaid, Holding
          <5> QED
            BY <5>1, FS_Subset, FS_CardinalityType
        <4>4. ~InFailureBackoff
          BY <1>g, <4>1
        <4>5. CASE u = 0
          <5>1. Span(0) = 0 /\ Share(0 + 1) = Cardinality(Runs)
            BY Rounds
          <5> HIDE DEF D, C, P, Q
          <5>2. u + D <= Share(0 + 1) /\ Span(0) <= Elapsed'
            BY <1>0, <2>7, <4>3, <4>5, <5>1
          <5>3. Spread(u, 0)'
            BY <5>2 DEF Spread, D
          <5> QED
            BY <5>3
        <4>6. CASE u # 0
          <5>1. PICK j \in Nat : Before(u, j)
            BY <1>7, <2>3, <4>6 DEF Apart
          <5>2. u <= Share(j + 1) /\ Span(j) + (failure - 1) <= window /\ failure > 0
            BY <1>7, <2>3, <4>6, <5>1 DEF Apart, Before
          <5>3. failure - 1 >= Backoff
            BY <1>0, <4>4, <5>2 DEF InFailureBackoff
          <5>4. /\ Span(j) \in Nat /\ Span(j + 1) \in Nat /\ Span(j + 1) = Span(j) + Backoff /\ Share(j + 1) \in Nat
            BY Rounds
          <5>5. j + 1 \in Nat
            OBVIOUS
          <5>6. Share((j + 1) + 1) = Share(j + 1) + Cardinality(Runs)
            BY <5>5, Rounds
          <5> HIDE DEF D, C, P, Q
          <5>7. u + D <= Share((j + 1) + 1)
            BY <1>0, <4>3, <5>2, <5>4, <5>6
          <5>8. Span(j + 1) <= Elapsed'
            BY <1>0, <2>7, <5>2, <5>3, <5>4
          <5>9. Spread(u, j + 1)'
            BY <5>7, <5>8 DEF Spread, D
          <5> QED
            BY <5>5, <5>9
        <4> QED
          BY <4>5, <4>6
      <3> QED
        BY <3>1, <3>2
    <2>9. failures' = u + v
      BY <1>2, <1>7, <2>3
    <2>10. Split(u, v)'
      BY <2>6, <2>7, <2>8, <2>9 DEF Split
    <2> QED
      BY <2>10 DEF Throttled
  <1> QED
    BY <1>6, <1>7

LEMMA StepThrottled ==
    ASSUME QuotaInv, QuotaInv', IsFiniteSet(Runs), Throttled, [Next]_vars
    PROVE  Throttled'
  <1>1. CASE UNCHANGED vars \/ Tick \/ UsageMoves \/ NoEligibleHead
    <2>1. UNCHANGED <<run, spent, bypassed, failures>>
      BY <1>1 DEF vars, history, Tick, UsageMoves, NoEligibleHead
    <2>2. ClockMoves
      BY <1>1 DEF ClockMoves, vars, Tick, UsageMoves, NoEligibleHead
    <2>3. Paid' = Paid /\ Unpaid' = Unpaid
      BY <2>1 DEF Holding, Paid, Unpaid
    <2> QED
      BY <2>1, <2>2, <2>3, StillThrottled
  <1>2. CASE Ask
    BY <1>2, ReservingThrottled DEF Ask
  <1>3. ASSUME NEW r \in Runs, ReserveNothing(r) \/ Go(r) \/ Crash(r) PROVE Throttled'
    BY <1>3, TakingNothingThrottled, GoingOnThrottled, LeavingThrottled, FailingThrottled,
       PublishingThrottled DEF Go
  <1> QED
    BY <1>1, <1>2, <1>3 DEF Next

LEMMA InitThrottled == IsFiniteSet(Runs) /\ Init /\ QuotaInv => Throttled
  <1> SUFFICES ASSUME IsFiniteSet(Runs), Init, QuotaInv PROVE Throttled
    OBVIOUS
  <1>1. \A r \in Runs : run[r].pc = "idle"
    BY DEF Init, IdleRun
  <1>2. Paid = {} /\ Unpaid = {}
    BY <1>1 DEF Holding, Paid, Unpaid
  <1>3. Units(Paid, run) = {}
    BY <1>2 DEF Units
  <1>4. Cardinality(Units(Paid, run)) = 0 /\ Cardinality(Unpaid) = 0
    BY <1>2, <1>3, FS_EmptySet
  <1>5. Span(0) = 0 /\ Share(0 + 1) = Cardinality(Runs) /\ Cardinality(Runs) \in Nat
    BY Rounds
  <1>6. Window \in Nat /\ window = Window + 1 /\ spent = 0 /\ bypassed = 0 /\ failures = 0
    BY Bounds DEF Init
  <1>7. Spread(0, 0)
    BY <1>4, <1>5, <1>6 DEF Spread, Elapsed, WindowOver
  <1>8. Paying(0) /\ Apart(0)
    BY <1>4, <1>6 DEF Paying, Apart
  <1>9. Split(0, 0)
    BY <1>6, <1>7, <1>8 DEF Split
  <1> QED
    BY <1>9 DEF Throttled

LEMMA ThrottledBounds == IsFiniteSet(Runs) /\ QuotaInv /\ Throttled => FailuresThrottled
  <1> SUFFICES ASSUME IsFiniteSet(Runs), QuotaInv, Throttled PROVE FailuresThrottled
    OBVIOUS
  <1>0. Counters /\ Cardinality(Units(Paid, run)) \in Nat /\ Cardinality(Unpaid) \in Nat
    BY Counted
  <1>1. PICK u \in Nat, v \in Nat : Split(u, v)
    BY DEF Throttled
  <1>2. PICK k \in Nat : Spread(u, k)
    BY <1>1 DEF Split
  <1> DEFINE limit == Cardinality(Runs) * (1 + Window \div Backoff)
  <1>3. Span(k) <= Window /\ Window \in Nat /\ TopBudget \in Nat /\ Backoff \in Nat /\ Backoff > 0
    <2>1. window \in Nat /\ Window \in Nat /\ Span(k) \in Nat
      BY Counted, Rounds
    <2> QED
      BY <1>2, <2>1, Bounds DEF Spread, Elapsed, WindowOver
  <1>4. Share(k + 1) <= limit /\ Share(k + 1) \in Nat
    BY <1>3, RoundsInWindow, Rounds
  <1>5. limit \in Nat
    <2> DEFINE q == Window \div Backoff
               N == Cardinality(Runs)
    <2>1. q \in Nat
      BY <1>3
    <2>2. N \in Nat
      BY Rounds
    <2> HIDE DEF q, N
    <2>3. N * (1 + q) \in Nat
      BY <2>1, <2>2
    <2> QED
      BY <2>3 DEF q, N
  <1>6. /\ failures = u + v /\ v + Cardinality(Units(Paid, run)) + bypassed <= spent
        /\ u + Cardinality(Unpaid) <= Share(k + 1)
    BY <1>1, <1>2 DEF Split, Paying, Spread
  <1>7. spent <= TopBudget + bypassed + stray
    BY DEF QuotaInv, WindowBudget
  <1> HIDE DEF limit
  <1>8. failures <= TopBudget + stray + limit
    BY <1>0, <1>3, <1>4, <1>5, <1>6, <1>7 DEF Counters
  <1> QED
    BY <1>8 DEF FailuresThrottled, limit

----------------------------------------------------------------------------
(* Theorems *)

\* The counter, the clocks and the histories keep their types: no reservation
\* is given back that its window's history does not hold, so no history goes
\* below zero.
THEOREM QuotaTypeCorrect == Spec => []TypeOK
  BY QuotaInvHolds, PTL DEF QuotaInv

\* However runs overlap, crash, fail and give back, the counter is what the
\* window cost, less at most what runs of earlier windows gave back to it.
THEOREM CounterIsHonest == Spec => []QuotaIsHonest
  BY QuotaInvHolds, PTL DEF QuotaInv

\* A window costs more than its budget only by what the latch let through and
\* what came back late.
THEOREM WindowKeepsBudget == Spec => []WindowBudget
  BY QuotaInvHolds, PTL DEF QuotaInv

\* However runs overlap, crash and give back, and however the usage moves, the
\* passes that fail between two publications of a window are as many as its
\* budget has tokens, and a round of all runs for each backoff that fits the
\* window and one more; for any finite number of runs.
THEOREM FailuresAreThrottled == IsFiniteSet(Runs) => (Spec => []FailuresThrottled)
  <1> SUFFICES ASSUME IsFiniteSet(Runs) PROVE Spec => []FailuresThrottled
    OBVIOUS
  <1>1. Init /\ QuotaInv => Throttled
    BY InitThrottled
  <1>2. QuotaInv /\ QuotaInv' /\ Throttled /\ [Next]_vars => Throttled'
    BY StepThrottled
  <1>3. QuotaInv /\ Throttled => FailuresThrottled
    BY ThrottledBounds
  <1> QED
    BY <1>1, <1>2, <1>3, QuotaInvHolds, PTL DEF Spec

=============================================================================
