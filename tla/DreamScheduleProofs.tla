--------------------------- MODULE DreamScheduleProofs ---------------------------
(***************************************************************************)
(* What is proved about the dreamer's schedule, for any number of passes   *)
(* and tasks and any number of crashes and lapses: a slot sees a bounded   *)
(* number of executions and is not given up without one.                   *)
(***************************************************************************)
EXTENDS DreamSchedule, FiniteSetTheorems, WellFoundedInduction, TLAPS

----------------------------------------------------------------------------
(* Types *)

PassRecord == [pc : Steps, late : SUBSET Tasks, due : SUBSET Tasks, todo : SUBSET Tasks,
               at : 0..NTasks, forced : BOOLEAN, manual : BOOLEAN, prior : Row]

\* Between the start of a task and the record of its outcome.
Working == {"exec", "completed", "failed", "transient", "record"}

\* With a task in hand, in the plan or under the lease.
InHand == Working \cup Planning \cup {"closed", "skipped"}

\* A task that is disabled is never due, and a row that is absent counts nothing.
Sound(r) == (r.schedule = "blank" => r.due = "null") /\ (r.due = "absent" => r.retry = 0)

\* The task in hand is one of the domain's, and the row that is about to be
\* reconciled was a proper one, of another schedule.
Proper(p, r) == /\ r.pc \in InHand => r.at \in Tasks
                /\ r.pc = "rewrite" => Sound(r.prior) /\ r.prior.schedule # Schedule(p)

AtTask == \A p \in Passes : Proper(p, pass[p])

RowsSound == \A t \in Tasks : Sound(row[t])

TypeInv == TypeOK /\ AtTask /\ RowsSound

LEMMA Bounds ==
    /\ NTasks \in Nat /\ MaxRetries \in Nat /\ MaxFaults \in Nat /\ Tasks \subseteq 0..NTasks
    /\ Tasks \subseteq Nat /\ 1 \in Tasks /\ NTasks \in Tasks
  BY BoundsAssumption DEF Tasks

LEMMA ProperAtWork ==
    ASSUME NEW p \in Passes, NEW r, r.pc \in Working, r.at \in Tasks
    PROVE  Proper(p, r)
  BY DEF Proper, Working

LEMMA ProperAtRest ==
    ASSUME NEW p \in Passes, NEW r, r.pc \in {"idle", "gate", "acquire", "next"}
    PROVE  Proper(p, r)
  BY DEF Proper, InHand, Working, Planning

\* The rows a pass writes.
LEMMA RowsWritten ==
    ASSUME NEW p \in Passes, NEW r \in Row, Sound(r)
    PROVE  /\ NoRow \in Row /\ Advanced(p) \in Row /\ Advanced(p).retry = 0 /\ Sound(Advanced(p))
           /\ Seeded(p, r) \in Row /\ Seeded(p, r).retry = r.retry /\ Sound(Seeded(p, r))
           /\ r.due = "due" => Seeded(p, r).due = "due"
  <1>0. 0 \in 0..MaxRetries
    BY Bounds
  <1>1. /\ NoRow \in Row /\ Advanced(p) \in Row /\ Advanced(p).retry = 0
        /\ Sound(Advanced(p))
    BY <1>0 DEF NoRow, Advanced, NextDue, Schedule, Row, Dues, Schedules, Sound
  <1>2. /\ Seeded(p, r) \in Row /\ Seeded(p, r).retry = r.retry /\ Sound(Seeded(p, r))
        /\ r.due = "due" => Seeded(p, r).due = "due"
    BY <1>0 DEF Seeded, NextDue, Schedule, Row, Dues, Schedules, Sound
  <1> QED
    BY <1>1, <1>2

\* What reconcileSchedule writes, from a row of another schedule: the count it
\* has read, or the next slot.
LEMMA ReconciledRow ==
    ASSUME NEW p \in Passes, NEW r \in Row, Sound(r), r.schedule # Schedule(p)
    PROVE  LET n == Reconciled(p, r) IN
           /\ n \in Row /\ Sound(n) /\ (n = Advanced(p) \/ n.retry = r.retry)
           /\ r.due = "due" => n.due # "future"
  <1>0. /\ Advanced(p) \in Row /\ Sound(Advanced(p)) /\ r.retry \in 0..MaxRetries
        /\ r.due \in Dues /\ r.schedule \in Schedules
    BY RowsWritten DEF Row
  <1>1. CASE p \in Disabling
    <2> DEFINE n == [due |-> "null", schedule |-> "blank", retry |-> r.retry]
    <2>1. Reconciled(p, r) = n
      BY <1>1 DEF Reconciled
    <2>2. n \in Row /\ n.due = "null" /\ Sound(n) /\ n.retry = r.retry
      BY <1>0 DEF Row, Dues, Schedules, Sound
    <2> HIDE DEF n
    <2> QED
      BY <2>1, <2>2
  <1>2. CASE p \notin Disabling /\ r.schedule = "none" /\ r.due # "null"
    <2> DEFINE n == [due |-> r.due, schedule |-> "on", retry |-> r.retry]
    <2>1. Reconciled(p, r) = n
      BY <1>2 DEF Reconciled
    <2>2. n \in Row /\ n.due = r.due /\ Sound(n) /\ n.retry = r.retry
      BY <1>0 DEF Row, Dues, Schedules, Sound
    <2> HIDE DEF n
    <2> QED
      BY <2>1, <2>2
  <1>3. CASE p \notin Disabling /\ ~(r.schedule = "none" /\ r.due # "null")
    <2>1. Reconciled(p, r) = Advanced(p)
      BY <1>3 DEF Reconciled
    <2>2. r.due = "null"
      BY <1>0, <1>3 DEF Schedules, Schedule, Sound
    <2> QED
      BY <1>0, <2>1, <2>2
  <1> QED
    BY <1>1, <1>2, <1>3

\* What recordTransientFailure writes: one more retry, or the next slot.
LEMMA TransientRow ==
    ASSUME NEW p \in Passes, NEW r \in Row
    PROVE  LET n == AfterTransient(p, r) IN
           /\ n \in Row /\ Sound(n)
           /\ \/ n = Advanced(p)
              \/ n.retry = r.retry + 1 /\ n # Advanced(p)
  <1>0. r.retry \in Nat /\ MaxRetries \in Nat
    BY Bounds DEF Row
  <1>1. CASE r.retry + 1 > MaxRetries
    <2>1. AfterTransient(p, r) = Advanced(p)
      BY <1>1 DEF AfterTransient
    <2> QED
      BY <2>1, <1>0 DEF Advanced, NextDue, Schedule, Row, Dues, Schedules, Sound
  <1>2. CASE ~(r.retry + 1 > MaxRetries)
    <2> DEFINE due == IF p \in Disabling THEN "null"
                      ELSE IF r.due \in {"absent", "null"} THEN "due" ELSE r.due
               n == [due |-> due, schedule |-> Schedule(p), retry |-> r.retry + 1]
    <2>1. AfterTransient(p, r) = n
      BY <1>2 DEF AfterTransient
    <2>2. due \in Dues /\ Schedule(p) \in Schedules /\ r.retry + 1 \in 0..MaxRetries
      BY <1>0, <1>2 DEF Row, Dues, Schedules, Schedule
    <2>3. n \in Row /\ n.retry = r.retry + 1
      BY <2>2 DEF Row
    <2>4. Sound(n)
      BY DEF Schedule, Sound
    <2>5. n.retry # Advanced(p).retry
      BY <1>0 DEF Advanced
    <2> HIDE DEF n
    <2> QED
      BY <2>1, <2>3, <2>4, <2>5
  <1> QED
    BY <1>1, <1>2

\* The first of a set of tasks in canonical order is one of them.
LEMMA MinIsTask ==
    ASSUME NEW T \in SUBSET Tasks, T # {}
    PROVE  Min(T) \in T /\ Min(T) \in Tasks
  <1>1. T \subseteq Tasks /\ T \subseteq Nat
    BY Bounds
  <1>2. PICK x \in T : \A y \in T : ~(<<y, x>> \in OpToRel(<, Nat))
    BY <1>1, WFMin, NatLessThanWellFounded
  <1>3. \E m \in T : \A y \in T : m <= y
    <2>1. \A y \in T : ~(y < x)
      BY <1>1, <1>2 DEF OpToRel
    <2>2. ASSUME NEW y \in T
          PROVE  x <= y
      <3>1. x \in Int /\ y \in Int
        BY <1>1
      <3>2. ~(y < x)
        BY <2>1
      <3> QED
        BY <3>1, <3>2
    <2> QED
      BY <2>2
  <1>4. Min(T) \in T
    BY <1>3 DEF Min
  <1> QED
    BY <1>1, <1>4

LEMMA CurrentIsTask ==
    ASSUME TypeOK, NEW p \in Passes, pass[p].todo # {}
    PROVE  Current(p) \in pass[p].todo /\ Current(p) \in Tasks
  <1>1. pass[p].todo \in SUBSET Tasks
    BY DEF TypeOK
  <1> QED
    BY <1>1, MinIsTask DEF Current

----------------------------------------------------------------------------
(* Steps *)

\* Only p's record changes, to r.
OnlyPass(p, r) == pass' = [pass EXCEPT ![p] = r]

LEMMA OnlyPassIs ==
    ASSUME TypeOK, NEW p \in Passes, NEW r \in PassRecord, OnlyPass(p, r)
    PROVE  /\ pass' \in [Passes -> PassRecord] /\ pass'[p] = r
           /\ \A q \in Passes : q # p => pass'[q] = pass[q]
  BY DEF TypeOK, OnlyPass, PassRecord

\* A pass that goes to another control point.
LEMMA GotoIs ==
    ASSUME TypeOK, NEW p \in Passes, NEW step \in Steps, Goto(p, step)
    PROVE  /\ pass' \in [Passes -> PassRecord] /\ pass'[p].pc = step
           /\ pass'[p].at = pass[p].at /\ pass'[p].prior = pass[p].prior
           /\ \A q \in Passes : q # p => pass'[q] = pass[q]
  <1>1. pass \in [Passes -> PassRecord] /\ pass' = [pass EXCEPT ![p].pc = step]
    BY DEF TypeOK, PassRecord, Goto
  <1> QED
    BY <1>1 DEF PassRecord

LEMMA IdleIs == IdlePass \in PassRecord /\ IdlePass.pc = "idle"
  <1>1. NoRow \in Row /\ 0 \in 0..NTasks
    BY Bounds DEF NoRow, Row, Dues, Schedules
  <1> QED
    BY <1>1 DEF PassRecord, IdlePass, Steps

\* A pass of any kind that starts.
ByHand(r, step, due, manual) == [r EXCEPT !.pc = step, !.due = due, !.manual = manual]
Forced(r, step, todo, forced, manual) == [r EXCEPT !.pc = step, !.todo = todo, !.forced = forced, !.manual = manual]

LEMMA FreshPass ==
    ASSUME NEW r \in PassRecord, NEW step \in Steps, NEW todo \in SUBSET Tasks,
           NEW forced \in BOOLEAN, NEW manual \in BOOLEAN
    PROVE  /\ ByHand(r, step, todo, manual) \in PassRecord /\ ByHand(r, step, todo, manual).pc = step
           /\ Forced(r, step, todo, forced, manual) \in PassRecord
           /\ Forced(r, step, todo, forced, manual).pc = step
  <1>2. ByHand(r, step, todo, manual) \in PassRecord /\ ByHand(r, step, todo, manual).pc = step
    BY DEF PassRecord, ByHand
  <1>3. /\ Forced(r, step, todo, forced, manual) \in PassRecord
        /\ Forced(r, step, todo, forced, manual).pc = step
    BY DEF PassRecord, Forced
  <1> QED
    BY <1>2, <1>3

\* A task that a pass starts: it is taken off the list.
LEMMA BeginIs ==
    ASSUME TypeOK, NEW p \in Passes, BeginTask(p)
    PROVE  /\ pass' \in [Passes -> PassRecord] /\ pass'[p].pc = "exec" /\ pass'[p].at = Current(p)
           /\ Current(p) \in Tasks /\ holder = p /\ pass[p].pc = "next"
           /\ \A q \in Passes : q # p => pass'[q] = pass[q]
           /\ tries' = [tries EXCEPT ![Current(p)] = @ + 1] /\ UNCHANGED <<row, work, holder, faults>>
  <1>1. /\ pass[p].pc = "next" /\ pass[p].todo # {} /\ holder = p
        /\ pass' = [pass EXCEPT ![p].pc = "exec", ![p].at = Current(p), ![p].todo = @ \ {Current(p)}]
        /\ tries' = [tries EXCEPT ![Current(p)] = @ + 1] /\ UNCHANGED <<row, work, holder, faults>>
    BY DEF BeginTask, HasNext
  <1>2. Current(p) \in Tasks /\ Current(p) \in 0..NTasks
    BY <1>1, CurrentIsTask, Bounds
  <1>3. pass \in [Passes -> PassRecord]
    BY DEF TypeOK, PassRecord
  <1> DEFINE c == Current(p)
             r == [pass[p] EXCEPT !.pc = "exec", !.at = c, !.todo = @ \ {c}]
  <1> HIDE DEF c
  <1>4. pass' = [pass EXCEPT ![p] = r]
    BY <1>1, <1>3 DEF c
  <1>5. r \in PassRecord /\ r.pc = "exec" /\ r.at = c
    BY <1>2, <1>3 DEF PassRecord, Steps, c
  <1> HIDE DEF r
  <1>6. pass' \in [Passes -> PassRecord] /\ pass'[p] = r /\ \A q \in Passes : q # p => pass'[q] = pass[q]
    BY <1>3, <1>4, <1>5
  <1> QED
    BY <1>1, <1>2, <1>5, <1>6 DEF c

\* What a step may change and still have the right types.
LEMMA TypeFrom ==
    ASSUME row' \in [Tasks -> Row], \A t \in Tasks : Sound(row'[t]),
           work' \in [Tasks -> BOOLEAN], holder' \in Passes \cup {Nobody, Orphan},
           pass' \in [Passes -> PassRecord], tries' \in [Tasks -> Nat], faults' \in Nat,
           \A p \in Passes : Proper(p, pass'[p])
    PROVE  TypeInv'
  BY DEF TypeInv, TypeOK, AtTask, RowsSound, PassRecord

\* A row that a pass writes in one place.
LEMMA WriteIs ==
    ASSUME TypeInv, NEW p \in Passes, NEW t \in Tasks, NEW new \in Row,
           Sound(new), Write(p, t, new)
    PROVE  /\ row' \in [Tasks -> Row] /\ tries' \in [Tasks -> Nat] /\ row'[t] = new
           /\ \A u \in Tasks : Sound(row'[u])
           /\ \A u \in Tasks : u # t => row'[u] = row[u] /\ tries'[u] = tries[u]
           /\ tries'[t] = IF new = Advanced(p) THEN 0 ELSE tries[t]
  <1>1. row \in [Tasks -> Row] /\ tries \in [Tasks -> Nat] /\ row' = [row EXCEPT ![t] = new]
    BY DEF TypeInv, TypeOK, Write
  <1>2. /\ row' \in [Tasks -> Row] /\ row'[t] = new /\ \A u \in Tasks : u # t => row'[u] = row[u]
        /\ \A u \in Tasks : Sound(row'[u])
    BY <1>1 DEF TypeInv, RowsSound
  <1>3. tries' = IF new = Advanced(p) THEN [tries EXCEPT ![t] = 0] ELSE tries
    BY DEF Write
  <1>4. /\ tries' \in [Tasks -> Nat] /\ \A u \in Tasks : u # t => tries'[u] = tries[u]
        /\ tries'[t] = IF new = Advanced(p) THEN 0 ELSE tries[t]
    BY <1>1, <1>3
  <1> QED
    BY <1>2, <1>4

\* The parts of the type invariant, for use in steps.
LEMMA Typed ==
    ASSUME TypeInv
    PROVE  /\ row \in [Tasks -> Row] /\ work \in [Tasks -> BOOLEAN] /\ holder \in Passes \cup {Nobody, Orphan}
           /\ pass \in [Passes -> PassRecord] /\ tries \in [Tasks -> Nat] /\ faults \in Nat
           /\ \A t \in Tasks : row[t] \in Row /\ Sound(row[t])
           /\ \A p \in Passes : pass[p].pc \in InHand => pass[p].at \in Tasks
           /\ \A p \in Passes : pass[p].pc \in Working => pass[p].at \in Tasks
           /\ \A p \in Passes : Proper(p, pass[p])
           /\ \A p \in Passes : pass[p] \in PassRecord /\ pass[p].prior \in Row
           /\ TypeOK
  BY DEF TypeInv, TypeOK, AtTask, RowsSound, PassRecord, Proper, InHand

RetriesCounted == \A u \in Tasks : row[u].retry \in Nat /\ row[u].retry <= MaxRetries

LEMMA RetryBounds == TypeInv => RetriesCounted
  <1> SUFFICES ASSUME TypeInv, NEW t \in Tasks PROVE row[t].retry \in Nat /\ row[t].retry <= MaxRetries
    BY DEF RetriesCounted
  <1>1. row[t] \in Row
    BY Typed
  <1> QED
    BY <1>1, Bounds DEF Row

LEMMA RetryIsNat ==
    ASSUME TypeInv
    PROVE  \A t \in Tasks : row[t].retry \in Nat /\ row[t].retry <= MaxRetries
  BY RetryBounds DEF RetriesCounted

LEMMA RetryIsNatNext ==
    ASSUME TypeInv'
    PROVE  \A t \in Tasks : row'[t].retry \in Nat /\ row'[t].retry <= MaxRetries
  <1>1. RetriesCounted'
    BY RetryBounds, PTL
  <1> QED
    BY <1>1 DEF RetriesCounted

----------------------------------------------------------------------------
(* Steps that leave the accounts alone: nobody starts a task or records its *)
(* outcome, and a count is lowered only together with its history.          *)

SameWorkers ==
    \A p \in Passes : /\ pass'[p].pc \in Working <=> pass[p].pc \in Working
                      /\ pass[p].pc \in Working => pass'[p].at = pass[p].at /\ (holder' = p <=> holder = p)
                      /\ pass'[p].pc = "record" => pass[p].pc = "record" /\ pass'[p].prior = pass[p].prior

SameCounts == \A t \in Tasks : tries'[t] = 0 \/ (tries'[t] = tries[t] /\ row'[t].retry >= row[t].retry)

Calm == TypeInv' /\ SameWorkers /\ SameCounts /\ faults' = faults

LEMMA StutterIsCalm ==
    ASSUME TypeInv, UNCHANGED vars
    PROVE  Calm
  <1>1. UNCHANGED <<row, work, holder, pass, tries, faults>>
    BY DEF vars
  <1>2. \A t \in Tasks : row[t].retry \in Nat
    BY RetryIsNat
  <1>3. TypeInv'
    BY <1>1, Typed, TypeFrom
  <1> QED
    BY <1>1, <1>2, <1>3 DEF Calm, SameWorkers, SameCounts

\* The world: slots, work and the leases of dead processes.
LEMMA WorldIsCalm ==
    ASSUME TypeInv, NEW t \in Tasks, SlotComes(t) \/ WorkArrives(t)
    PROVE  Calm
  <1>0. \A u \in Tasks : row[u].retry \in Nat
    BY RetryIsNat
  <1>1. CASE SlotComes(t)
    <2>1. /\ row[t].due = "future" /\ row' = [row EXCEPT ![t].due = "due"]
          /\ pass' = [p \in Passes |-> IF pass[p].pc \in Planning THEN [pass[p] EXCEPT !.late = @ \cup {t}] ELSE pass[p]]
          /\ UNCHANGED <<work, holder, tries, faults>>
      BY <1>1 DEF SlotComes
    <2>2. /\ row' \in [Tasks -> Row] /\ \A u \in Tasks : row'[u].retry = row[u].retry
          /\ \A u \in Tasks : row'[u].schedule = row[u].schedule /\ (u # t => row'[u] = row[u])
          /\ row'[t].due = "due"
      BY <2>1, Typed DEF Row, Dues
    <2>3. row[t].schedule # "blank"
      BY <2>1, Typed DEF Sound
    <2>4. ASSUME NEW p \in Passes
          PROVE  /\ pass'[p] \in PassRecord /\ pass'[p].pc = pass[p].pc /\ pass'[p].at = pass[p].at
                 /\ pass'[p].prior = pass[p].prior
      <3>0. pass[p] \in PassRecord
        BY Typed
      <3>1. CASE pass[p].pc \in Planning
        <4>1. pass'[p] = [pass[p] EXCEPT !.late = @ \cup {t}]
          BY <2>1, <3>1
        <4> QED
          BY <3>0, <4>1 DEF PassRecord
      <3>2. CASE pass[p].pc \notin Planning
        BY <2>1, <3>0, <3>2
      <3> QED
        BY <3>1, <3>2
    <2>5. pass' \in [Passes -> PassRecord]
      BY <2>1, <2>4
    <2>6. TypeInv'
      <3>1. \A u \in Tasks : Sound(row'[u])
        BY <2>2, <2>3, Typed DEF Sound
      <3>2. \A p \in Passes : Proper(p, pass'[p])
        BY <2>4, Typed DEF Proper
      <3> QED
        BY <2>1, <2>2, <2>5, <3>1, <3>2, Typed, TypeFrom
    <2> QED
      BY <1>0, <2>1, <2>2, <2>4, <2>6 DEF Calm, SameWorkers, SameCounts
  <1>2. CASE WorkArrives(t)
    <2>1. work' \in [Tasks -> BOOLEAN] /\ UNCHANGED <<row, holder, pass, tries, faults>>
      BY <1>2, Typed DEF WorkArrives
    <2>2. TypeInv'
      BY <2>1, Typed, TypeFrom
    <2> QED
      BY <1>0, <2>1, <2>2 DEF Calm, SameWorkers, SameCounts
  <1> QED
    BY <1>1, <1>2

\* A pass that is not at work on a task before the step and after it.
LEMMA CalmPass ==
    ASSUME TypeInv, NEW p \in Passes, pass' \in [Passes -> PassRecord],
           \A q \in Passes : q # p => pass'[q] = pass[q],
           pass[p].pc \notin Working, pass'[p].pc \notin Working, Proper(p, pass'[p]),
           \A q \in Passes : q # p => (holder' = q <=> holder = q),
           row' \in [Tasks -> Row], \A t \in Tasks : Sound(row'[t]),
           work' \in [Tasks -> BOOLEAN], holder' \in Passes \cup {Nobody, Orphan},
           tries' \in [Tasks -> Nat], faults' = faults, SameCounts
    PROVE  Calm
  <1>1. \A q \in Passes : Proper(q, pass'[q])
    BY Typed
  <1>2. TypeInv'
    BY <1>1, Typed, TypeFrom
  <1>3. SameWorkers
    BY DEF SameWorkers, Working
  <1> QED
    BY <1>2, <1>3 DEF Calm

\* Rows that stay as they are.
LEMMA RowsStay ==
    ASSUME TypeInv, UNCHANGED <<row, tries>>
    PROVE  /\ row' \in [Tasks -> Row] /\ \A t \in Tasks : Sound(row'[t])
           /\ tries' \in [Tasks -> Nat] /\ SameCounts
  <1>1. \A t \in Tasks : row[t].retry \in Nat
    BY Typed, RetryIsNat
  <1> QED
    BY <1>1, Typed DEF SameCounts

\* A pass that goes on with another record, at rest or with a task in hand, and
\* leaves everything else alone.
LEMMA PassOnlyIsCalm ==
    ASSUME TypeInv, NEW p \in Passes, NEW r \in PassRecord, pass' = [pass EXCEPT ![p] = r],
           pass[p].pc \notin Working, r.pc \notin Working, Proper(p, r),
           UNCHANGED <<row, work, holder, tries, faults>>
    PROVE  Calm
  <1>1. pass' \in [Passes -> PassRecord] /\ pass'[p] = r /\ \A q \in Passes : q # p => pass'[q] = pass[q]
    BY OnlyPassIs, Typed DEF OnlyPass
  <1> QED
    BY <1>1, RowsStay, Typed, CalmPass

\* A pass starts, reads a row, looks whether the task is due and at its gate.
LEMMA LookingIsCalm ==
    ASSUME TypeInv, NEW p \in Passes,
           StartScheduled(p) \/ ReadStored(p) \/ Look(p) \/ PreGate(p) \/ EndPlan(p)
    PROVE  Calm
  <1>0. /\ pass[p] \in PassRecord /\ pass \in [Passes -> PassRecord] /\ Proper(p, pass[p])
        /\ \A t \in Tasks : row[t] \in Row /\ Sound(row[t])
    BY Typed
  <1>1. CASE StartScheduled(p)
    <2> DEFINE r == [pass[p] EXCEPT !.pc = "seed", !.at = 1]
    <2>1. /\ pass[p].pc = "idle" /\ pass' = [pass EXCEPT ![p] = r]
          /\ UNCHANGED <<row, work, holder, tries, faults>>
      BY <1>0, <1>1 DEF StartScheduled
    <2>2. r \in PassRecord /\ r.pc = "seed" /\ r.at \in Tasks
      BY <1>0, Bounds DEF PassRecord, Steps, Planning
    <2> HIDE DEF r
    <2>3. pass[p].pc \notin Working /\ r.pc \notin Working /\ Proper(p, r)
      BY <2>1, <2>2 DEF Working, Proper
    <2> QED
      BY <2>1, <2>2, <2>3, PassOnlyIsCalm
  <1>2. CASE ReadStored(p)
    <2>0. pass[p].pc = "read" /\ pass[p].at \in Tasks /\ UNCHANGED <<row, work, holder, tries, faults>>
      BY <1>0, <1>2 DEF ReadStored, Proper, InHand, Planning
    <2> DEFINE u == pass[p].at
               x == row[u]
    <2>1. CASE row[u].schedule = Schedule(p)
      <3> DEFINE r == [pass[p] EXCEPT !.pc = "look"]
      <3>1. pass' = [pass EXCEPT ![p] = r]
        BY <1>0, <1>2, <2>1 DEF ReadStored, Goto
      <3>2. r \in PassRecord /\ r.pc = "look" /\ r.at \in Tasks
        BY <1>0, <2>0 DEF PassRecord, Steps, Planning
      <3> HIDE DEF r
      <3>3. pass[p].pc \notin Working /\ r.pc \notin Working /\ Proper(p, r)
        BY <2>0, <3>2 DEF Working, Proper
      <3> QED
        BY <2>0, <3>1, <3>2, <3>3, PassOnlyIsCalm
    <2>2. CASE row[u].schedule # Schedule(p)
      <3> DEFINE r == [pass[p] EXCEPT !.pc = "rewrite", !.prior = x]
      <3>0. x \in Row /\ Sound(x) /\ x.schedule # Schedule(p)
        BY <1>0, <2>0, <2>2
      <3>1. pass' = [pass EXCEPT ![p] = r]
        BY <1>0, <1>2, <2>2 DEF ReadStored
      <3> HIDE DEF x
      <3>2. r \in PassRecord /\ r.pc = "rewrite" /\ r.at \in Tasks /\ r.prior = x
        BY <1>0, <2>0, <3>0 DEF PassRecord, Steps, Planning
      <3> HIDE DEF r
      <3>3. pass[p].pc \notin Working /\ r.pc \notin Working /\ Proper(p, r)
        BY <2>0, <3>0, <3>2 DEF Working, Proper
      <3> QED
        BY <2>0, <3>1, <3>2, <3>3, PassOnlyIsCalm
    <2> QED
      BY <2>1, <2>2
  <1>3. CASE Look(p)
    <2> DEFINE t == pass[p].at
               step == IF t = NTasks THEN "gate" ELSE "seed"
               at == IF t = NTasks THEN 0 ELSE t + 1
               late == IF t = NTasks THEN {} ELSE pass[p].late
               due == IF row[t].due = "due" /\ t \notin pass[p].late THEN pass[p].due \cup {t} ELSE pass[p].due
               r == [pass[p] EXCEPT !.pc = step, !.at = at, !.late = late, !.due = due]
    <2>1. pass[p].pc = "look" /\ t \in Tasks /\ UNCHANGED <<row, work, holder, tries, faults>>
      BY <1>0, <1>3 DEF Look, Proper, InHand, Planning
    <2>2. pass' = [pass EXCEPT ![p].pc = step, ![p].at = at, ![p].late = late, ![p].due = due]
      BY <1>3 DEF Look
    <2>3. step \in {"gate", "seed"} /\ at \in 0..NTasks /\ (step = "seed" => at \in Tasks)
      BY <2>1, Bounds DEF Tasks
    <2>4. late \in SUBSET Tasks /\ due \in SUBSET Tasks
      BY <1>0, <2>1 DEF PassRecord
    <2> HIDE DEF step, at, late, due
    <2>5. pass' = [pass EXCEPT ![p] = r]
      BY <1>0, <2>2
    <2>6. r \in PassRecord /\ r.pc = step /\ r.at = at
      BY <1>0, <2>3, <2>4 DEF PassRecord, Steps, Planning
    <2> HIDE DEF r
    <2>7. pass[p].pc \notin Working /\ r.pc \notin Working /\ Proper(p, r)
      BY <2>1, <2>3, <2>6 DEF Working, Proper, InHand, Planning
    <2> QED
      BY <2>1, <2>5, <2>6, <2>7, PassOnlyIsCalm
  <1>4. CASE PreGate(p)
    <2> DEFINE t == Min(pass[p].due)
    <2>1. /\ pass[p].pc = "gate" /\ pass[p].due # {} /\ UNCHANGED <<row, work, holder, tries, faults>>
          /\ \/ pass' = [pass EXCEPT ![p].due = @ \ {t}, ![p].todo = @ \cup {t}]
             \/ pass' = [pass EXCEPT ![p].due = @ \ {t}]
             \/ pass' = [pass EXCEPT ![p].pc = "closed", ![p].at = t, ![p].due = @ \ {t}]
      BY <1>4 DEF PreGate
    <2>2. t \in Tasks /\ t \in 0..NTasks
      <3>1. pass[p].due \in SUBSET Tasks
        BY <1>0 DEF PassRecord
      <3> QED
        BY <2>1, <3>1, MinIsTask, Bounds
    <2> HIDE DEF t
    <2> DEFINE a == [pass[p] EXCEPT !.due = @ \ {t}, !.todo = @ \cup {t}]
               b == [pass[p] EXCEPT !.due = @ \ {t}]
               c == [pass[p] EXCEPT !.pc = "closed", !.at = t, !.due = @ \ {t}]
    <2>3. pass' = [pass EXCEPT ![p] = a] \/ pass' = [pass EXCEPT ![p] = b] \/ pass' = [pass EXCEPT ![p] = c]
      BY <1>0, <2>1
    <2>4. a \in PassRecord /\ a.pc = "gate"
      BY <1>0, <2>1, <2>2 DEF PassRecord
    <2>5. b \in PassRecord /\ b.pc = "gate"
      BY <1>0, <2>1 DEF PassRecord
    <2>6. c \in PassRecord /\ c.pc = "closed" /\ c.at \in Tasks
      BY <1>0, <2>2 DEF PassRecord, Steps
    <2> HIDE DEF a, b, c
    <2>7. /\ pass[p].pc \notin Working /\ a.pc \notin Working /\ b.pc \notin Working /\ c.pc \notin Working
          /\ Proper(p, a) /\ Proper(p, b) /\ Proper(p, c)
      BY <2>1, <2>4, <2>5, <2>6, ProperAtRest DEF Working, Proper
    <2>8. PICK r \in PassRecord : pass' = [pass EXCEPT ![p] = r] /\ r.pc \notin Working /\ Proper(p, r)
      BY <2>3, <2>4, <2>5, <2>6, <2>7
    <2> QED
      BY <2>1, <2>7, <2>8, PassOnlyIsCalm
  <1>5. CASE EndPlan(p)
    <2> DEFINE r == [pass[p] EXCEPT !.pc = "acquire"]
    <2>1. /\ pass[p].pc = "gate" /\ UNCHANGED <<row, work, holder, tries, faults>>
          /\ pass' = [pass EXCEPT ![p] = IdlePass] \/ pass' = [pass EXCEPT ![p] = r]
      BY <1>0, <1>5 DEF EndPlan, Set, Goto
    <2>2. r \in PassRecord /\ r.pc = "acquire"
      BY <1>0 DEF PassRecord, Steps
    <2> HIDE DEF r
    <2>3. PICK x \in PassRecord : pass' = [pass EXCEPT ![p] = x] /\ x.pc \in {"idle", "acquire"}
      BY <2>1, <2>2, IdleIs
    <2>4. pass[p].pc \notin Working /\ x.pc \notin Working /\ Proper(p, x)
      BY <2>1, <2>3, ProperAtRest DEF Working
    <2> QED
      BY <2>1, <2>3, <2>4, PassOnlyIsCalm
  <1> QED
    BY <1>1, <1>2, <1>3, <1>4, <1>5

\* ensureSeeded.
LEMMA SeedIsCalm ==
    ASSUME TypeInv, NEW p \in Passes, Seed(p)
    PROVE  Calm
  <1>0. /\ \A t \in Tasks : row[t].retry \in Nat /\ row[t] \in Row /\ Sound(row[t])
        /\ row \in [Tasks -> Row] /\ Proper(p, pass[p])
    BY Typed, RetryIsNat
  <1> DEFINE u == pass[p].at
             new == Seeded(p, row[u])
  <1>1. /\ pass[p].pc = "seed" /\ u \in Tasks /\ row' = [row EXCEPT ![u] = new] /\ Goto(p, "read")
        /\ UNCHANGED <<work, holder, tries, faults>>
    BY <1>0 DEF Seed, Proper, InHand, Planning
  <1>2. new \in Row /\ Sound(new) /\ new.retry = row[u].retry
    BY <1>0, <1>1, RowsWritten
  <1> HIDE DEF new
  <1>3. /\ row' \in [Tasks -> Row] /\ \A t \in Tasks : row'[t] = row[t] \/ (t = u /\ row'[t] = new)
    BY <1>0, <1>1, <1>2
  <1>4. \A t \in Tasks : Sound(row'[t]) /\ row'[t].retry = row[t].retry
    BY <1>0, <1>2, <1>3
  <1>5. SameCounts
    BY <1>0, <1>1, <1>4 DEF SameCounts
  <1>6. /\ pass' \in [Passes -> PassRecord] /\ pass'[p].pc = "read" /\ pass'[p].at = u
        /\ \A q \in Passes : q # p => pass'[q] = pass[q]
    <2>1. "read" \in Steps
      BY DEF Steps, Planning
    <2> QED
      BY <1>1, <2>1, GotoIs, Typed
  <1>7. pass[p].pc \notin Working /\ pass'[p].pc \notin Working /\ Proper(p, pass'[p])
    BY <1>1, <1>6 DEF Working, Proper
  <1> QED
    BY <1>1, <1>3, <1>4, <1>5, <1>6, <1>7, Typed, CalmPass

\* What reconcileSchedule's write does: the row is a proper one, and its count
\* has not gone down unless a new slot begins or the loss is counted.
LEMMA RewriteIs ==
    ASSUME TypeInv, NEW p \in Passes, Rewrite(p)
    PROVE  /\ row' \in [Tasks -> Row] /\ (\A t \in Tasks : Sound(row'[t])) /\ tries' \in [Tasks -> Nat]
           /\ pass' \in [Passes -> PassRecord] /\ (\A q \in Passes : q # p => pass'[q] = pass[q])
           /\ pass[p].pc \notin Working /\ pass'[p].pc \notin Working /\ Proper(p, pass'[p])
           /\ UNCHANGED <<work, holder>>
           /\ \/ SameCounts /\ faults' = faults
              \/ tries' = tries /\ faults' = faults + 1
  <1>0. /\ row \in [Tasks -> Row] /\ tries \in [Tasks -> Nat] /\ pass[p] \in PassRecord
        /\ pass \in [Passes -> PassRecord] /\ Proper(p, pass[p]) /\ pass[p].prior \in Row
        /\ \A t \in Tasks : row[t].retry \in Nat
    BY Typed, RetryIsNat
  <1> DEFINE u == pass[p].at
             new == Reconciled(p, pass[p].prior)
             r == [pass[p] EXCEPT !.pc = "look", !.prior = NoRow]
  <1>1. /\ pass[p].pc = "rewrite" /\ u \in Tasks /\ Sound(pass[p].prior)
        /\ pass[p].prior.schedule # Schedule(p)
        /\ Write(p, u, new) /\ UNCHANGED <<work, holder>>
        /\ faults' = IF new # Advanced(p) /\ new.retry < row[u].retry THEN faults + 1 ELSE faults
        /\ pass' = [pass EXCEPT ![p] = r]
    BY <1>0 DEF Rewrite, Proper, InHand, Planning
  <1>2. new \in Row /\ Sound(new)
    BY <1>0, <1>1, ReconciledRow
  <1>3. NoRow \in Row
    BY <1>0, <1>1, RowsWritten
  <1>4. r \in PassRecord /\ r.pc = "look" /\ r.at = u
    BY <1>0, <1>3 DEF PassRecord, Steps, Planning
  <1> HIDE DEF r, new
  <1>5. /\ row' \in [Tasks -> Row] /\ tries' \in [Tasks -> Nat] /\ row'[u] = new
        /\ \A t \in Tasks : Sound(row'[t])
        /\ \A t \in Tasks : t # u => row'[t] = row[t] /\ tries'[t] = tries[t]
        /\ tries'[u] = IF new = Advanced(p) THEN 0 ELSE tries[u]
    BY <1>1, <1>2, WriteIs
  <1>6. pass' \in [Passes -> PassRecord] /\ pass'[p] = r /\ \A q \in Passes : q # p => pass'[q] = pass[q]
    BY <1>1, <1>4, OnlyPassIs, Typed DEF OnlyPass
  <1>7. pass[p].pc \notin Working /\ pass'[p].pc \notin Working /\ Proper(p, pass'[p])
    BY <1>1, <1>4, <1>6 DEF Working, Proper
  <1>8. CASE new # Advanced(p) /\ new.retry < row[u].retry
    <2>1. faults' = faults + 1
      BY <1>1, <1>8
    <2>2. tries' = tries
      BY <1>0, <1>5, <1>8
    <2> QED
      BY <1>1, <1>5, <1>6, <1>7, <2>1, <2>2
  <1>9. CASE ~(new # Advanced(p) /\ new.retry < row[u].retry)
    <2>1. faults' = faults
      BY <1>1, <1>9
    <2>2. new.retry \in Nat
      BY <1>2, Bounds DEF Row
    <2>3. SameCounts
      <3>1. ASSUME NEW t \in Tasks, t # u
            PROVE  tries'[t] = tries[t] /\ row'[t].retry >= row[t].retry
        BY <1>0, <1>5, <3>1
      <3>2. tries'[u] = 0 \/ (tries'[u] = tries[u] /\ row'[u].retry >= row[u].retry)
        <4>1. CASE new = Advanced(p)
          BY <1>5, <4>1
        <4>2. CASE new # Advanced(p)
          <5>1. ~(new.retry < row[u].retry) /\ row[u].retry \in Nat
            BY <1>0, <1>1, <1>9, <4>2
          <5>2. new.retry >= row[u].retry
            BY <2>2, <5>1
          <5> QED
            BY <1>5, <4>2, <5>2
        <4> QED
          BY <4>1, <4>2
      <3> QED
        BY <3>1, <3>2 DEF SameCounts
    <2> QED
      BY <1>1, <1>5, <1>6, <1>7, <2>1, <2>3
  <1> QED
    BY <1>8, <1>9

\* Passes by hand.
LEMMA ManualIsCalm ==
    ASSUME TypeInv, NEW p \in Passes, StartManual(p) \/ \E t \in Tasks : StartForced(p, t)
    PROVE  Calm
  <1>0. /\ \A t \in Tasks : row[t].retry \in Nat /\ row[t] \in Row
        /\ \A t \in Tasks : Sound(row[t])
    BY Typed, RetryIsNat
  <1>1. ASSUME NEW t \in Tasks
        PROVE  /\ Seeded(p, row[t]) \in Row /\ Seeded(p, row[t]).retry \in Nat
               /\ Sound(Seeded(p, row[t]))
    <2>1. Seeded(p, row[t]) \in Row /\ Sound(Seeded(p, row[t]))
      BY <1>0, RowsWritten
    <2> QED
      BY <2>1, Bounds DEF Row
  <1>2. PICK r \in PassRecord, seen \in SUBSET Tasks :
           /\ pass[p].pc = "idle" /\ r.pc \in {"gate", "acquire"}
           /\ row' = [t \in Tasks |-> IF t \in seen THEN Seeded(p, row[t]) ELSE row[t]]
           /\ Set(p, r) /\ UNCHANGED <<work, holder, tries, faults>>
    <2>0. "gate" \in Steps /\ "acquire" \in Steps /\ IdlePass \in PassRecord /\ TRUE \in BOOLEAN
      BY IdleIs DEF Steps
    <2>1. CASE StartManual(p)
      <3> DEFINE r == ByHand(IdlePass, "gate", Tasks, TRUE)
      <3>1. /\ pass[p].pc = "idle" /\ row' = [t \in Tasks |-> Seeded(p, row[t])]
            /\ Set(p, r) /\ UNCHANGED <<work, holder, tries, faults>>
        BY <2>1 DEF StartManual, ByHand
      <3>2. Tasks \in SUBSET Tasks
        OBVIOUS
      <3>3. r \in PassRecord /\ r.pc = "gate"
        BY <2>0, <3>2, FreshPass
      <3> HIDE DEF r
      <3>4. row' = [t \in Tasks |-> IF t \in Tasks THEN Seeded(p, row[t]) ELSE row[t]]
        BY <3>1
      <3>5. Tasks \in SUBSET Tasks
        OBVIOUS
      <3> QED
        BY <3>1, <3>3, <3>4, <3>5
    <2>2. CASE \E t \in Tasks : StartForced(p, t)
      <3>1. PICK t \in Tasks : StartForced(p, t)
        BY <2>2
      <3> DEFINE r == Forced(IdlePass, "acquire", {t}, TRUE, TRUE)
      <3>2. /\ pass[p].pc = "idle" /\ row' = [row EXCEPT ![t] = Seeded(p, @)]
            /\ Set(p, r) /\ UNCHANGED <<work, holder, tries, faults>>
        BY <3>1 DEF StartForced, Forced
      <3>3. row' = [u \in Tasks |-> IF u \in {t} THEN Seeded(p, row[u]) ELSE row[u]]
        BY <3>2, Typed
      <3>4. {t} \in SUBSET Tasks
        OBVIOUS
      <3>5. r \in PassRecord /\ r.pc = "acquire"
        BY <2>0, <3>4, FreshPass
      <3> HIDE DEF r
      <3> QED
        BY <3>2, <3>3, <3>4, <3>5
    <2> QED
      BY <2>1, <2>2
  <1>4. pass' \in [Passes -> PassRecord] /\ pass'[p] = r /\ \A q \in Passes : q # p => pass'[q] = pass[q]
    BY <1>2, OnlyPassIs, Typed DEF OnlyPass, Set
  <1>5. \A t \in Tasks : row'[t] \in Row /\ Sound(row'[t])
    BY <1>0, <1>1, <1>2
  <1>6. row' \in [Tasks -> Row]
    BY <1>2, <1>5
  <1>7. SameCounts
    <2>1. ASSUME NEW t \in Tasks
          PROVE  row'[t].retry >= row[t].retry
      <3>1. row'[t] = row[t] \/ row'[t] = Seeded(p, row[t])
        BY <1>2
      <3>2. Seeded(p, row[t]).retry = row[t].retry /\ row[t].retry \in Nat
        BY <1>0, RowsWritten
      <3> QED
        BY <3>1, <3>2
    <2> QED
      BY <1>2, <2>1 DEF SameCounts
  <1>8. pass[p].pc \notin Working /\ pass'[p].pc \notin Working /\ Proper(p, pass'[p])
    BY <1>2, <1>4, ProperAtRest DEF Working
  <1> QED
    BY <1>2, <1>4, <1>5, <1>6, <1>7, <1>8, Typed, CalmPass

\* Lease and gate: a pass that finds the lease taken, takes it, skips a task
\* that has no work, or ends.
LEMMA GroupIsCalm ==
    ASSUME TypeInv, NEW p \in Passes, Acquire(p) \/ LeaseBusy(p) \/ SkipTask(p) \/ RecordSkip(p) \/ EndGroup(p)
    PROVE  Calm
  <1>0. TypeOK /\ Nobody \notin Passes
    BY Typed, PassesAssumption
  <1>1. CASE Acquire(p)
    <2>1. /\ pass[p].pc = "acquire" /\ holder = Nobody /\ holder' = p /\ Goto(p, "next")
          /\ UNCHANGED <<row, work, tries, faults>>
      BY <1>1 DEF Acquire
    <2>2. /\ pass' \in [Passes -> PassRecord] /\ pass'[p].pc = "next"
          /\ \A q \in Passes : q # p => pass'[q] = pass[q]
      BY <1>0, <2>1, GotoIs DEF Steps
    <2>3. pass[p].pc \notin Working /\ pass'[p].pc \notin Working /\ Proper(p, pass'[p])
      BY <2>1, <2>2, ProperAtRest DEF Working
    <2>4. \A q \in Passes : q # p => (holder' = q <=> holder = q)
      BY <1>0, <2>1
    <2> QED
      BY <2>1, <2>2, <2>3, <2>4, RowsStay, Typed, CalmPass
  <1>2. CASE LeaseBusy(p)
    <2>1. pass[p].pc = "acquire" /\ Set(p, IdlePass) /\ UNCHANGED <<row, work, holder, tries, faults>>
      BY <1>2 DEF LeaseBusy
    <2>2. /\ pass' \in [Passes -> PassRecord] /\ pass'[p].pc = "idle"
          /\ \A q \in Passes : q # p => pass'[q] = pass[q]
      BY <1>0, <2>1, OnlyPassIs, IdleIs DEF OnlyPass, Set
    <2>3. pass[p].pc \notin Working /\ pass'[p].pc \notin Working /\ Proper(p, pass'[p])
      BY <2>1, <2>2, ProperAtRest DEF Working
    <2> QED
      BY <2>1, <2>2, <2>3, RowsStay, Typed, CalmPass
  <1>3. CASE SkipTask(p)
    <2> DEFINE c == Current(p)
               r == [pass[p] EXCEPT !.pc = "skipped", !.at = c, !.todo = @ \ {c}]
    <2>1. /\ pass[p].pc = "next" /\ pass[p].todo # {} /\ UNCHANGED <<row, work, holder, tries, faults>>
          /\ pass' = [pass EXCEPT ![p].pc = "skipped", ![p].at = c, ![p].todo = @ \ {c}]
      BY <1>3 DEF SkipTask, HasNext
    <2>2. c \in Tasks /\ c \in 0..NTasks
      BY <1>0, <2>1, CurrentIsTask, Bounds
    <2> HIDE DEF c
    <2>3. pass' = [pass EXCEPT ![p] = r]
      BY <2>1, Typed
    <2>4. r \in PassRecord /\ r.pc = "skipped" /\ r.at \in Tasks
      BY <2>2, Typed DEF PassRecord, Steps
    <2> HIDE DEF r
    <2>5. pass[p].pc \notin Working /\ r.pc \notin Working /\ Proper(p, r)
      BY <2>1, <2>4 DEF Working, Proper
    <2> QED
      BY <2>1, <2>3, <2>4, <2>5, PassOnlyIsCalm
  <1>5. CASE RecordSkip(p)
    <2> DEFINE c == pass[p].at
               step == IF pass[p].pc = "closed" THEN "gate" ELSE "next"
    <2>1. /\ pass[p].pc \in {"closed", "skipped"} /\ Write(p, c, Advanced(p)) /\ Goto(p, step)
          /\ UNCHANGED <<work, holder, faults>>
      BY <1>5 DEF RecordSkip
    <2>2. c \in Tasks
      BY <2>1, Typed DEF InHand
    <2>3. step \in {"gate", "next"} /\ step \in Steps
      BY DEF Steps
    <2> HIDE DEF c, step
    <2>4. /\ pass' \in [Passes -> PassRecord] /\ pass'[p].pc = step
          /\ \A q \in Passes : q # p => pass'[q] = pass[q]
      BY <1>0, <2>1, <2>3, GotoIs
    <2>5. Advanced(p) \in Row /\ Sound(Advanced(p))
      BY <2>2, RowsWritten, Typed
    <2>6. /\ row' \in [Tasks -> Row] /\ tries' \in [Tasks -> Nat]
          /\ \A u \in Tasks : Sound(row'[u])
          /\ \A u \in Tasks : u # c => row'[u] = row[u] /\ tries'[u] = tries[u]
          /\ tries'[c] = 0
      BY <2>1, <2>2, <2>5, WriteIs
    <2>7. SameCounts
      BY <2>6, RetryIsNat DEF SameCounts
    <2>8. pass[p].pc \notin Working /\ pass'[p].pc \notin Working /\ Proper(p, pass'[p])
      BY <2>1, <2>3, <2>4, ProperAtRest DEF Working
    <2> QED
      BY <2>1, <2>4, <2>6, <2>7, <2>8, Typed, CalmPass
  <1>4. CASE EndGroup(p)
    <2>1. /\ pass[p].pc = "next" /\ Set(p, IdlePass) /\ holder' = (IF holder = p THEN Nobody ELSE holder)
          /\ UNCHANGED <<row, work, tries, faults>>
      BY <1>4 DEF EndGroup
    <2>2. /\ pass' \in [Passes -> PassRecord] /\ pass'[p].pc = "idle"
          /\ \A q \in Passes : q # p => pass'[q] = pass[q]
      BY <1>0, <2>1, OnlyPassIs, IdleIs DEF OnlyPass, Set
    <2>3. pass[p].pc \notin Working /\ pass'[p].pc \notin Working /\ Proper(p, pass'[p])
      BY <2>1, <2>2, ProperAtRest DEF Working
    <2>4. holder' \in Passes \cup {Nobody, Orphan} /\ \A q \in Passes : q # p => (holder' = q <=> holder = q)
      BY <1>0, <2>1, Typed
    <2> QED
      BY <2>1, <2>2, <2>3, <2>4, RowsStay, Typed, CalmPass
  <1> QED
    BY <1>1, <1>2, <1>3, <1>4, <1>5

\* An executor that comes back has not recorded anything yet.
LEMMA OutcomeIsCalm ==
    ASSUME TypeInv, NEW p \in Passes, Complete(p) \/ Fail(p)
    PROVE  Calm
  <1>1. PICK step \in {"completed", "transient", "failed"} :
           /\ pass[p].pc = "exec" /\ Goto(p, step) /\ UNCHANGED <<row, holder, tries, faults>>
    BY DEF Complete, Fail
  <1>2. work' \in [Tasks -> BOOLEAN]
    BY Typed DEF Complete, Fail
  <1>3. /\ pass' \in [Passes -> PassRecord] /\ pass'[p].pc = step /\ pass'[p].at = pass[p].at
        /\ \A q \in Passes : q # p => pass'[q] = pass[q]
    <2>1. step \in Steps
      BY DEF Steps
    <2> QED
      BY <1>1, <2>1, GotoIs, Typed
  <1>4. /\ pass[p].pc \in Working /\ pass'[p].pc \in Working /\ pass'[p].pc # "record"
        /\ pass[p].at \in Tasks
    BY <1>1, <1>3, Typed DEF Working
  <1>5. \A q \in Passes : Proper(q, pass'[q])
    BY <1>3, <1>4, Typed, ProperAtWork
  <1>6. TypeInv'
    BY <1>1, <1>2, <1>3, <1>5, RowsStay, Typed, TypeFrom
  <1>7. SameWorkers
    BY <1>1, <1>3, <1>4 DEF SameWorkers
  <1> QED
    BY <1>1, <1>6, <1>7, RowsStay DEF Calm

\* The lease of a dead process.
LEMMA OrphanIsCalm ==
    ASSUME TypeInv, LeaseLapses, holder = Orphan
    PROVE  Calm
  <1>1. holder' = Nobody /\ UNCHANGED <<row, work, pass, tries, faults>>
    BY PassesAssumption DEF LeaseLapses
  <1>2. TypeInv'
    BY <1>1, RowsStay, Typed, TypeFrom
  <1>3. SameWorkers
    BY <1>1, PassesAssumption DEF SameWorkers
  <1> QED
    BY <1>1, <1>2, <1>3, RowsStay DEF Calm

----------------------------------------------------------------------------
(* The accounts *)

\* Passes that are at work on a task without the lease: each has lost it to a
\* lapse, and may still write an old count over a newer one.
Strays(t) == {p \in Passes : pass[p].pc \in Working /\ pass[p].at = t /\ holder # p}

\* 1 while the holder is at work on the task.
Attended(t) == \E p \in Passes : pass[p].pc \in Working /\ pass[p].at = t /\ holder = p
Turn(t) == IF Attended(t) THEN 1 ELSE 0

\* What n strays may lose, and what f faults allow to be lost.
Cost(n)   == MaxRetries * n
Credit(f) == (1 + MaxRetries) * f

Owed(t) == tries[t] + Cost(Cardinality(Strays(t)))

\* Every execution is in the row's count, in progress, or allowed by a fault.
Accounts == \A t \in Tasks : /\ IsFiniteSet(Strays(t)) /\ Cardinality(Strays(t)) <= faults
                             /\ Owed(t) <= row[t].retry + Turn(t) + Credit(faults)

\* And is so after the holder has written the count it has read.
Records == \A p \in Passes, t \in Tasks : pass[p].pc = "record" /\ holder = p /\ pass[p].at = t =>
                                               Owed(t) <= pass[p].prior.retry + 1 + Credit(faults)

ScheduleInv == TypeInv /\ Accounts /\ Records

LEMMA CostIs ==
    ASSUME NEW n \in Nat, NEW f \in Nat
    PROVE  /\ Cost(n) \in Nat /\ Cost(n + 1) = Cost(n) + MaxRetries
           /\ Credit(f) \in Nat /\ Credit(f + 1) = Credit(f) + 1 + MaxRetries
           /\ n <= f => Cost(n) <= Credit(f)
  <1>1. MaxRetries \in Nat
    BY Bounds
  <1>2. Cost(n) \in Nat /\ Credit(f) \in Nat
    BY <1>1 DEF Cost, Credit
  <1>3. Cost(n + 1) = Cost(n) + MaxRetries
    BY <1>1 DEF Cost
  <1>4. Credit(f + 1) = Credit(f) + 1 + MaxRetries
    BY <1>1 DEF Credit
  <1>5. ASSUME n <= f PROVE Cost(n) <= Credit(f)
    <2>1. MaxRetries * (f - n) >= 0
      BY <1>1, <1>5
    <2>2. MaxRetries * (f - n) = MaxRetries * f - MaxRetries * n
      BY <1>1
    <2>3. (1 + MaxRetries) * f = f + MaxRetries * f
      BY <1>1
    <2>4. MaxRetries * f \in Int /\ MaxRetries * n \in Int
      BY <1>1
    <2> QED
      BY <2>1, <2>2, <2>3, <2>4 DEF Cost, Credit
  <1> QED
    BY <1>2, <1>3, <1>4, <1>5

\* The numbers of the accounts are naturals.
LEMMA Numbers ==
    ASSUME ScheduleInv, NEW t \in Tasks
    PROVE  /\ tries[t] \in Nat /\ faults \in Nat /\ Turn(t) \in {0, 1}
           /\ row[t].retry \in Nat /\ row[t].retry <= MaxRetries /\ MaxRetries \in Nat
           /\ IsFiniteSet(Strays(t)) /\ Cardinality(Strays(t)) \in Nat /\ Cardinality(Strays(t)) <= faults
           /\ Cost(Cardinality(Strays(t))) \in Nat /\ Credit(faults) \in Nat
           /\ Cost(Cardinality(Strays(t))) <= Credit(faults)
           /\ Owed(t) = tries[t] + Cost(Cardinality(Strays(t))) /\ Owed(t) \in Nat
           /\ Owed(t) <= row[t].retry + Turn(t) + Credit(faults)
  <1>1. TypeInv /\ IsFiniteSet(Strays(t)) /\ Cardinality(Strays(t)) <= faults
        /\ Owed(t) <= row[t].retry + Turn(t) + Credit(faults)
    BY DEF ScheduleInv, Accounts
  <1>2. tries[t] \in Nat /\ faults \in Nat
    BY <1>1, Typed, Bounds
  <1>3. row[t].retry \in Nat /\ row[t].retry <= MaxRetries /\ MaxRetries \in Nat
    BY <1>1, RetryIsNat, Bounds
  <1>4. Cardinality(Strays(t)) \in Nat
    BY <1>1, FS_CardinalityType
  <1>5. /\ Cost(Cardinality(Strays(t))) \in Nat /\ Credit(faults) \in Nat
        /\ Cost(Cardinality(Strays(t))) <= Credit(faults)
    BY <1>1, <1>2, <1>4, CostIs
  <1>6. Turn(t) \in {0, 1}
    BY DEF Turn
  <1>7. Owed(t) = tries[t] + Cost(Cardinality(Strays(t))) /\ Owed(t) \in Nat
    BY <1>2, <1>5 DEF Owed
  <1> QED
    BY <1>1, <1>2, <1>3, <1>4, <1>5, <1>6, <1>7

\* The same passes are at work, with and without the lease.
LEMMA StraysSame ==
    ASSUME \A p \in Passes : /\ pass'[p].pc \in Working <=> pass[p].pc \in Working
                             /\ pass[p].pc \in Working => pass'[p].at = pass[p].at /\ (holder' = p <=> holder = p)
    PROVE  \A t \in Tasks : Strays(t)' = Strays(t) /\ Turn(t)' = Turn(t)
  <1> TAKE t \in Tasks
  <1>1. Strays(t)' = Strays(t)
    BY DEF Strays
  <1>2. Attended(t)' <=> Attended(t)
    BY DEF Attended
  <1> QED
    BY <1>1, <1>2 DEF Turn

\* A step that leaves the accounts alone.
LEMMA CalmKeeps ==
    ASSUME ScheduleInv, Calm
    PROVE  ScheduleInv'
  <1>1. /\ TypeInv' /\ TypeInv /\ faults' = faults /\ SameCounts
        /\ \A t \in Tasks : Strays(t)' = Strays(t) /\ Turn(t)' = Turn(t)
    BY StraysSame DEF Calm, SameWorkers, ScheduleInv
  <1>2. ASSUME NEW t \in Tasks
        PROVE  /\ IsFiniteSet(Strays(t)') /\ Cardinality(Strays(t)') <= faults'
               /\ Owed(t)' <= row'[t].retry + Turn(t)' + Credit(faults')
               /\ Owed(t)' <= Owed(t) \/ Owed(t)' <= Credit(faults)
               /\ Owed(t)' \in Nat
    <2> DEFINE k == Cost(Cardinality(Strays(t)))
    <2>1. Owed(t)' = tries'[t] + k
      BY <1>1 DEF Owed
    <2>2. /\ tries[t] \in Nat /\ Turn(t) \in {0, 1} /\ row[t].retry \in Nat /\ k \in Nat /\ Credit(faults) \in Nat
          /\ k <= Credit(faults) /\ Owed(t) = tries[t] + k /\ Owed(t) <= row[t].retry + Turn(t) + Credit(faults)
          /\ IsFiniteSet(Strays(t)) /\ Cardinality(Strays(t)) <= faults
      BY Numbers
    <2> HIDE DEF k
    <2>3. tries'[t] = 0 \/ (tries'[t] = tries[t] /\ row'[t].retry >= row[t].retry)
      BY <1>1 DEF SameCounts
    <2>4. row'[t].retry \in Nat
      BY <1>1, RetryIsNatNext
    <2> DEFINE a == row[t].retry
               b == row'[t].retry
               c == Credit(faults)
               d == Turn(t)
               o == Owed(t)
    <2> HIDE DEF a, b, c, d, o
    <2>5. /\ Owed(t)' <= b + d + c /\ (Owed(t)' <= o \/ Owed(t)' <= c) /\ Owed(t)' \in Nat
      BY <2>1, <2>2, <2>3, <2>4 DEF a, b, c, d, o
    <2> QED
      BY <1>1, <2>2, <2>5 DEF b, c, d, o
  <1>3. Accounts'
    BY <1>2 DEF Accounts
  <1>4. ASSUME NEW p \in Passes, NEW t \in Tasks, pass'[p].pc = "record", holder' = p, pass'[p].at = t
        PROVE  Owed(t)' <= pass'[p].prior.retry + 1 + Credit(faults')
    <2>1. /\ pass[p].pc = "record" /\ pass'[p].prior = pass[p].prior /\ pass[p].at = t /\ holder = p
      BY <1>4 DEF Calm, SameWorkers, Working
    <2> DEFINE m == pass[p].prior.retry
    <2>2. m \in Nat
      <3>1. pass[p].prior \in Row
        BY <1>1, Typed
      <3> QED
        BY <3>1, Bounds DEF Row
    <2>3. Owed(t) <= m + 1 + Credit(faults)
      BY <2>1 DEF ScheduleInv, Records
    <2>4. (Owed(t)' <= Owed(t) \/ Owed(t)' <= Credit(faults)) /\ Owed(t)' \in Nat
      BY <1>2
    <2>5. Owed(t) \in Nat /\ Credit(faults) \in Nat
      BY Numbers
    <2> HIDE DEF m
    <2>6. Owed(t)' <= m + 1 + Credit(faults)
      BY <2>2, <2>3, <2>4, <2>5
    <2> QED
      BY <1>1, <2>1, <2>6 DEF m
  <1>5. Records'
    BY <1>4 DEF Records
  <1> QED
    BY <1>1, <1>3, <1>5 DEF ScheduleInv

\* One stray less costs less; one more costs one round of retries.
LEMMA StrayCosts ==
    ASSUME ScheduleInv, NEW t \in Tasks, NEW p
    PROVE  /\ IsFiniteSet(Strays(t) \ {p}) /\ IsFiniteSet(Strays(t) \cup {p})
           /\ Cardinality(Strays(t) \ {p}) \in Nat /\ Cardinality(Strays(t) \ {p}) <= faults
           /\ Cardinality(Strays(t) \cup {p}) \in Nat /\ Cardinality(Strays(t) \cup {p}) <= faults + 1
           /\ p \in Strays(t) =>
                 Cost(Cardinality(Strays(t) \ {p})) + MaxRetries = Cost(Cardinality(Strays(t)))
           /\ p \notin Strays(t) =>
                 Cost(Cardinality(Strays(t) \cup {p})) = Cost(Cardinality(Strays(t))) + MaxRetries
           /\ Cost(Cardinality(Strays(t) \ {p})) \in Nat
           /\ Cost(Cardinality(Strays(t) \ {p})) <= Cost(Cardinality(Strays(t)))
  <1> DEFINE S == Strays(t)
             n == Cardinality(S)
  <1>1. IsFiniteSet(S) /\ n \in Nat /\ n <= faults /\ faults \in Nat /\ MaxRetries \in Nat
    BY Numbers
  <1> HIDE DEF S
  <1>2. /\ IsFiniteSet(S \ {p}) /\ IsFiniteSet(S \cup {p})
        /\ Cardinality(S \ {p}) = (IF p \in S THEN n - 1 ELSE n)
        /\ Cardinality(S \cup {p}) = (IF p \in S THEN n ELSE n + 1)
    BY <1>1, FS_RemoveElement, FS_AddElement
  <1>3. Cardinality(S \ {p}) \in Nat /\ Cardinality(S \cup {p}) \in Nat
    BY <1>2, FS_CardinalityType
  <1>4. p \in S => Cardinality(S \ {p}) + 1 = n
    BY <1>1, <1>2
  <1>5. p \in S => Cost(Cardinality(S \ {p})) + MaxRetries = Cost(n)
    <2>1. Cost(Cardinality(S \ {p}) + 1) = Cost(Cardinality(S \ {p})) + MaxRetries
      BY <1>3, CostIs
    <2> QED
      BY <1>4, <2>1
  <1>6. p \notin S => Cost(Cardinality(S \cup {p})) = Cost(n) + MaxRetries
    BY <1>1, <1>2, CostIs
  <1>7. Cost(Cardinality(S \ {p})) \in Nat /\ Cost(n) \in Nat
    BY <1>1, <1>3, CostIs
  <1>8. p \notin S => Cost(Cardinality(S \ {p})) = Cost(n)
    BY <1>2
  <1>9. Cost(Cardinality(S \ {p})) <= Cost(n)
    <2>1. CASE p \in S
      BY <1>1, <1>5, <1>7, <2>1
    <2>2. CASE p \notin S
      BY <1>7, <1>8, <2>2
    <2> QED
      BY <2>1, <2>2
  <1>10. Cardinality(S \ {p}) <= faults /\ Cardinality(S \cup {p}) <= faults + 1
    BY <1>1, <1>2
  <1> QED
    BY <1>2, <1>3, <1>5, <1>6, <1>7, <1>9, <1>10 DEF S

\* A pass that goes on with a row it remembers.
LEMMA PriorIs ==
    ASSUME TypeInv, NEW p \in Passes, NEW step \in Steps, NEW x \in Row,
           pass' = [pass EXCEPT ![p].pc = step, ![p].prior = x]
    PROVE  /\ pass' \in [Passes -> PassRecord] /\ pass'[p].pc = step /\ pass'[p].prior = x
           /\ pass'[p].at = pass[p].at /\ \A q \in Passes : q # p => pass'[q] = pass[q]
  <1> DEFINE r == [pass[p] EXCEPT !.pc = step, !.prior = x]
  <1>1. pass \in [Passes -> PassRecord] /\ pass[p] \in PassRecord
    BY Typed
  <1>2. pass' = [pass EXCEPT ![p] = r]
    BY <1>1
  <1>3. r \in PassRecord /\ r.pc = step /\ r.prior = x /\ r.at = pass[p].at
    BY <1>1 DEF PassRecord
  <1> HIDE DEF r
  <1> QED
    BY <1>1, <1>2, <1>3

\* recordTransientFailure reads the row.
LEMMA ReadPriorKeeps ==
    ASSUME ScheduleInv, NEW p \in Passes, ReadPrior(p)
    PROVE  ScheduleInv'
  <1>0. TypeInv
    BY DEF ScheduleInv
  <1> DEFINE u == pass[p].at
  <1>1. /\ pass[p].pc = "transient" /\ pass' = [pass EXCEPT ![p].pc = "record", ![p].prior = row[u]]
        /\ UNCHANGED <<row, work, holder, tries, faults>>
    BY DEF ReadPrior
  <1>2. u \in Tasks /\ row[u] \in Row
    BY <1>0, <1>1, Typed DEF Working
  <1>3. /\ pass' \in [Passes -> PassRecord] /\ pass'[p].pc = "record" /\ pass'[p].prior = row[u]
        /\ pass'[p].at = u /\ \A q \in Passes : q # p => pass'[q] = pass[q]
    <2>1. "record" \in Steps
      BY DEF Steps
    <2> HIDE DEF u
    <2>2. pass'[p].at = pass[p].at
      BY <1>0, <1>1, <1>2, <2>1, PriorIs
    <2> QED
      BY <1>0, <1>1, <1>2, <2>1, <2>2, PriorIs DEF u
  <1>4. TypeInv'
    <2>1. Proper(p, pass'[p])
      BY <1>2, <1>3, ProperAtWork DEF Working
    <2>2. \A q \in Passes : Proper(q, pass'[q])
      BY <1>0, <1>3, <2>1, Typed
    <2> QED
      BY <1>0, <1>1, <1>3, <2>2, RowsStay, Typed, TypeFrom
  <1>5. \A t \in Tasks : Strays(t)' = Strays(t) /\ Turn(t)' = Turn(t)
    <2>1. \A q \in Passes : /\ pass'[q].pc \in Working <=> pass[q].pc \in Working
                            /\ pass[q].pc \in Working => pass'[q].at = pass[q].at /\ (holder' = q <=> holder = q)
      BY <1>1, <1>3 DEF Working
    <2> QED
      BY <2>1, StraysSame
  <1>6. \A t \in Tasks : Owed(t)' = Owed(t)
    BY <1>1, <1>5 DEF Owed
  <1>7. Accounts'
    BY <1>1, <1>5, <1>6 DEF Accounts, ScheduleInv
  <1>8. ASSUME NEW q \in Passes, NEW t \in Tasks, pass'[q].pc = "record", holder' = q, pass'[q].at = t
        PROVE  Owed(t)' <= pass'[q].prior.retry + 1 + Credit(faults')
    <2>1. CASE q = p
      <3>1. t = u /\ pass'[q].prior = row[t]
        BY <1>3, <1>8, <2>1
      <3>2. /\ Owed(t) \in Nat /\ Owed(t) <= row[t].retry + Turn(t) + Credit(faults)
            /\ row[t].retry \in Nat /\ Turn(t) \in {0, 1} /\ Credit(faults) \in Nat
        BY Numbers
      <3>3. Owed(t) <= row[t].retry + 1 + Credit(faults)
        BY <3>2
      <3> QED
        BY <1>1, <1>6, <3>1, <3>3
    <2>2. CASE q # p
      BY <1>1, <1>3, <1>6, <1>8, <2>2 DEF ScheduleInv, Records
    <2> QED
      BY <2>1, <2>2
  <1> QED
    BY <1>4, <1>7, <1>8 DEF ScheduleInv, Records

\* The holder starts a task.
LEMMA BeginKeeps ==
    ASSUME ScheduleInv, NEW p \in Passes, BeginTask(p)
    PROVE  ScheduleInv'
  <1>0. TypeInv /\ TypeOK
    BY Typed DEF ScheduleInv
  <1> DEFINE c == Current(p)
  <1>1. /\ pass' \in [Passes -> PassRecord] /\ pass'[p].pc = "exec" /\ pass'[p].at = c
        /\ c \in Tasks /\ holder = p /\ pass[p].pc = "next"
        /\ \A q \in Passes : q # p => pass'[q] = pass[q]
        /\ tries' = [tries EXCEPT ![c] = @ + 1] /\ UNCHANGED <<row, work, holder, faults>>
    BY <1>0, BeginIs
  <1>c. PICK d \in Tasks : d = c
    BY <1>1
  <1> HIDE DEF c
  <1>2. \A t \in Tasks : tries'[t] = IF t = d THEN tries[t] + 1 ELSE tries[t]
    BY <1>0, <1>1, <1>c, Typed
  <1>3. TypeInv'
    <2>1. tries' \in [Tasks -> Nat]
      BY <1>0, <1>1, Typed
    <2>4. Proper(p, pass'[p])
      BY <1>1, ProperAtWork DEF Working
    <2>2. \A q \in Passes : Proper(q, pass'[q])
      BY <1>0, <1>1, <2>4, Typed
    <2>3. row' \in [Tasks -> Row] /\ \A t \in Tasks : Sound(row'[t])
      BY <1>0, <1>1, Typed
    <2> QED
      BY <1>0, <1>1, <2>1, <2>2, <2>3, Typed, TypeFrom
  <1>4. ASSUME NEW t \in Tasks
        PROVE  Strays(t)' = Strays(t) /\ Turn(t) = 0 /\ Turn(t)' = IF t = d THEN 1 ELSE 0
    <2>1. pass[p].pc \notin Working /\ pass'[p].pc \in Working
      BY <1>1 DEF Working
    <2>2. Strays(t)' = Strays(t)
      BY <1>1, <2>1 DEF Strays
    <2>3. ~Attended(t)
      BY <1>1, <2>1 DEF Attended
    <2>4. Attended(t)' <=> t = d
      BY <1>1, <1>c, <2>1 DEF Attended
    <2> QED
      BY <2>2, <2>3, <2>4 DEF Turn
  <1>5. ASSUME NEW t \in Tasks
        PROVE  /\ IsFiniteSet(Strays(t)') /\ Cardinality(Strays(t)') <= faults'
               /\ Owed(t)' <= row'[t].retry + Turn(t)' + Credit(faults')
    <2> DEFINE k == Cost(Cardinality(Strays(t)))
               a == row[t].retry
               f == Credit(faults)
    <2>1. /\ tries[t] \in Nat /\ a \in Nat /\ k \in Nat /\ f \in Nat
          /\ Owed(t) = tries[t] + k /\ Owed(t) <= a + Turn(t) + f
          /\ IsFiniteSet(Strays(t)) /\ Cardinality(Strays(t)) <= faults
      BY Numbers
    <2>2. Owed(t)' = tries'[t] + k
      BY <1>4 DEF Owed
    <2>3. row'[t].retry = a /\ Credit(faults') = f /\ faults' = faults
      BY <1>1
    <2>4. Turn(t) = 0 /\ Turn(t)' = (IF t = d THEN 1 ELSE 0) /\ Strays(t)' = Strays(t)
      BY <1>4
    <2> HIDE DEF k, a, f
    <2>5. Owed(t)' <= a + Turn(t)' + f
      BY <1>2, <2>1, <2>2, <2>4
    <2> QED
      BY <2>1, <2>3, <2>4, <2>5
  <1>6. ASSUME NEW q \in Passes
        PROVE  ~(pass'[q].pc = "record" /\ holder' = q)
    BY <1>1
  <1> QED
    BY <1>3, <1>5, <1>6 DEF ScheduleInv, Accounts, Records


\* A pass records an outcome: the holder's count is that of the executions so
\* far, that of a stray costs what it was given credit for.
LEMMA RecordKeeps ==
    ASSUME ScheduleInv, NEW p \in Passes, NEW u \in Tasks, NEW new \in Row, Sound(new),
           pass[p].pc \in Working, pass[p].at = u, Write(p, u, new),
           pass' \in [Passes -> PassRecord], pass'[p].pc = "next",
           \A q \in Passes : q # p => pass'[q] = pass[q], UNCHANGED <<work, holder, faults>>,
           \/ new = Advanced(p)
           \/ pass[p].pc = "record" /\ new # Advanced(p) /\ new.retry = pass[p].prior.retry + 1
    PROVE  ScheduleInv'
  <1>0. TypeInv
    BY DEF ScheduleInv
  <1>1. /\ row' \in [Tasks -> Row] /\ tries' \in [Tasks -> Nat] /\ row'[u] = new
        /\ \A t \in Tasks : Sound(row'[t])
        /\ \A t \in Tasks : t # u => row'[t] = row[t] /\ tries'[t] = tries[t]
        /\ tries'[u] = IF new = Advanced(p) THEN 0 ELSE tries[u]
    BY <1>0, WriteIs
  <1>2. pass'[p].pc \notin Working
    BY DEF Working
  <1>3. TypeInv'
    <2>1. \A q \in Passes : Proper(q, pass'[q])
      BY <1>0, Typed, ProperAtRest
    <2> QED
      BY <1>0, <1>1, <2>1, Typed, TypeFrom
  <1>4. ASSUME NEW t \in Tasks
        PROVE  /\ Strays(t)' = Strays(t) \ {p}
               /\ t # u => p \notin Strays(t)
               /\ p \in Strays(u) <=> holder # p
    <2>1. Strays(t)' = Strays(t) \ {p}
      BY <1>2 DEF Strays
    <2> QED
      BY <2>1 DEF Strays
  <1>5. ASSUME NEW t \in Tasks
        PROVE  Turn(t)' = IF t = u /\ holder = p THEN 0 ELSE Turn(t)
    <2>1. CASE t = u /\ holder = p
      <3>1. ~Attended(t)'
        BY <1>2, <2>1 DEF Attended
      <3> QED
        BY <2>1, <3>1 DEF Turn
    <2>2. CASE ~(t = u /\ holder = p)
      <3>1. Attended(t)' <=> Attended(t)
        BY <1>2, <2>2 DEF Attended
      <3>2. Turn(t)' = Turn(t)
        BY <3>1 DEF Turn
      <3> QED
        BY <2>2, <3>2
    <2> QED
      BY <2>1, <2>2
  <1>6. ASSUME NEW t \in Tasks
        PROVE  /\ IsFiniteSet(Strays(t)') /\ Cardinality(Strays(t)') <= faults'
               /\ Owed(t)' <= row'[t].retry + Turn(t)' + Credit(faults')
               /\ Owed(t)' <= Owed(t) \/ Owed(t)' <= Credit(faults)
               /\ Owed(t)' \in Nat
    <2> DEFINE k == Cost(Cardinality(Strays(t)))
               j == Cost(Cardinality(Strays(t) \ {p}))
               a == row[t].retry
               b == row'[t].retry
               f == Credit(faults)
               o == Owed(t)
               h == Turn(t)
    <2>1. /\ tries[t] \in Nat /\ a \in Nat /\ a <= MaxRetries /\ MaxRetries \in Nat /\ k \in Nat /\ f \in Nat
          /\ k <= f /\ o = tries[t] + k /\ o <= a + h + f /\ h \in {0, 1} /\ o \in Nat
      BY Numbers
    <2>2. /\ IsFiniteSet(Strays(t) \ {p}) /\ Cardinality(Strays(t) \ {p}) <= faults
          /\ p \in Strays(t) => j + MaxRetries = k
          /\ j \in Nat /\ j <= k
      BY StrayCosts
    <2>3. Owed(t)' = tries'[t] + j /\ Strays(t)' = Strays(t) \ {p}
      BY <1>4 DEF Owed
    <2>4. b \in Nat
      BY <1>3, RetryIsNatNext
    <2>5. Turn(t)' = IF t = u /\ holder = p THEN 0 ELSE h
      BY <1>5
    <2>6. t = u /\ holder # p => p \in Strays(t)
      BY <1>4
    <2>7. t # u => b = a /\ tries'[t] = tries[t]
      BY <1>1
    <2>8. t = u => tries'[t] = 0 \/ tries'[t] = tries[t]
      BY <1>1
    <2>9. t = u /\ holder = p /\ tries'[t] # 0 => o <= b + f
      <3> SUFFICES ASSUME t = u, holder = p, tries'[t] # 0
                   PROVE  o <= b + f
        OBVIOUS
      <3>1. new # Advanced(p)
        BY <1>1
      <3>2. pass[p].pc = "record" /\ b = pass[p].prior.retry + 1
        BY <1>1, <3>1
      <3>3. o <= pass[p].prior.retry + 1 + f
        BY <3>2 DEF ScheduleInv, Records
      <3> QED
        BY <3>2, <3>3
    <2>10. tries'[t] \in Nat
      BY <1>1
    <2> DEFINE y == tries'[t]
               x == tries[t]
    <2> HIDE DEF k, j, a, b, f, o, h, x, y
    <2>11. y + j <= b + Turn(t)' + f /\ (y + j <= o \/ y + j <= f) /\ y + j \in Nat
      <3>1. CASE t # u
        BY <2>1, <2>2, <2>5, <2>7, <2>10, <3>1 DEF x, y
      <3>2. CASE t = u /\ y = 0
        <4>1. Turn(t)' \in {0, 1}
          BY <2>1, <2>5
        <4> QED
          BY <2>1, <2>2, <2>4, <3>2, <4>1
      <3>3. CASE t = u /\ y # 0 /\ holder = p
        BY <2>1, <2>2, <2>4, <2>5, <2>8, <2>9, <2>10, <3>3 DEF x, y
      <3>4. CASE t = u /\ y # 0 /\ holder # p
        BY <2>1, <2>2, <2>4, <2>5, <2>6, <2>8, <2>10, <3>4 DEF x, y
      <3> QED
        BY <3>1, <3>2, <3>3, <3>4
    <2> QED
      BY <2>2, <2>3, <2>11 DEF b, f, o, y
  <1>7. ASSUME NEW q \in Passes, NEW t \in Tasks, pass'[q].pc = "record", holder' = q, pass'[q].at = t
        PROVE  Owed(t)' <= pass'[q].prior.retry + 1 + Credit(faults')
    <2>1. q # p
      BY <1>7
    <2>2. pass'[q] = pass[q] /\ holder = q /\ pass[q].pc = "record" /\ pass[q].at = t
      BY <1>7, <2>1
    <2> DEFINE m == pass[q].prior.retry
    <2>3. m \in Nat
      <3>1. pass[q].prior \in Row
        BY <1>0, Typed
      <3> QED
        BY <3>1, Bounds DEF Row
    <2>4. Owed(t) <= m + 1 + Credit(faults)
      BY <2>2 DEF ScheduleInv, Records
    <2>5. (Owed(t)' <= Owed(t) \/ Owed(t)' <= Credit(faults)) /\ Owed(t)' \in Nat
      BY <1>6
    <2>6. Owed(t) \in Nat /\ Credit(faults) \in Nat
      BY Numbers
    <2> HIDE DEF m
    <2>7. Owed(t)' <= m + 1 + Credit(faults)
      BY <2>3, <2>4, <2>5, <2>6
    <2> QED
      BY <2>2, <2>7 DEF m
  <1> QED
    BY <1>3, <1>6, <1>7 DEF ScheduleInv, Accounts, Records

\* advanceAfterRun and recordTransientFailure.
LEMMA OutcomeKeeps ==
    ASSUME ScheduleInv, NEW p \in Passes, RecordAdvance(p) \/ RecordTransient(p)
    PROVE  ScheduleInv'
  <1>0. TypeInv /\ TypeOK
    BY Typed DEF ScheduleInv
  <1>1. pass[p].pc \in Working
    BY DEF RecordAdvance, RecordTransient, Working
  <1>2. PICK u \in Tasks : pass[p].at = u
    BY <1>0, <1>1, Typed
  <1>3. "next" \in Steps /\ NoRow \in Row
    BY Bounds DEF Steps, NoRow, Row, Dues, Schedules
  <1>4. CASE RecordAdvance(p)
    <2>1. Write(p, u, Advanced(p)) /\ Goto(p, "next") /\ UNCHANGED <<work, holder, faults>>
      BY <1>2, <1>4 DEF RecordAdvance
    <2>2. Advanced(p) \in Row /\ Sound(Advanced(p))
      BY <1>0, <1>2, RowsWritten, Typed
    <2>3. /\ pass' \in [Passes -> PassRecord] /\ pass'[p].pc = "next"
          /\ \A q \in Passes : q # p => pass'[q] = pass[q]
      BY <1>0, <1>3, <2>1, GotoIs
    <2> QED
      BY <1>1, <1>2, <2>1, <2>2, <2>3, RecordKeeps
  <1>5. CASE RecordTransient(p)
    <2> DEFINE new == AfterTransient(p, pass[p].prior)
    <2>1. /\ pass[p].pc = "record" /\ Write(p, u, new) /\ UNCHANGED <<work, holder, faults>>
          /\ pass' = [pass EXCEPT ![p].pc = "next", ![p].prior = NoRow]
      BY <1>2, <1>5 DEF RecordTransient
    <2>2. pass[p].prior \in Row
      BY <1>0, Typed
    <2>3. /\ new \in Row /\ Sound(new)
          /\ new = Advanced(p) \/ (new.retry = pass[p].prior.retry + 1 /\ new # Advanced(p))
      BY <2>2, TransientRow
    <2>4. /\ pass' \in [Passes -> PassRecord] /\ pass'[p].pc = "next"
          /\ \A q \in Passes : q # p => pass'[q] = pass[q]
      BY <1>0, <1>3, <2>1, PriorIs
    <2> HIDE DEF new
    <2> QED
      BY <1>1, <1>2, <2>1, <2>3, <2>4, RecordKeeps
  <1> QED
    BY <1>4, <1>5

\* reconcileSchedule writes: a count that is lost is paid for like a fault.
LEMMA RewriteKeeps ==
    ASSUME ScheduleInv, NEW p \in Passes, Rewrite(p)
    PROVE  ScheduleInv'
  <1>0. TypeInv
    BY DEF ScheduleInv
  <1>1. /\ row' \in [Tasks -> Row] /\ (\A t \in Tasks : Sound(row'[t])) /\ tries' \in [Tasks -> Nat]
        /\ pass' \in [Passes -> PassRecord] /\ (\A q \in Passes : q # p => pass'[q] = pass[q])
        /\ pass[p].pc \notin Working /\ pass'[p].pc \notin Working /\ Proper(p, pass'[p])
        /\ UNCHANGED <<work, holder>>
        /\ \/ SameCounts /\ faults' = faults
           \/ tries' = tries /\ faults' = faults + 1
    BY <1>0, RewriteIs
  <1>2. CASE SameCounts /\ faults' = faults
    <2>1. Calm
      BY <1>0, <1>1, <1>2, Typed, CalmPass
    <2> QED
      BY <2>1, CalmKeeps
  <1>3. CASE tries' = tries /\ faults' = faults + 1
    <2>0. faults \in Nat /\ faults' = faults + 1 /\ faults' \in Nat
      BY <1>0, <1>3, Typed
    <2>1. TypeInv'
      <3>1. \A q \in Passes : Proper(q, pass'[q])
        BY <1>0, <1>1, Typed
      <3> QED
        BY <1>0, <1>1, <2>0, <3>1, Typed, TypeFrom
    <2>2. \A t \in Tasks : Strays(t)' = Strays(t) /\ Turn(t)' = Turn(t)
      <3>1. \A q \in Passes : /\ pass'[q].pc \in Working <=> pass[q].pc \in Working
                              /\ pass[q].pc \in Working => pass'[q].at = pass[q].at /\ (holder' = q <=> holder = q)
        BY <1>1
      <3> QED
        BY <3>1, StraysSame
    <2>3. ASSUME NEW t \in Tasks
          PROVE  /\ IsFiniteSet(Strays(t)') /\ Cardinality(Strays(t)') <= faults'
                 /\ Owed(t)' <= row'[t].retry + Turn(t)' + Credit(faults')
                 /\ Owed(t)' = Owed(t)
      <3> DEFINE a == row[t].retry
                 b == row'[t].retry
                 f == Credit(faults)
                 g == Credit(faults')
                 o == Owed(t)
                 h == Turn(t)
                 n == Cardinality(Strays(t))
      <3>1. /\ a \in Nat /\ a <= MaxRetries /\ MaxRetries \in Nat /\ f \in Nat /\ o \in Nat
            /\ o <= a + h + f /\ h \in {0, 1} /\ IsFiniteSet(Strays(t)) /\ n \in Nat /\ n <= faults
        BY Numbers
      <3>2. g = f + 1 + MaxRetries
        BY <2>0, CostIs
      <3>3. Owed(t)' = o
        BY <1>3, <2>2 DEF Owed
      <3>4. b \in Nat
        BY <2>1, RetryIsNatNext
      <3> HIDE DEF a, b, f, g, o, h, n
      <3>5. o <= b + h + g /\ n <= faults'
        BY <2>0, <3>1, <3>2, <3>4
      <3> QED
        BY <2>2, <3>1, <3>3, <3>5 DEF b, g, o, h, n
    <2>4. ASSUME NEW q \in Passes, NEW t \in Tasks, pass'[q].pc = "record", holder' = q, pass'[q].at = t
          PROVE  Owed(t)' <= pass'[q].prior.retry + 1 + Credit(faults')
      <3>1. q # p
        BY <1>1, <2>4 DEF Working
      <3>2. pass'[q] = pass[q] /\ holder = q /\ pass[q].pc = "record" /\ pass[q].at = t
        BY <1>1, <2>4, <3>1
      <3> DEFINE m == pass[q].prior.retry
                 f == Credit(faults)
                 g == Credit(faults')
      <3>3. m \in Nat
        <4>1. pass[q].prior \in Row
          BY <1>0, Typed
        <4> QED
          BY <4>1, Bounds DEF Row
      <3>4. Owed(t) <= m + 1 + f
        BY <3>2 DEF ScheduleInv, Records
      <3>5. Owed(t)' = Owed(t)
        BY <2>3
      <3>6. Owed(t) \in Nat /\ f \in Nat /\ MaxRetries \in Nat
        BY Numbers
      <3>7. g = f + 1 + MaxRetries
        BY <2>0, CostIs
      <3> HIDE DEF m, f, g
      <3>8. Owed(t)' <= m + 1 + g
        BY <3>3, <3>4, <3>5, <3>6, <3>7
      <3> QED
        BY <3>2, <3>8 DEF m, g
    <2> QED
      BY <2>1, <2>3, <2>4 DEF ScheduleInv, Accounts, Records
  <1> QED
    BY <1>1, <1>2, <1>3

----------------------------------------------------------------------------
(* Faults *)

LEMMA StrikesIs ==
    ASSUME ScheduleInv, NEW fault, Strikes(fault)
    PROVE  faults \in Nat /\ faults' = faults + 1 /\ faults' \in Nat
  <1>1. faults \in Nat
    BY Typed DEF ScheduleInv
  <1> QED
    BY <1>1 DEF Strikes

\* A process dies: its pass is gone, and its lease nobody's to release.
LEMMA CrashKeeps ==
    ASSUME ScheduleInv, NEW p \in Passes, Crash(p)
    PROVE  ScheduleInv'
  <1>0. TypeInv /\ TypeOK /\ Orphan \notin Passes
    BY Typed, PassesAssumption DEF ScheduleInv
  <1>1. /\ Set(p, IdlePass) /\ holder' = (IF holder = p THEN Orphan ELSE holder)
        /\ UNCHANGED <<row, work, tries>>
    BY DEF Crash
  <1>2. faults \in Nat /\ faults' = faults + 1 /\ faults' \in Nat
    BY StrikesIs DEF Crash
  <1>3. /\ pass' \in [Passes -> PassRecord] /\ pass'[p].pc = "idle"
        /\ \A q \in Passes : q # p => pass'[q] = pass[q]
    BY <1>0, <1>1, OnlyPassIs, IdleIs DEF OnlyPass, Set
  <1>4. /\ pass'[p].pc \notin Working /\ holder' \in Passes \cup {Nobody, Orphan}
        /\ \A q \in Passes : q # p => (holder' = q <=> holder = q)
    BY <1>0, <1>1, <1>3, Typed DEF Working
  <1>5. TypeInv'
    <2>1. \A q \in Passes : Proper(q, pass'[q])
      BY <1>0, <1>3, Typed, ProperAtRest
    <2>2. work' \in [Tasks -> BOOLEAN]
      BY <1>0, <1>1, Typed
    <2> QED
      BY <1>0, <1>1, <1>2, <1>3, <1>4, <2>1, <2>2, RowsStay, TypeFrom
  <1>6. ASSUME NEW t \in Tasks
        PROVE  /\ IsFiniteSet(Strays(t)') /\ Cardinality(Strays(t)') <= faults'
               /\ Owed(t)' <= row'[t].retry + Turn(t)' + Credit(faults')
               /\ Owed(t)' <= Owed(t) /\ Owed(t)' \in Nat
    <2> DEFINE k == Cost(Cardinality(Strays(t)))
               j == Cost(Cardinality(Strays(t) \ {p}))
               a == row[t].retry
               f == Credit(faults)
               g == Credit(faults')
               o == Owed(t)
    <2>1. /\ tries[t] \in Nat /\ a \in Nat /\ MaxRetries \in Nat /\ k \in Nat /\ f \in Nat
          /\ o = tries[t] + k /\ o <= a + Turn(t) + f /\ Turn(t) \in {0, 1}
      BY Numbers
    <2>2. /\ IsFiniteSet(Strays(t) \ {p}) /\ Cardinality(Strays(t) \ {p}) <= faults
          /\ Cardinality(Strays(t) \ {p}) \in Nat /\ j \in Nat /\ j <= k
      BY StrayCosts
    <2>3. Strays(t)' = Strays(t) \ {p}
      BY <1>3, <1>4 DEF Strays
    <2>4. Owed(t)' = tries[t] + j
      BY <1>1, <2>3 DEF Owed
    <2>5. g = f + 1 + MaxRetries
      BY <1>2, CostIs
    <2>6. Turn(t)' \in {0, 1} /\ row'[t].retry = a
      BY <1>1 DEF Turn
    <2>7. Cardinality(Strays(t)') <= faults'
      BY <1>2, <2>2, <2>3
    <2> HIDE DEF k, j, a, f, g, o
    <2>8. Owed(t)' <= a + Turn(t)' + g /\ Owed(t)' <= o /\ Owed(t)' \in Nat
      BY <2>1, <2>2, <2>4, <2>5, <2>6
    <2> QED
      BY <2>2, <2>3, <2>6, <2>7, <2>8 DEF g, o
  <1>7. ASSUME NEW q \in Passes, NEW t \in Tasks, pass'[q].pc = "record", holder' = q, pass'[q].at = t
        PROVE  Owed(t)' <= pass'[q].prior.retry + 1 + Credit(faults')
    <2>1. q # p
      BY <1>3, <1>7
    <2>2. pass'[q] = pass[q] /\ holder = q /\ pass[q].pc = "record" /\ pass[q].at = t
      BY <1>3, <1>4, <1>7, <2>1
    <2> DEFINE m == pass[q].prior.retry
               f == Credit(faults)
               g == Credit(faults')
    <2>3. m \in Nat
      <3>1. pass[q].prior \in Row
        BY <1>0, Typed
      <3> QED
        BY <3>1, Bounds DEF Row
    <2>4. Owed(t) <= m + 1 + f
      BY <2>2 DEF ScheduleInv, Records
    <2>5. Owed(t)' <= Owed(t) /\ Owed(t)' \in Nat
      BY <1>6
    <2>6. Owed(t) \in Nat /\ f \in Nat /\ MaxRetries \in Nat
      BY Numbers
    <2>7. g = f + 1 + MaxRetries
      BY <1>2, CostIs
    <2> HIDE DEF m, f, g
    <2>8. Owed(t)' <= m + 1 + g
      BY <2>3, <2>4, <2>5, <2>6, <2>7
    <2> QED
      BY <2>2, <2>8 DEF m, g
  <1> QED
    BY <1>5, <1>6, <1>7 DEF ScheduleInv, Accounts, Records

\* The holder loses its lease: if it is at work on a task, it is a stray now.
LEMMA LapseKeeps ==
    ASSUME ScheduleInv, LeaseLapses, holder \in Passes
    PROVE  ScheduleInv'
  <1>0. TypeInv /\ Nobody \notin Passes
    BY PassesAssumption DEF ScheduleInv
  <1>1. holder' = Nobody /\ Strikes("lapse") /\ UNCHANGED <<row, work, pass, tries>>
    BY PassesAssumption DEF LeaseLapses
  <1>2. faults \in Nat /\ faults' = faults + 1 /\ faults' \in Nat
    BY <1>1, StrikesIs
  <1>3. TypeInv'
    BY <1>0, <1>1, <1>2, RowsStay, Typed, TypeFrom
  <1>4. PICK p \in Passes : p = holder
    OBVIOUS
  <1>5. ASSUME NEW t \in Tasks
        PROVE  /\ IsFiniteSet(Strays(t)') /\ Cardinality(Strays(t)') <= faults'
               /\ Owed(t)' <= row'[t].retry + Turn(t)' + Credit(faults')
    <2> DEFINE k == Cost(Cardinality(Strays(t)))
               j == Cost(Cardinality(Strays(t) \cup {p}))
               a == row[t].retry
               f == Credit(faults)
               g == Credit(faults')
    <2>1. /\ tries[t] \in Nat /\ a \in Nat /\ MaxRetries \in Nat /\ k \in Nat /\ f \in Nat
          /\ Owed(t) = tries[t] + k /\ Owed(t) <= a + Turn(t) + f /\ Turn(t) \in {0, 1}
          /\ IsFiniteSet(Strays(t)) /\ Cardinality(Strays(t)) <= faults /\ Cardinality(Strays(t)) \in Nat
      BY Numbers
    <2>2. p \notin Strays(t)
      BY <1>4 DEF Strays
    <2>3. /\ IsFiniteSet(Strays(t) \cup {p}) /\ Cardinality(Strays(t) \cup {p}) <= faults + 1
          /\ j = k + MaxRetries
      BY <2>2, StrayCosts
    <2>4. g = f + 1 + MaxRetries
      BY <1>2, CostIs
    <2>5. Turn(t)' = 0
      <3>1. ~Attended(t)'
        BY <1>0, <1>1 DEF Attended
      <3> QED
        BY <3>1 DEF Turn
    <2>6. row'[t].retry = a /\ tries'[t] = tries[t]
      BY <1>1
    <2>7. CASE Attended(t)
      <3>1. pass[p].pc \in Working /\ pass[p].at = t
        BY <1>4, <2>7 DEF Attended
      <3>2. Strays(t)' = Strays(t) \cup {p}
        BY <1>0, <1>1, <1>4, <3>1 DEF Strays
      <3>3. Owed(t)' = tries[t] + j
        BY <2>6, <3>2 DEF Owed
      <3>4. Cardinality(Strays(t)') <= faults' /\ IsFiniteSet(Strays(t)')
        BY <1>2, <2>3, <3>2
      <3> HIDE DEF k, j, a, f, g
      <3>5. Owed(t)' <= a + Turn(t)' + g
        BY <2>1, <2>3, <2>4, <2>5, <3>3
      <3> QED
        BY <2>6, <3>4, <3>5 DEF g
    <2>8. CASE ~Attended(t)
      <3>1. ~(pass[p].pc \in Working /\ pass[p].at = t) /\ Turn(t) = 0
        BY <1>4, <2>8 DEF Attended, Turn
      <3>2. Strays(t)' = Strays(t)
        BY <1>0, <1>1, <1>4, <3>1 DEF Strays
      <3>3. Owed(t)' = tries[t] + k
        BY <2>6, <3>2 DEF Owed
      <3>4. Cardinality(Strays(t)') <= faults' /\ IsFiniteSet(Strays(t)')
        BY <1>2, <2>1, <3>2
      <3> HIDE DEF k, j, a, f, g
      <3>5. Owed(t)' <= a + Turn(t)' + g
        BY <2>1, <2>4, <2>5, <3>1, <3>3
      <3> QED
        BY <2>6, <3>4, <3>5 DEF g
    <2> QED
      BY <2>7, <2>8
  <1>6. \A q \in Passes : holder' # q
    BY <1>0, <1>1
  <1> QED
    BY <1>3, <1>5, <1>6 DEF ScheduleInv, Accounts, Records

----------------------------------------------------------------------------
(* The invariant *)

LEMMA StepKeeps ==
    ASSUME ScheduleInv, [Next]_vars
    PROVE  ScheduleInv'
  <1>0. TypeInv
    BY DEF ScheduleInv
  <1>1. CASE LeaseLapses
    BY <1>0, <1>1, OrphanIsCalm, CalmKeeps, LapseKeeps DEF LeaseLapses
  <1>2. ASSUME NEW t \in Tasks, SlotComes(t) \/ WorkArrives(t)
        PROVE  ScheduleInv'
    BY <1>0, <1>2, WorldIsCalm, CalmKeeps
  <1>3. ASSUME NEW p \in Passes, StartScheduled(p) \/ PlanStep(p)
        PROVE  ScheduleInv'
    BY <1>0, <1>3, LookingIsCalm, SeedIsCalm, CalmKeeps, RewriteKeeps DEF PlanStep
  <1>4. ASSUME NEW p \in Passes, StartManual(p) \/ \E t \in Tasks : StartForced(p, t)
        PROVE  ScheduleInv'
    BY <1>0, <1>4, ManualIsCalm, CalmKeeps
  <1>5. ASSUME NEW p \in Passes, Acquire(p) \/ LeaseBusy(p) \/ SkipTask(p) \/ RecordSkip(p) \/ EndGroup(p)
        PROVE  ScheduleInv'
    BY <1>0, <1>5, GroupIsCalm, CalmKeeps
  <1>6. ASSUME NEW p \in Passes, Complete(p) \/ Fail(p)
        PROVE  ScheduleInv'
    BY <1>0, <1>6, OutcomeIsCalm, CalmKeeps
  <1>7. ASSUME NEW p \in Passes, BeginTask(p) \/ ReadPrior(p)
        PROVE  ScheduleInv'
    BY <1>7, BeginKeeps, ReadPriorKeeps
  <1>8. ASSUME NEW p \in Passes, RecordAdvance(p) \/ RecordTransient(p)
        PROVE  ScheduleInv'
    BY <1>8, OutcomeKeeps
  <1>9. ASSUME NEW p \in Passes, Crash(p)
        PROVE  ScheduleInv'
    BY <1>9, CrashKeeps
  <1>10. CASE UNCHANGED vars
    BY <1>0, <1>10, StutterIsCalm, CalmKeeps
  <1> QED
    BY <1>1, <1>2, <1>3, <1>4, <1>5, <1>6, <1>7, <1>8, <1>9, <1>10 DEF Next, Step

LEMMA InitHolds == Init => ScheduleInv
  <1> SUFFICES ASSUME Init PROVE ScheduleInv
    OBVIOUS
  <1> DEFINE legacy == [due |-> "due", schedule |-> "none", retry |-> 0]
  <1>0. MaxRetries \in Nat /\ MaxFaults \in Nat
    BY Bounds
  <1>1. legacy \in Row /\ NoRow \in Row /\ Sound(legacy) /\ Sound(NoRow)
    BY <1>0 DEF Row, NoRow, Dues, Schedules, Sound
  <1>2. /\ row \in [Tasks -> {NoRow, legacy}] /\ work = [t \in Tasks |-> TRUE] /\ holder = Nobody
        /\ pass = [p \in Passes |-> IdlePass] /\ tries = [t \in Tasks |-> 0] /\ faults = 0
    BY DEF Init
  <1> HIDE DEF legacy
  <1>3. row \in [Tasks -> Row] /\ RowsSound
    BY <1>1, <1>2 DEF RowsSound
  <1>4. /\ pass \in [Passes -> PassRecord]
        /\ \A p \in Passes : pass[p].pc \notin Working /\ pass[p].pc # "record"
    BY <1>2, IdleIs DEF Working
  <1>5. TypeInv
    BY <1>0, <1>2, <1>3, <1>4, IdleIs, ProperAtRest DEF TypeInv, TypeOK, AtTask, PassRecord
  <1>6. ASSUME NEW t \in Tasks
        PROVE  /\ IsFiniteSet(Strays(t)) /\ Cardinality(Strays(t)) <= faults
               /\ Owed(t) <= row[t].retry + Turn(t) + Credit(faults)
    <2>1. Strays(t) = {} /\ ~Attended(t)
      BY <1>4 DEF Strays, Attended
    <2>2. IsFiniteSet(Strays(t)) /\ Cardinality(Strays(t)) = 0
      BY <2>1, FS_EmptySet
    <2>3. Owed(t) = 0
      BY <1>0, <1>2, <2>2 DEF Owed, Cost
    <2>4. Turn(t) = 0
      BY <2>1 DEF Turn
    <2>5. row[t].retry \in Nat
      BY <1>5, RetryIsNat
    <2>6. Credit(faults) = 0
      BY <1>0, <1>2 DEF Credit
    <2> QED
      BY <1>2, <2>2, <2>3, <2>4, <2>5, <2>6
  <1> QED
    BY <1>4, <1>5, <1>6 DEF ScheduleInv, Accounts, Records

LEMMA ScheduleInvHolds == Spec => []ScheduleInv
  BY InitHolds, StepKeeps, PTL DEF Spec

LEMMA InvBounds == ScheduleInv => RetriesBounded
  <1> SUFFICES ASSUME ScheduleInv, NEW t \in Tasks
               PROVE  tries[t] <= (1 + MaxRetries) * (1 + faults)
    BY DEF RetriesBounded
  <1> DEFINE k == Cost(Cardinality(Strays(t)))
             a == row[t].retry
  <1>1. /\ tries[t] \in Nat /\ a \in Nat /\ a <= MaxRetries /\ MaxRetries \in Nat /\ k \in Nat
        /\ Owed(t) = tries[t] + k /\ Owed(t) <= a + Turn(t) + Credit(faults) /\ Turn(t) \in {0, 1}
        /\ faults \in Nat /\ Credit(faults) \in Nat
    BY Numbers
  <1>2. (1 + MaxRetries) * (1 + faults) = 1 + MaxRetries + Credit(faults)
    BY <1>1 DEF Credit
  <1> HIDE DEF k, a
  <1>3. tries[t] <= 1 + MaxRetries + Credit(faults)
    BY <1>1
  <1> QED
    BY <1>2, <1>3

\* The schedule keeps its types: a pass that is at work is at work on a task of
\* the domain, and every row written is one the table may hold.
THEOREM ScheduleTypeCorrect == Spec => []TypeOK
  <1>1. ScheduleInv => TypeOK
    BY DEF ScheduleInv, TypeInv
  <1> QED
    BY <1>1, ScheduleInvHolds, PTL

\* However many passes run the tasks of the domain, by timer or by hand, a slot
\* sees one execution and MAX_TASK_RETRIES more, and as many again for each
\* crash or lapse and for each reconciliation that wrote an old row back over a
\* newer count.
THEOREM RetriesAreBounded == Spec => []RetriesBounded
  BY InvBounds, ScheduleInvHolds, PTL

----------------------------------------------------------------------------
(* Slots *)

\* How a slot can be given up.
LEMMA SlotUsed ==
    ASSUME TypeInv, Next, NEW t \in Tasks, row[t].due = "due", row'[t].due = "future"
    PROVE  \E p \in Passes :
               /\ pass[p].at = t
               /\ \/ pass[p].pc \in {"completed", "failed", "record", "closed", "skipped"}
                  \/ pass[p].pc = "rewrite" /\ pass[p].prior.due # "due"
  <1>0. row \in [Tasks -> Row] /\ row[t] \in Row /\ Sound(row[t]) /\ TypeOK
    BY Typed
  <1>1. row' # row
    OBVIOUS
  <1>2. ASSUME NEW u \in Tasks, SlotComes(u) \/ WorkArrives(u)
        PROVE  FALSE
    <2>1. row' = [row EXCEPT ![u].due = "due"]
      BY <1>1, <1>2 DEF SlotComes, WorkArrives
    <2> QED
      BY <1>0, <2>1 DEF Row
  <1>3. ASSUME NEW p \in Passes, Seed(p)
        PROVE  FALSE
    <2> DEFINE c == pass[p].at
    <2>1. row' = [row EXCEPT ![c] = Seeded(p, row[c])]
      BY <1>3 DEF Seed
    <2> HIDE DEF c
    <2>2. row'[t] = row[t] \/ row'[t] = Seeded(p, row[t])
      BY <1>0, <2>1
    <2> QED
      BY <1>0, <2>2, RowsWritten
  <1>4. ASSUME NEW p \in Passes, StartManual(p) \/ \E u \in Tasks : StartForced(p, u)
        PROVE  FALSE
    <2>1. row'[t] = row[t] \/ row'[t] = Seeded(p, row[t])
      BY <1>0, <1>4 DEF StartManual, StartForced
    <2> QED
      BY <1>0, <2>1, RowsWritten
  <1>5. ASSUME NEW p \in Passes, Rewrite(p)
        PROVE  pass[p].at = t /\ pass[p].pc = "rewrite" /\ pass[p].prior.due # "due"
    <2> DEFINE c == pass[p].at
               new == Reconciled(p, pass[p].prior)
    <2>1. pass[p].pc = "rewrite" /\ row' = [row EXCEPT ![c] = new]
      BY <1>5 DEF Rewrite, Write
    <2>2. pass[p].prior \in Row /\ Sound(pass[p].prior) /\ pass[p].prior.schedule # Schedule(p)
      BY <2>1, Typed DEF Proper
    <2>3. pass[p].prior.due = "due" => new.due # "future"
      BY <2>2, ReconciledRow
    <2> HIDE DEF c, new
    <2>4. c = t /\ new.due = "future"
      BY <1>0, <2>1
    <2> QED
      BY <2>1, <2>3, <2>4 DEF c
  <1>7. ASSUME NEW p \in Passes, RecordAdvance(p) \/ RecordTransient(p) \/ RecordSkip(p)
        PROVE  pass[p].at = t /\ pass[p].pc \in {"completed", "failed", "record", "closed", "skipped"}
    <2>1. PICK new : row' = [row EXCEPT ![pass[p].at] = new]
      BY <1>7 DEF RecordAdvance, RecordTransient, RecordSkip, Write
    <2> DEFINE c == pass[p].at
    <2>2. row' = [row EXCEPT ![c] = new]
      BY <2>1
    <2> HIDE DEF c
    <2>3. c = t
      BY <1>0, <2>2
    <2> QED
      BY <1>7, <2>3 DEF c, RecordAdvance, RecordTransient, RecordSkip
  <1>8. ~LeaseLapses /\ \A p \in Passes : /\ ~Acquire(p) /\ ~LeaseBusy(p) /\ ~BeginTask(p) /\ ~EndGroup(p)
                                          /\ ~Complete(p) /\ ~Fail(p) /\ ~ReadPrior(p) /\ ~Crash(p)
                                          /\ ~StartScheduled(p) /\ ~ReadStored(p) /\ ~Look(p) /\ ~PreGate(p)
                                          /\ ~EndPlan(p) /\ ~SkipTask(p)
    BY <1>1 DEF LeaseLapses, Acquire, LeaseBusy, BeginTask, EndGroup, Complete, Fail, ReadPrior, Crash,
                StartScheduled, ReadStored, Look, PreGate, EndPlan, SkipTask
  <1> QED
    BY <1>2, <1>3, <1>4, <1>5, <1>7, <1>8 DEF Next, Step, PlanStep

\* A due slot is given up only by a pass that found its gate closed, by the one
\* that has run the task, or by a change of schedule that saw the row before it
\* fell due: not by a refused lease, a crash, or a pass that works on another
\* task.
THEOREM SlotIsUsed == Spec => SlotNotWasted
  <1> DEFINE Used == \A t \in Tasks : row[t].due = "due" /\ row'[t].due = "future" =>
                        \E p \in Passes :
                            /\ pass[p].at = t
                            /\ \/ pass[p].pc \in {"completed", "failed", "record", "closed", "skipped"}
                               \/ pass[p].pc = "rewrite" /\ pass[p].prior.due # "due"
  <1>1. ASSUME ScheduleInv, [Next]_vars
        PROVE  [Used]_vars
    <2>1. CASE UNCHANGED vars
      BY <2>1
    <2>2. CASE Next
      <3>1. TypeInv
        BY <1>1 DEF ScheduleInv
      <3>2. Used
        BY <2>2, <3>1, SlotUsed
      <3> QED
        BY <3>2
    <2> QED
      BY <1>1, <2>1, <2>2
  <1>2. Spec => [][Used]_vars
    BY <1>1, ScheduleInvHolds, PTL DEF Spec
  <1> QED
    BY <1>2 DEF SlotNotWasted
=============================================================================
