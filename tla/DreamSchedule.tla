------------------------------ MODULE DreamSchedule -------------------------------
(***************************************************************************)
(* The dreamer's task schedule of one conflict domain of one project.      *)
(*                                                                         *)
(* A pass is one call of runDueTasksForProject (timer, message) or of      *)
(* runManualDream (/ctx-dream), of any process.  It reconciles the rows of *)
(* task_schedule_state with its configuration, plans, takes the domain's   *)
(* lease, runs its tasks in canonical order and records each outcome.  Rows *)
(* are read and written outside any transaction and not under the lease:   *)
(* every read and every write of a row is a step of its own.               *)
(* The lease itself is DreamLease; here it is a holder that may lapse.     *)
(***************************************************************************)
EXTENDS Naturals, FiniteSets, FiniteSetsExt

CONSTANTS
    Passes,       \* passes that may be in flight
    Disabling,    \* passes whose configuration has a blank schedule
    NTasks,       \* tasks of the domain, in canonical order
    MaxRetries,   \* MAX_TASK_RETRIES
    MaxFaults,    \* bound: crashes and lapses
    Faults,       \* {"crash", "lapse"}: what may strike
    Nobody,       \* no holder
    Orphan        \* a holder whose process is gone

Tasks == 1..NTasks

ASSUME PassesAssumption ==
    /\ Disabling \subseteq Passes /\ Nobody \notin Passes /\ Orphan \notin Passes /\ Nobody # Orphan
ASSUME BoundsAssumption ==
    /\ NTasks \in Nat \ {0} /\ MaxRetries \in Nat /\ MaxFaults \in Nat
    /\ Faults \subseteq {"crash", "lapse"}

VARIABLES
    row,      \* task_schedule_state: due (next_due_at against now), schedule, retry
    work,     \* whether the task's activity gate passes
    holder,   \* the domain lease
    pass,     \* per pass: pc, late (tasks that fell due after the pass read the
              \* clock), due (tasks whose gate is still to be looked at), todo (tasks),
              \* at (task in hand), forced, manual, prior (row it has read)
    tries,    \* history: executions since the task's slot was last consumed
    faults    \* faults that have struck, and counts lost to a row read earlier

vars == <<row, work, holder, pass, tries, faults>>

Schedules == {"none", "on", "blank"}      \* "none": NULL, of a legacy row
Dues == {"absent", "null", "future", "due"}
Row == [due : Dues, schedule : Schedules, retry : 0..MaxRetries]
NoRow == [due |-> "absent", schedule |-> "none", retry |-> 0]

\* The loop of planDueTasks, once for each task.
Planning == {"seed", "read", "rewrite", "look"}

\* gate, closed: the gate before the lease, and a task that did not pass it;
\* skipped: one that did not pass the gate under the lease.
Steps == Planning \cup {"idle", "gate", "closed", "acquire", "next", "skipped",
                        "exec", "completed", "failed", "transient", "record"}

IdlePass == [pc |-> "idle", late |-> {}, due |-> {}, todo |-> {}, at |-> 0,
             forced |-> FALSE, manual |-> FALSE, prior |-> NoRow]

TypeOK ==
    /\ row \in [Tasks -> Row] /\ work \in [Tasks -> BOOLEAN]
    /\ holder \in Passes \cup {Nobody, Orphan}
    /\ pass \in [Passes -> [pc : Steps, late : SUBSET Tasks, due : SUBSET Tasks, todo : SUBSET Tasks,
                            at : 0..NTasks, forced : BOOLEAN, manual : BOOLEAN, prior : Row]]
    /\ tries \in [Tasks -> Nat] /\ faults \in Nat

\* No row yet, or one from before the schedule column.
Init ==
    /\ row \in [Tasks -> {NoRow, [due |-> "due", schedule |-> "none", retry |-> 0]}]
    /\ work = [t \in Tasks |-> TRUE]
    /\ holder = Nobody
    /\ pass = [p \in Passes |-> IdlePass]
    /\ tries = [t \in Tasks |-> 0] /\ faults = 0

----------------------------------------------------------------------------
(* Rows *)

Schedule(p) == IF p \in Disabling THEN "blank" ELSE "on"

\* nextDueAtMs: never for a blank schedule, else strictly after now.
NextDue(p) == IF p \in Disabling THEN "null" ELSE "future"

\* ensureSeeded: a task does not fire when it is first seen.
Seeded(p, r) == IF r.due = "absent" THEN [due |-> NextDue(p), schedule |-> Schedule(p), retry |-> 0] ELSE r

\* advanceAfterRun writes the row anew.
Advanced(p) == [due |-> NextDue(p), schedule |-> Schedule(p), retry |-> 0]

\* reconcileSchedule, from a stored row of another schedule.
Reconciled(p, stored) ==
    IF p \in Disabling THEN [due |-> "null", schedule |-> "blank", retry |-> stored.retry]
    ELSE IF stored.schedule = "none" /\ stored.due # "null"
         THEN [due |-> stored.due, schedule |-> "on", retry |-> stored.retry]
         ELSE Advanced(p)

\* Variant: transient failures are not counted.
RetryForEver(p, prior) ==
    [due |-> IF p \in Disabling THEN "null" ELSE IF prior.due = "absent" THEN "due" ELSE prior.due,
     schedule |-> Schedule(p), retry |-> prior.retry]

\* recordTransientFailure, from the row it has read.
AfterTransient(p, prior) ==
    IF prior.retry + 1 > MaxRetries THEN Advanced(p)
    ELSE [due |-> IF p \in Disabling THEN "null"
                  ELSE IF prior.due \in {"absent", "null"} THEN "due" ELSE prior.due,
          schedule |-> Schedule(p), retry |-> prior.retry + 1]

Set(p, r) == pass' = [pass EXCEPT ![p] = r]
Goto(p, step) == pass' = [pass EXCEPT ![p].pc = step]

\* A slot that is consumed: attempts are counted afresh.
Write(p, t, new) ==
    /\ row' = [row EXCEPT ![t] = new]
    /\ tries' = IF new = Advanced(p) THEN [tries EXCEPT ![t] = 0] ELSE tries

----------------------------------------------------------------------------
(* The world *)

SlotComes(t) ==
    /\ row[t].due = "future"
    /\ row' = [row EXCEPT ![t].due = "due"]
    /\ pass' = [p \in Passes |-> IF pass[p].pc \in Planning THEN [pass[p] EXCEPT !.late = @ \cup {t}] ELSE pass[p]]
    /\ UNCHANGED <<work, holder, tries, faults>>

WorkArrives(t) ==
    /\ ~work[t]
    /\ work' = [work EXCEPT ![t] = TRUE]
    /\ UNCHANGED <<row, holder, pass, tries, faults>>

Strikes(fault) == fault \in Faults /\ faults < MaxFaults /\ faults' = faults + 1

Crash(p) ==
    /\ pass[p].pc # "idle" /\ Strikes("crash")
    /\ Set(p, IdlePass)
    /\ holder' = IF holder = p THEN Orphan ELSE holder
    /\ UNCHANGED <<row, work, tries>>

\* The lease of a dead process runs out; that of a live one only if it stalls.
LeaseLapses ==
    /\ \/ holder = Orphan /\ UNCHANGED faults
       \/ holder \in Passes /\ Strikes("lapse")
    /\ holder' = Nobody
    /\ UNCHANGED <<row, work, pass, tries>>

----------------------------------------------------------------------------
(* Planning *)

\* planDueTasks reads the clock once and then goes through the tasks.
StartScheduled(p) ==
    /\ pass[p].pc = "idle"
    /\ pass' = [pass EXCEPT ![p].pc = "seed", ![p].at = 1]
    /\ UNCHANGED <<row, work, holder, tries, faults>>

\* The insert does nothing when there is a row, whoever wrote it.
Seed(p) ==
    /\ pass[p].pc = "seed"
    /\ row' = [row EXCEPT ![pass[p].at] = Seeded(p, @)]
    /\ Goto(p, "read")
    /\ UNCHANGED <<work, holder, tries, faults>>

\* reconcileSchedule reads the row ...
ReadStored(p) ==
    /\ pass[p].pc = "read"
    /\ \/ row[pass[p].at].schedule = Schedule(p) /\ Goto(p, "look")
       \/ /\ row[pass[p].at].schedule # Schedule(p)
          /\ pass' = [pass EXCEPT ![p].pc = "rewrite", ![p].prior = row[pass[p].at]]
    /\ UNCHANGED <<row, work, holder, tries, faults>>

\* ... and writes it back under its own schedule, over whatever was written
\* in between: a count that gets lost is counted.
Rewrite(p) ==
    LET t == pass[p].at  new == Reconciled(p, pass[p].prior) IN
    /\ pass[p].pc = "rewrite"
    /\ Write(p, t, new)
    /\ faults' = IF new # Advanced(p) /\ new.retry < row[t].retry THEN faults + 1 ELSE faults
    /\ pass' = [pass EXCEPT ![p].pc = "look", ![p].prior = NoRow]
    /\ UNCHANGED <<work, holder>>

\* The row is read again: is the task due by the clock of the pass?
Look(p) ==
    LET t == pass[p].at IN
    /\ pass[p].pc = "look"
    /\ pass' = [pass EXCEPT ![p].pc = IF t = NTasks THEN "gate" ELSE "seed",
                            ![p].at = IF t = NTasks THEN 0 ELSE t + 1,
                            ![p].late = IF t = NTasks THEN {} ELSE @,
                            ![p].due = IF row[t].due = "due" /\ t \notin pass[p].late THEN @ \cup {t} ELSE @]
    /\ UNCHANGED <<row, work, holder, tries, faults>>

\* The gate before the lease.  A scheduled pass advances what has no work, a
\* manual one leaves it out.
PreGate(p) ==
    LET t == Min(pass[p].due) IN
    /\ pass[p].pc = "gate" /\ pass[p].due # {}
    /\ \/ work[t] /\ pass' = [pass EXCEPT ![p].due = @ \ {t}, ![p].todo = @ \cup {t}]
       \/ ~work[t] /\ pass[p].manual /\ pass' = [pass EXCEPT ![p].due = @ \ {t}]
       \/ /\ ~work[t] /\ ~pass[p].manual
          /\ pass' = [pass EXCEPT ![p].pc = "closed", ![p].at = t, ![p].due = @ \ {t}]
    /\ UNCHANGED <<row, work, holder, tries, faults>>

EndPlan(p) ==
    /\ pass[p].pc = "gate" /\ pass[p].due = {}
    /\ \/ pass[p].todo = {} /\ Set(p, IdlePass)
       \/ pass[p].todo # {} /\ Goto(p, "acquire")
    /\ UNCHANGED <<row, work, holder, tries, faults>>

\* /ctx-dream <task>: whatever its schedule and its gate.
StartForced(p, t) ==
    /\ pass[p].pc = "idle"
    /\ row' = [row EXCEPT ![t] = Seeded(p, @)]
    /\ Set(p, [IdlePass EXCEPT !.pc = "acquire", !.todo = {t}, !.forced = TRUE, !.manual = TRUE])
    /\ UNCHANGED <<work, holder, tries, faults>>

\* /ctx-dream: every enabled task whose gate passes.  The rows are seeded one
\* after the other, each by an insert that does nothing when there is a row.
StartManual(p) ==
    /\ pass[p].pc = "idle" /\ p \notin Disabling
    /\ row' = [t \in Tasks |-> Seeded(p, row[t])]
    /\ Set(p, [IdlePass EXCEPT !.pc = "gate", !.due = Tasks, !.manual = TRUE])
    /\ UNCHANGED <<work, holder, tries, faults>>

----------------------------------------------------------------------------
(* runDomainGroup *)

Acquire(p) ==
    /\ pass[p].pc = "acquire" /\ holder = Nobody
    /\ holder' = p
    /\ Goto(p, "next")
    /\ UNCHANGED <<row, work, tries, faults>>

\* Variant: a task that is refused the lease has had its turn.
BusyAdvances(p) ==
    /\ pass[p].pc = "acquire" /\ holder # Nobody
    /\ row' = [t \in Tasks |-> IF t \in pass[p].todo THEN Advanced(p) ELSE row[t]]
    /\ Set(p, IdlePass)
    /\ UNCHANGED <<work, holder, tries, faults>>

\* The lease is taken, for a manual pass at its deadline too: the rows stay.
LeaseBusy(p) ==
    /\ pass[p].pc = "acquire" /\ holder # Nobody
    /\ Set(p, IdlePass)
    /\ UNCHANGED <<row, work, holder, tries, faults>>

Current(p) == Min(pass[p].todo)

HasNext(p) == pass[p].pc = "next" /\ pass[p].todo # {} /\ holder = p

\* The gate, once more under the lease: others may have done the work.
SkipTask(p) ==
    /\ HasNext(p) /\ ~pass[p].forced /\ ~work[Current(p)]
    /\ pass' = [pass EXCEPT ![p].pc = "skipped", ![p].at = Current(p), ![p].todo = @ \ {Current(p)}]
    /\ UNCHANGED <<row, work, holder, tries, faults>>

\* A closed gate, before the lease or under it: advanceAfterRun "skipped".
RecordSkip(p) ==
    /\ pass[p].pc \in {"closed", "skipped"}
    /\ Write(p, pass[p].at, Advanced(p))
    /\ Goto(p, IF pass[p].pc = "closed" THEN "gate" ELSE "next")
    /\ UNCHANGED <<work, holder, faults>>

BeginTask(p) ==
    /\ HasNext(p) /\ (pass[p].forced \/ work[Current(p)])
    /\ pass' = [pass EXCEPT ![p].pc = "exec", ![p].at = Current(p), ![p].todo = @ \ {Current(p)}]
    /\ tries' = [tries EXCEPT ![Current(p)] = @ + 1]
    /\ UNCHANGED <<row, work, holder, faults>>

\* Variant: the lease is left to run out.
EndWithoutRelease(p) ==
    /\ pass[p].pc = "next" /\ (pass[p].todo = {} \/ holder # p)
    /\ Set(p, IdlePass)
    /\ UNCHANGED <<row, work, holder, tries, faults>>

\* Nothing left to do, or the lease is gone: the finally releases it.
EndGroup(p) ==
    /\ pass[p].pc = "next" /\ (pass[p].todo = {} \/ holder # p)
    /\ Set(p, IdlePass)
    /\ holder' = IF holder = p THEN Nobody ELSE holder
    /\ UNCHANGED <<row, work, tries, faults>>

\* The executor's guarded writes consume the work.
Complete(p) ==
    /\ pass[p].pc = "exec" /\ holder = p
    /\ work' = [work EXCEPT ![pass[p].at] = FALSE]
    /\ Goto(p, "completed")
    /\ UNCHANGED <<row, holder, tries, faults>>

\* A transient failure, an exception or a lost lease; or a permanent failure.
Fail(p) ==
    /\ pass[p].pc = "exec"
    /\ \E kind \in {"transient", "failed"} : Goto(p, kind)
    /\ UNCHANGED <<row, work, holder, tries, faults>>

RecordAdvance(p) ==
    /\ pass[p].pc \in {"completed", "failed"}
    /\ Write(p, pass[p].at, Advanced(p))
    /\ Goto(p, "next")
    /\ UNCHANGED <<work, holder, faults>>

\* recordTransientFailure reads the row ...
ReadPrior(p) ==
    /\ pass[p].pc = "transient"
    /\ pass' = [pass EXCEPT ![p].pc = "record", ![p].prior = row[pass[p].at]]
    /\ UNCHANGED <<row, work, holder, tries, faults>>

\* ... and writes it.
RecordTransient(p) ==
    /\ pass[p].pc = "record"
    /\ Write(p, pass[p].at, AfterTransient(p, pass[p].prior))
    /\ pass' = [pass EXCEPT ![p].pc = "next", ![p].prior = NoRow]
    /\ UNCHANGED <<work, holder, faults>>

----------------------------------------------------------------------------

PlanStep(p) == Seed(p) \/ ReadStored(p) \/ Rewrite(p) \/ Look(p) \/ PreGate(p) \/ EndPlan(p)

Step(p) == \/ PlanStep(p) \/ Acquire(p) \/ LeaseBusy(p) \/ SkipTask(p) \/ RecordSkip(p) \/ BeginTask(p)
           \/ EndGroup(p) \/ Complete(p) \/ Fail(p) \/ RecordAdvance(p)
           \/ ReadPrior(p) \/ RecordTransient(p)

Next ==
    \/ LeaseLapses
    \/ \E t \in Tasks : SlotComes(t) \/ WorkArrives(t)
    \/ \E p \in Passes : \/ Step(p) \/ StartScheduled(p) \/ StartManual(p) \/ Crash(p)
                         \/ \E t \in Tasks : StartForced(p, t)

Spec == Init /\ [][Next]_vars

\* The timer ticks in every process, a pass goes on while its process lives
\* (the executor has a deadline), and an orphaned lease runs out.
Fairness ==
    /\ WF_vars(holder = Orphan /\ LeaseLapses)
    /\ \A p \in Passes : SF_vars(StartScheduled(p)) /\ WF_vars(Step(p))

FairSpec == Spec /\ Fairness

----------------------------------------------------------------------------
(* Properties *)

\* "Transient failures hot-retry at most MAX_TASK_RETRIES times, then wait for
\* the next cron occurrence": whoever runs the task, on a timer or by hand, a
\* slot sees one execution and its retries, and at most as many again for each
\* pass that crashed or lost its lease on the way to the row (a pass without
\* the lease may write an old count over a newer one), and for each
\* reconciliation that wrote an old row back over a newer count.
RetriesBounded == \A t \in Tasks : tries[t] <= (1 + MaxRetries) * (1 + faults)

\* A due task is run or found to have nothing to do before its slot is given
\* up: a busy lease, a crash or a failure that may pass keeps it due, and so
\* does a change of schedule that has seen it due.
SlotNotWasted ==
    [][\A t \in Tasks : row[t].due = "due" /\ row'[t].due = "future" =>
           \E p \in Passes :
               /\ pass[p].at = t
               /\ \/ pass[p].pc \in {"completed", "failed", "record", "closed", "skipped"}
                  \/ pass[p].pc = "rewrite" /\ pass[p].prior.due # "due"]_vars

\* No slot is due for ever: every due task is executed or skipped in the end,
\* though passes crash, are refused the lease and fail again and again.
DueIsServed == \A t \in Tasks : row[t].due = "due" ~> row[t].due # "due"

\* "An empty schedule disables the task, so it is never due": a scheduled pass
\* whose configuration disables the task never gets as far as the lease.
DisabledNeverFires ==
    \A p \in Disabling : pass[p].manual \/ pass[p].pc \in Planning \cup {"idle", "gate"}

=============================================================================
