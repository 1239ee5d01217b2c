----------------------------- MODULE DreamLeaseProofs -----------------------------
(***************************************************************************)
(* The dreamer's lease for any number of runs, any validity, any number of *)
(* clock steps and tasks, and any choice of which runs pass their          *)
(* generation: its types, that it implements FencedWriter, and what is     *)
(* left to the tasks that do not fence their writes.                       *)
(***************************************************************************)
EXTENDS DreamLease, TLAPS

\* A holder row implies a generation row: acquireLeaseWithAcquisition writes
\* both, and nothing takes the generation away.
HolderHasGeneration == generation \in Nat /\ (holder # Nobody => generation > 0)

\* The steps that touch neither the holder nor what FencedWriter sees.
Aside == UNCHANGED <<holder, generation, written>>

\* Time, crashes and the steps of a task and of its heartbeat that do not take
\* or release the lease leave holder, generation and the last write alone.
LEMMA MostStepsAreAside ==
    ASSUME NEW r \in Runs,
           Tick \/ ClockStepsBack \/ Crash(r) \/ StartTask(r) \/ EnterTask(r) \/ TaskEnds(r)
           \/ Renew(r) \/ Compare(r) \/ BeatFails(r)
    PROVE  Aside
  BY DEF Aside, lease, Tick, ClockStepsBack, Crash, StartTask, EnterTask, TaskEnds, Renew,
         Compare, BeatFails

\* The lease is taken under the generation it had, by its old holder, or under
\* the next one.
LEMMA TakeGrants ==
    ASSUME NEW r \in Runs, HolderHasGeneration, Take(r)
    PROVE  HolderHasGeneration' /\ (generation' = generation \/ generation' = generation + 1)
  BY RunsAssumption DEF HolderHasGeneration, Take, GenerationFor

\* A step either takes the lease, or lets a holder write, or releases it, or
\* none of these.
LEMMA StepKinds ==
    ASSUME [Next]_vars
    PROVE  \/ Aside
           \/ \E r \in Runs : Take(r) /\ UNCHANGED written
           \/ \E r \in Runs : GuardedWrite(r)
           \/ \E r \in Runs : Release(r)
  <1>1. CASE UNCHANGED vars
    BY <1>1 DEF vars, lease, Aside
  <1>2. CASE Tick \/ ClockStepsBack
    BY <1>2 DEF Tick, ClockStepsBack, Aside
  <1>3. ASSUME NEW r \in Runs, Acquire(r) \/ Beat(r) \/ Work(r) \/ Crash(r)
        PROVE  Aside \/ (Take(r) /\ UNCHANGED written) \/ GuardedWrite(r) \/ Release(r)
    <2>1. CASE Acquire(r)
      BY <2>1 DEF Acquire
    <2>2. CASE Reclaim(r)
      BY <2>2 DEF Reclaim, lease, Aside
    <2>3. CASE GuardedWrite(r) \/ Release(r)
      BY <2>3
    <2>4. CASE Crash(r) \/ StartTask(r) \/ EnterTask(r) \/ TaskEnds(r) \/ Renew(r) \/ Compare(r)
               \/ BeatFails(r)
      BY <2>4, MostStepsAreAside
    <2>5. QED
      BY <1>3, <2>1, <2>2, <2>3, <2>4 DEF Beat, Work
  <1>4. QED
    BY <1>1, <1>2, <1>3 DEF Next

\* Acquisitions, reclaims, releases and everything between them keep a holder
\* row with a generation.
LEMMA StepKeepsGeneration ==
    ASSUME HolderHasGeneration, [Next]_vars
    PROVE  HolderHasGeneration'
  <1>1. CASE Aside
    BY <1>1 DEF Aside, HolderHasGeneration
  <1>2. ASSUME NEW r \in Runs, Take(r) PROVE HolderHasGeneration'
    BY <1>2, TakeGrants
  <1>3. ASSUME NEW r \in Runs, GuardedWrite(r) PROVE HolderHasGeneration'
    BY <1>3 DEF GuardedWrite, lease, HolderHasGeneration
  <1>4. ASSUME NEW r \in Runs, Release(r) PROVE HolderHasGeneration'
    BY <1>4 DEF Release, HolderHasGeneration
  <1>5. QED
    BY <1>1, <1>2, <1>3, <1>4, StepKinds

\* A fenced write passes the check of runLeaseGuardedWrite under the newest
\* generation only, and there is one by then.
LEMMA FencedWriteIsNewest ==
    ASSUME HolderHasGeneration, NEW r \in Runs, GuardedWrite(r)
    PROVE  Writer!Write \/ UNCHANGED <<generation, written>>
  <1>1. holder = r /\ generation > 0
    BY RunsAssumption DEF GuardedWrite, MayWrite, peekLeaseHolderAndExpiry, HolderHasGeneration
  <1>2. CASE r \in Fenced
    BY <1>1, <1>2 DEF GuardedWrite, MayWrite, lease, Writer!Write
  <1>3. CASE r \notin Fenced
    BY <1>3 DEF GuardedWrite, lease
  <1>4. QED
    BY <1>2, <1>3

\* The lease implements FencedWriter: grants are numbered one after the other,
\* and of the runs that pass their generation to runLeaseGuardedWrite only the
\* newest writes, however runs stall, crash, lapse, reclaim and see the clock
\* step back (acquireLeaseWithAcquisition, renewLease, runLeaseGuardedWrite).
THEOREM LeaseIsFencedWriter == Spec => OnlyNewestWrites
  <1>1. Init => HolderHasGeneration /\ Writer!Init
    BY DEF Init, HolderHasGeneration, Writer!Init
  <1>2. HolderHasGeneration /\ [Next]_vars => HolderHasGeneration'
    BY StepKeepsGeneration
  <1>3. HolderHasGeneration /\ [Next]_vars
        => [Writer!Grant \/ Writer!Write]_<<generation, written>>
    <2> SUFFICES ASSUME HolderHasGeneration, [Next]_vars
                 PROVE  [Writer!Grant \/ Writer!Write]_<<generation, written>>
      OBVIOUS
    <2>1. CASE Aside
      BY <2>1 DEF Aside
    <2>2. ASSUME NEW r \in Runs, Take(r), UNCHANGED written
          PROVE  Writer!Grant \/ UNCHANGED <<generation, written>>
      BY <2>2, TakeGrants DEF Writer!Grant
    <2>3. ASSUME NEW r \in Runs, GuardedWrite(r)
          PROVE  Writer!Write \/ UNCHANGED <<generation, written>>
      BY <2>3, FencedWriteIsNewest
    <2>4. ASSUME NEW r \in Runs, Release(r) PROVE UNCHANGED <<generation, written>>
      BY <2>4 DEF Release
    <2>5. QED
      BY <2>1, <2>2, <2>3, <2>4, StepKinds
  <1>4. QED
    BY <1>1, <1>2, <1>3, PTL DEF Spec, OnlyNewestWrites, Writer!Spec

----------------------------------------------------------------------------
(* Types *)

\* A run as TypeOK describes it.
RunRecord == [pc : Steps, tasks : 0..GroupSize, gen : Nat, lost : BOOLEAN,
              age : (-MaxBack)..(TTL + 1), gap : (-MaxBack)..(TTL + 1)]

\* TypeOK is not inductive: how far the lease may reach into the future, and a
\* run's acquisition with it, depends on the steps the clock has taken back.
ClockBounds ==
    /\ TypeOK
    /\ left <= TTL + back
    /\ \A r \in Runs : run[r].age >= -back /\ run[r].gap >= -back

\* What a run may be set to: any record in the bounds of the clock.
InBounds(rec, b) == rec \in RunRecord /\ rec.age >= -b /\ rec.gap >= -b

\* A run of its own that changes keeps the others in their bounds.
LEMMA OneRunMoves ==
    ASSUME ClockBounds, NEW r \in Runs, NEW rec, InBounds(rec, back),
           run' = [run EXCEPT ![r] = rec], UNCHANGED back
    PROVE  /\ run' \in [Runs -> RunRecord]
           /\ \A s \in Runs : run'[s].age >= -back' /\ run'[s].gap >= -back'
  BY DEF ClockBounds, TypeOK, InBounds, RunRecord

\* Places, losses and confirmations are in bounds, and so is a run that ends.
LEMMA RunUpdates ==
    ASSUME ClockBounds, NEW r \in Runs
    PROVE  /\ \A s \in Steps : InBounds([run[r] EXCEPT !.pc = s], back)
           /\ InBounds([run[r] EXCEPT !.pc = "task", !.lost = TRUE], back)
           /\ InBounds([run[r] EXCEPT !.pc = "task", !.gap = 0], back)
           /\ InBounds([NewRun EXCEPT !.pc = "over", !.gen = run[r].gen], back)
  <1>1. run[r] \in RunRecord /\ back \in 0..MaxBack /\ run[r].age >= -back /\ run[r].gap >= -back
    BY DEF ClockBounds, TypeOK, RunRecord
  <1>2. TTL \in Nat /\ MaxBack \in Nat /\ GroupSize \in Nat
    BY BoundsAssumption
  <1>3. NewRun \in RunRecord /\ NewRun.age = 0 /\ NewRun.gap = 0
    BY <1>2 DEF NewRun, RunRecord, Steps
  <1>4. \A s \in Steps : InBounds([run[r] EXCEPT !.pc = s], back)
    BY <1>1 DEF InBounds, RunRecord
  <1>s. "task" \in Steps /\ "over" \in Steps /\ 0 \in (-MaxBack)..(TTL + 1) /\ 0 >= -back
    BY <1>1, <1>2 DEF Steps
  <1>5. InBounds([run[r] EXCEPT !.pc = "task", !.lost = TRUE], back)
    BY <1>1, <1>s DEF InBounds, RunRecord
  <1>6. InBounds([run[r] EXCEPT !.pc = "task", !.gap = 0], back)
    BY <1>1, <1>s DEF InBounds, RunRecord
  <1>7. InBounds([NewRun EXCEPT !.pc = "over", !.gen = run[r].gen], back)
    BY <1>1, <1>3, <1>s DEF InBounds, RunRecord
  <1> QED
    BY <1>4, <1>5, <1>6, <1>7

\* The lease, the clock and the written generation, apart from the runs.
LeaseBounds ==
    /\ holder \in Runs \cup {Nobody} /\ generation \in Nat /\ written \in Nat
    /\ left \in -1..(TTL + MaxBack) /\ left <= TTL + back /\ back \in 0..MaxBack

\* The bounds are those of the lease and those of the runs.
LEMMA BoundsParts ==
    ASSUME LeaseBounds', run' \in [Runs -> RunRecord],
           \A r \in Runs : run'[r].age >= -back' /\ run'[r].gap >= -back'
    PROVE  ClockBounds'
  BY DEF LeaseBounds, ClockBounds, TypeOK, RunRecord

\* Taking the lease, releasing it and leaving it alone keeps its bounds.
LEMMA LeaseKeepsBounds ==
    ASSUME ClockBounds, UNCHANGED back, written' \in Nat,
           \/ UNCHANGED lease
           \/ \E r \in Runs : Take(r)
           \/ holder' = Nobody /\ left' = -1 /\ UNCHANGED generation
           \/ left' = TTL /\ UNCHANGED <<holder, generation>>
    PROVE  LeaseBounds'
  <1>1. TTL \in Nat /\ MaxBack \in Nat
    BY BoundsAssumption
  <1> QED
    BY <1>1 DEF ClockBounds, TypeOK, LeaseBounds, lease, Take, GenerationFor

\* Time moves the lease and the runs towards their limits.
LEMMA TickKeepsBounds ==
    ASSUME ClockBounds, Tick
    PROVE  ClockBounds'
  <1>1. TTL \in Nat /\ MaxBack \in Nat /\ back \in 0..MaxBack
    BY BoundsAssumption DEF ClockBounds, TypeOK
  <1>2. LeaseBounds'
    <2>1. left \in -1..(TTL + MaxBack) /\ left <= TTL + back /\ left' = IF left = -1 THEN -1 ELSE left - 1
      BY DEF ClockBounds, TypeOK, Tick
    <2>2. left' \in -1..(TTL + MaxBack) /\ left' <= TTL + back
      BY <1>1, <2>1
    <2> QED
      BY <2>2 DEF ClockBounds, TypeOK, LeaseBounds, Tick
  <1>3. ASSUME NEW r \in Runs PROVE InBounds(run'[r], back')
    <2>1. run[r] \in RunRecord /\ run[r].age >= -back /\ run[r].gap >= -back /\ back' = back
      BY DEF ClockBounds, TypeOK, RunRecord, Tick
    <2>2. \A d \in (-MaxBack)..(TTL + 1) : Later(d) \in (-MaxBack)..(TTL + 1) /\ Later(d) >= d
      BY <1>1 DEF Later
    <2>3. run'[r] \in {run[r], [run[r] EXCEPT !.age = Later(@), !.gap = Later(@)]}
      BY DEF Tick
    <2>4. run[r].age \in (-MaxBack)..(TTL + 1) /\ run[r].gap \in (-MaxBack)..(TTL + 1)
      BY <2>1 DEF RunRecord
    <2>5. Later(run[r].age) >= -back /\ Later(run[r].gap) >= -back
      BY <1>1, <2>1, <2>2, <2>4
    <2> QED
      BY <2>1, <2>2, <2>3, <2>4, <2>5 DEF InBounds, RunRecord
  <1>4. run' \in [Runs -> RunRecord]
    BY <1>3 DEF Tick, InBounds
  <1> QED
    BY <1>2, <1>3, <1>4, BoundsParts DEF InBounds

\* A step back moves both the other way, by as much as back grows.
LEMMA StepBackKeepsBounds ==
    ASSUME ClockBounds, ClockStepsBack
    PROVE  ClockBounds'
  <1>1. TTL \in Nat /\ MaxBack \in Nat /\ back \in 0..MaxBack /\ back < MaxBack /\ back' = back + 1
    BY BoundsAssumption DEF ClockBounds, TypeOK, ClockStepsBack
  <1>2. LeaseBounds'
    <2>1. /\ left \in -1..(TTL + MaxBack) /\ left <= TTL + back
          /\ left' \in IF left = -1 THEN {-1, 0} ELSE {left + 1}
      BY DEF ClockBounds, TypeOK, ClockStepsBack
    <2>2. left' \in -1..(TTL + MaxBack) /\ left' <= TTL + back'
      BY <1>1, <2>1
    <2>3. back' \in 0..MaxBack
      BY <1>1
    <2>4. holder' = holder /\ generation' = generation /\ written' = written
      BY DEF ClockStepsBack
    <2> QED
      BY <2>2, <2>3, <2>4 DEF ClockBounds, TypeOK, LeaseBounds
  <1>3. PICK out \in BOOLEAN : run' =
          [r \in Runs |-> IF Live(r) THEN [run[r] EXCEPT !.age = Sooner(@, out), !.gap = Sooner(@, out)]
                                     ELSE run[r]]
    BY DEF ClockStepsBack
  <1>4. ASSUME NEW r \in Runs PROVE InBounds(run'[r], back')
    <2>1. run[r] \in RunRecord /\ run[r].age >= -back /\ run[r].gap >= -back
      BY DEF ClockBounds, TypeOK, RunRecord
    <2>2. \A d \in (-back)..(TTL + 1) : Sooner(d, out) \in (-back')..(TTL + 1)
      BY <1>1 DEF Sooner
    <2>3. run'[r] \in {run[r], [run[r] EXCEPT !.age = Sooner(@, out), !.gap = Sooner(@, out)]}
      BY <1>3
    <2>4. run[r].age \in (-back)..(TTL + 1) /\ run[r].gap \in (-back)..(TTL + 1)
      BY <1>1, <2>1 DEF RunRecord
    <2>5. /\ Sooner(run[r].age, out) \in (-MaxBack)..(TTL + 1) /\ Sooner(run[r].age, out) >= -back'
          /\ Sooner(run[r].gap, out) \in (-MaxBack)..(TTL + 1) /\ Sooner(run[r].gap, out) >= -back'
      BY <1>1, <2>2, <2>4
    <2>6. run[r].age >= -back' /\ run[r].gap >= -back'
      BY <1>1, <2>4
    <2> QED
      BY <2>1, <2>3, <2>5, <2>6 DEF InBounds, RunRecord
  <1>5. run' \in [Runs -> RunRecord]
    BY <1>3, <1>4 DEF InBounds
  <1> QED
    BY <1>2, <1>4, <1>5, BoundsParts DEF InBounds

\* Whatever a run sets itself to is in bounds.
LEMMA RunKeepsBounds ==
    ASSUME ClockBounds, NEW r \in Runs, LeaseBounds', UNCHANGED back,
           \/ UNCHANGED run
           \/ \E s \in Steps : Goto(r, s)
           \/ DeclareLost(r) \/ Confirmed(r) \/ End(r)
    PROVE  ClockBounds'
  <1>1. CASE UNCHANGED run
    BY <1>1, BoundsParts DEF ClockBounds, TypeOK, RunRecord
  <1>2. CASE \E s \in Steps : Goto(r, s)
    <2>1. PICK s \in Steps : run' = [run EXCEPT ![r] = [run[r] EXCEPT !.pc = s]]
      BY <1>2 DEF Goto
    <2> QED
      BY <2>1, RunUpdates, OneRunMoves, BoundsParts
  <1>3. CASE DeclareLost(r)
    <2>1. run' = [run EXCEPT ![r] = [run[r] EXCEPT !.pc = "task", !.lost = TRUE]]
      BY <1>3 DEF DeclareLost, ClockBounds, TypeOK
    <2> QED
      BY <2>1, RunUpdates, OneRunMoves, BoundsParts
  <1>4. CASE Confirmed(r)
    <2>1. run' = [run EXCEPT ![r] = [run[r] EXCEPT !.pc = "task", !.gap = 0]]
      BY <1>4 DEF Confirmed, ClockBounds, TypeOK
    <2> QED
      BY <2>1, RunUpdates, OneRunMoves, BoundsParts
  <1>5. CASE End(r)
    BY <1>5, RunUpdates, OneRunMoves, BoundsParts DEF End
  <1> QED
    BY <1>1, <1>2, <1>3, <1>4, <1>5

\* The steps that set several fields of a run at once.
LEMMA SettingKeepsBounds ==
    ASSUME ClockBounds, NEW r \in Runs, Acquire(r) \/ StartTask(r) \/ EnterTask(r)
    PROVE  ClockBounds'
  <1>0. /\ run \in [Runs -> RunRecord] /\ run[r] \in RunRecord /\ run[r].age >= -back /\ run[r].gap >= -back
        /\ back \in 0..MaxBack /\ generation \in Nat /\ written \in Nat
        /\ TTL \in Nat /\ MaxBack \in Nat /\ GroupSize \in Nat
    BY BoundsAssumption DEF ClockBounds, TypeOK, RunRecord
  <1>s. {"held", "setup", "renew"} \subseteq Steps /\ 0 \in (-MaxBack)..(TTL + 1) /\ 0 >= -back
    BY <1>0 DEF Steps
  <1>1. CASE Acquire(r)
    <2> DEFINE rec == [run[r] EXCEPT !.pc = "held", !.gen = GenerationFor(r), !.age = 0, !.gap = 0]
    <2>1. LeaseBounds' /\ UNCHANGED back
      BY <1>0, <1>1, LeaseKeepsBounds DEF Acquire
    <2>2. GenerationFor(r) \in Nat
      BY <1>0 DEF GenerationFor
    <2>3. InBounds(rec, back)
      BY <1>0, <1>s, <2>2 DEF InBounds, RunRecord
    <2>4. run' = [run EXCEPT ![r] = rec]
      BY <1>0, <1>1 DEF Acquire
    <2> QED
      BY <2>1, <2>3, <2>4, OneRunMoves, BoundsParts
  <1>2. CASE StartTask(r)
    <2> DEFINE rec == [run[r] EXCEPT !.pc = "setup", !.tasks = @ - 1]
    <2>1. LeaseBounds' /\ UNCHANGED back
      BY <1>0, <1>2, LeaseKeepsBounds DEF StartTask
    <2>2. run[r].tasks - 1 \in 0..GroupSize
      BY <1>0, <1>2 DEF StartTask, RunRecord
    <2>3. InBounds(rec, back)
      BY <1>0, <1>s, <2>2 DEF InBounds, RunRecord
    <2>4. run' = [run EXCEPT ![r] = rec]
      BY <1>0, <1>2 DEF StartTask
    <2> QED
      BY <2>1, <2>3, <2>4, OneRunMoves, BoundsParts
  <1>3. CASE EnterTask(r)
    <2> DEFINE rec(s) == [run[r] EXCEPT !.pc = s, !.gap = run[r].age, !.lost = FALSE]
    <2>1. LeaseBounds' /\ UNCHANGED back
      BY <1>0, <1>3, LeaseKeepsBounds DEF EnterTask
    <2>2. \A s \in {"renew", "held"} : InBounds(rec(s), back)
      BY <1>0, <1>s DEF InBounds, RunRecord
    <2>3. \E s \in {"renew", "held"} : run' = [run EXCEPT ![r] = rec(s)]
      BY <1>0, <1>3 DEF EnterTask
    <2> QED
      BY <2>1, <2>2, <2>3, OneRunMoves, BoundsParts
  <1> QED
    BY <1>1, <1>2, <1>3

\* Every step keeps the bounds.
LEMMA StepKeepsBounds ==
    ASSUME ClockBounds, [Next]_vars
    PROVE  ClockBounds'
  <1>s. {"task", "held", "compare", "reclaim"} \subseteq Steps
    BY DEF Steps
  <1>w. written \in Nat
    BY DEF ClockBounds, TypeOK
  <1>1. CASE UNCHANGED vars
    BY <1>1 DEF vars, lease, ClockBounds, TypeOK
  <1>2. CASE Tick \/ ClockStepsBack
    BY <1>2, TickKeepsBounds, StepBackKeepsBounds
  <1>3. ASSUME NEW r \in Runs, Acquire(r) \/ Beat(r) \/ Work(r) \/ Crash(r)
        PROVE  ClockBounds'
    <2>1. CASE Acquire(r) \/ StartTask(r) \/ EnterTask(r)
      BY <2>1, SettingKeepsBounds
    <2>2. CASE GuardedWrite(r)
      <3>1. written' \in Nat /\ UNCHANGED <<lease, run, back>>
        BY <1>w, <2>2 DEF GuardedWrite, ClockBounds, TypeOK
      <3> QED
        BY <3>1, LeaseKeepsBounds, RunKeepsBounds
    <2>3. CASE TaskEnds(r) \/ Crash(r) \/ Compare(r) \/ BeatFails(r)
      <3>1. UNCHANGED <<lease, written, back>>
        BY <2>3 DEF TaskEnds, Crash, Compare, BeatFails
      <3>2. (\E s \in Steps : Goto(r, s)) \/ DeclareLost(r) \/ End(r)
        BY <1>s, <2>3 DEF TaskEnds, Crash, Compare, BeatFails
      <3> QED
        BY <1>w, <3>1, <3>2, LeaseKeepsBounds, RunKeepsBounds
    <2>4. CASE Release(r)
      <3>1. End(r) /\ UNCHANGED <<generation, written, back>>
            /\ (UNCHANGED lease \/ (holder' = Nobody /\ left' = -1))
        BY <2>4 DEF Release, lease
      <3> QED
        BY <1>w, <3>1, LeaseKeepsBounds, RunKeepsBounds
    <2>5. CASE Renew(r)
      <3>1. /\ UNCHANGED <<holder, generation, written, back>>
            /\ (left' = TTL \/ UNCHANGED left) /\ (Confirmed(r) \/ \E s \in Steps : Goto(r, s))
        BY <1>s, <2>5 DEF Renew
      <3>2. LeaseBounds'
        BY <1>w, <3>1, LeaseKeepsBounds DEF lease
      <3> QED
        BY <3>1, <3>2, RunKeepsBounds
    <2>6. CASE Reclaim(r)
      <3>1. /\ UNCHANGED <<written, back>> /\ (Take(r) \/ UNCHANGED lease)
            /\ (Confirmed(r) \/ DeclareLost(r))
        BY <2>6 DEF Reclaim
      <3>2. LeaseBounds'
        BY <1>w, <3>1, LeaseKeepsBounds
      <3> QED
        BY <3>1, <3>2, RunKeepsBounds
    <2> QED
      BY <1>3, <2>1, <2>2, <2>3, <2>4, <2>5, <2>6 DEF Beat, Work
  <1> QED
    BY <1>1, <1>2, <1>3 DEF Next

\* The rows, the clock differences and the runs keep their types, however many
\* runs acquire, stall, crash and see the clock step back.
THEOREM LeaseTypeCorrect == Spec => []TypeOK
  <1>1. Init => ClockBounds
    <2> SUFFICES ASSUME Init PROVE ClockBounds
      OBVIOUS
    <2>1. TTL \in Nat /\ MaxBack \in Nat /\ GroupSize \in Nat
      BY BoundsAssumption
    <2>2. NewRun \in RunRecord /\ NewRun.age = 0 /\ NewRun.gap = 0
      BY <2>1 DEF NewRun, RunRecord, Steps
    <2> QED
      BY <2>1, <2>2 DEF Init, ClockBounds, TypeOK, RunRecord
  <1>2. ClockBounds /\ [Next]_vars => ClockBounds'
    BY StepKeepsBounds
  <1>3. ClockBounds => TypeOK
    BY DEF ClockBounds
  <1> QED
    BY <1>1, <1>2, <1>3, PTL DEF Spec

----------------------------------------------------------------------------
(* What the holder knows *)

\* The places from which a run still gets to write.
InTask == {"task", "renew", "compare", "reclaim"}

\* A run in a task whose id is in the holder row has the newest generation, or
\* its heartbeat has told it that the lease was lost.
TaskKnows ==
    \A r \in Runs : run[r].pc \in InTask /\ holder = r => run[r].gen = generation \/ run[r].lost

\* A generation is handed to one run, by the acquisition that made it: a run
\* that has not acquired has none and is not in the holder row.
OneRunPerGeneration ==
    /\ \A r \in Runs : run[r].gen <= generation /\ (run[r].pc = "idle" => run[r].gen = 0 /\ holder # r)
    /\ \A r, s \in Runs : run[r].gen = run[s].gen /\ run[r].gen # 0 => r = s

LeaseInv == TypeOK /\ TaskKnows /\ OneRunPerGeneration

\* Steps after which no run is nearer to a write than before, none has another
\* generation, and nobody comes to the lease.
Harmless ==
    /\ \A r \in Runs : /\ run'[r].gen = run[r].gen
                       /\ run'[r].pc = "idle" => run[r].pc = "idle"
                       /\ run'[r].pc \in InTask =>
                             run[r].pc \in InTask /\ (run[r].lost => run'[r].lost)
    /\ holder' \in {holder, Nobody} /\ UNCHANGED generation

\* Such a step keeps what the holder knows.
LEMMA HarmlessStep ==
    ASSUME LeaseInv, TypeOK', Harmless
    PROVE  LeaseInv'
  <1>1. TaskKnows'
    BY RunsAssumption DEF LeaseInv, Harmless, TaskKnows
  <1>2. OneRunPerGeneration'
    BY RunsAssumption DEF LeaseInv, Harmless, OneRunPerGeneration
  <1> QED
    BY <1>1, <1>2 DEF LeaseInv

\* The clock, crashes, releases, and most steps of a task and a beat.
LEMMA MostStepsAreHarmless ==
    ASSUME LeaseInv, NEW r \in Runs,
           \/ Tick \/ ClockStepsBack \/ Crash(r) \/ StartTask(r) \/ GuardedWrite(r) \/ TaskEnds(r)
           \/ Release(r) \/ Renew(r) \/ Compare(r) \/ BeatFails(r)
    PROVE  Harmless
  <1>0. run \in [Runs -> RunRecord]
    BY DEF LeaseInv, TypeOK, RunRecord
  <1> USE DEF Harmless, InTask
  <1>1. CASE Tick
    BY <1>0, <1>1 DEF Tick, RunRecord
  <1>2. CASE ClockStepsBack
    <2>1. PICK out \in BOOLEAN : run' =
            [s \in Runs |-> IF Live(s) THEN [run[s] EXCEPT !.age = Sooner(@, out), !.gap = Sooner(@, out)]
                                       ELSE run[s]]
      BY <1>2 DEF ClockStepsBack
    <2> QED
      BY <1>0, <1>2, <2>1 DEF ClockStepsBack, RunRecord
  <1>3. CASE Crash(r) \/ Release(r)
    <2>1. run' = [run EXCEPT ![r] = [NewRun EXCEPT !.pc = "over", !.gen = run[r].gen]]
      BY <1>3 DEF Crash, Release, End
    <2>2. run'[r].pc = "over" /\ run'[r].gen = run[r].gen /\ \A s \in Runs : s # r => run'[s] = run[s]
      BY <1>0, <2>1 DEF NewRun, RunRecord
    <2>3. holder' \in {holder, Nobody} /\ UNCHANGED generation
      BY <1>3 DEF Crash, Release, lease
    <2> QED
      BY <2>2, <2>3
  <1>4. CASE StartTask(r) \/ TaskEnds(r) \/ GuardedWrite(r)
    BY <1>0, <1>4 DEF StartTask, TaskEnds, GuardedWrite, Goto, lease, RunRecord
  <1>5. CASE Renew(r)
    BY <1>0, <1>5 DEF Renew, Beating, Confirmed, Goto, RunRecord
  <1>6. CASE Compare(r)
    BY <1>0, <1>6 DEF Compare, DeclareLost, Goto, lease, RunRecord
  <1>7. CASE BeatFails(r)
    BY <1>0, <1>7 DEF BeatFails, Beating, DeclareLost, Goto, lease, RunRecord
  <1> QED
    BY <1>1, <1>2, <1>3, <1>4, <1>5, <1>6, <1>7

\* An acquisition makes the generation it hands out, and a task is entered and
\* a lapsed lease kept under an unchanged generation only.
LEMMA OtherStepsKeepInv ==
    ASSUME LeaseInv, TypeOK', NEW r \in Runs, Acquire(r) \/ EnterTask(r) \/ Reclaim(r)
    PROVE  LeaseInv'
  <1>0. /\ run \in [Runs -> RunRecord] /\ run[r] \in RunRecord /\ generation \in Nat
        /\ \A s \in Runs : run[s].gen \in Nat
    BY DEF LeaseInv, TypeOK, RunRecord
  <1>a. \A s \in Runs : run[s].gen <= generation
    BY DEF LeaseInv, OneRunPerGeneration
  <1>1. CASE Acquire(r)
    <2>1. /\ holder' = r /\ generation' = generation + 1 /\ run[r].pc = "idle"
      BY <1>1 DEF LeaseInv, OneRunPerGeneration, Acquire, Take, GenerationFor
    <2>2. /\ run'[r].pc = "held" /\ run'[r].gen = generation + 1
          /\ \A s \in Runs : s # r => run'[s] = run[s]
      BY <1>0, <1>1, <2>1 DEF Acquire, GenerationFor, LeaseInv, OneRunPerGeneration, RunRecord
    <2>3. TaskKnows'
      BY <2>1, <2>2 DEF TaskKnows, InTask
    <2>4. \A s \in Runs : /\ run'[s].gen <= generation'
                          /\ run'[s].pc = "idle" => run'[s].gen = 0 /\ holder' # s
      BY <1>0, <1>a, <2>1, <2>2 DEF LeaseInv, OneRunPerGeneration
    <2>5. \A s, t \in Runs : run'[s].gen = run'[t].gen /\ run'[s].gen # 0 => s = t
      BY <1>0, <1>a, <2>1, <2>2 DEF LeaseInv, OneRunPerGeneration
    <2> QED
      BY <2>3, <2>4, <2>5 DEF LeaseInv, OneRunPerGeneration
  <1>2. CASE EnterTask(r)
    <2>1. /\ run'[r].gen = run[r].gen /\ run[r].pc = "setup"
          /\ run'[r].pc = IF OwnershipMatches(r) THEN "renew" ELSE "held"
          /\ \A s \in Runs : s # r => run'[s] = run[s]
          /\ UNCHANGED <<holder, generation>>
      BY <1>0, <1>2 DEF EnterTask, lease, RunRecord
    <2>2. TaskKnows'
      BY <2>1 DEF LeaseInv, TaskKnows, InTask, OwnershipMatches
    <2>3. OneRunPerGeneration'
      BY <2>1 DEF LeaseInv, OneRunPerGeneration
    <2> QED
      BY <2>2, <2>3 DEF LeaseInv
  <1>3. CASE Reclaim(r)
    <2>1. /\ run'[r].gen = run[r].gen /\ run[r].pc = "reclaim" /\ run'[r].pc = "task"
          /\ \A s \in Runs : s # r => run'[s] = run[s]
      BY <1>0, <1>3 DEF Reclaim, Confirmed, DeclareLost, RunRecord
    <2>2. \/ UNCHANGED <<holder, generation>> /\ run'[r].lost
          \/ holder' = r /\ generation' = GenerationFor(r) /\ (run[r].gen = GenerationFor(r) \/ run'[r].lost)
      BY <1>0, <1>3 DEF Reclaim, Take, DeclareLost, lease, RunRecord
    <2>3. GenerationFor(r) \in Nat /\ generation <= GenerationFor(r)
      BY <1>0 DEF GenerationFor
    <2>4. TaskKnows'
      BY <2>1, <2>2 DEF LeaseInv, TaskKnows, InTask
    <2>5. \A s \in Runs : /\ run'[s].gen <= generation'
                          /\ run'[s].pc = "idle" => run'[s].gen = 0 /\ holder' # s
      BY <1>0, <1>a, <2>1, <2>2, <2>3 DEF LeaseInv, OneRunPerGeneration
    <2>6. \A s, t \in Runs : run'[s].gen = run'[t].gen /\ run'[s].gen # 0 => s = t
      BY <2>1 DEF LeaseInv, OneRunPerGeneration
    <2> QED
      BY <2>4, <2>5, <2>6 DEF LeaseInv, OneRunPerGeneration
  <1> QED
    BY <1>1, <1>2, <1>3

\* Every step keeps what the holder knows.
LEMMA StepKeepsLeaseInv ==
    ASSUME LeaseInv, TypeOK', [Next]_vars
    PROVE  LeaseInv'
  <1>1. CASE UNCHANGED vars
    <2>1. Harmless
      BY <1>1 DEF vars, lease, Harmless
    <2> QED
      BY <2>1, HarmlessStep
  <1>2. CASE Runs = {}
    BY <1>2 DEF LeaseInv, TaskKnows, OneRunPerGeneration
  <1>3. ASSUME Runs # {}, Tick \/ ClockStepsBack PROVE LeaseInv'
    BY <1>3, MostStepsAreHarmless, HarmlessStep
  <1>4. ASSUME NEW r \in Runs, Acquire(r) \/ Beat(r) \/ Work(r) \/ Crash(r) PROVE LeaseInv'
    BY <1>4, MostStepsAreHarmless, HarmlessStep, OtherStepsKeepInv DEF Beat, Work
  <1> QED
    BY <1>1, <1>2, <1>3, <1>4 DEF Next

\* What the holder knows, in every reachable state.
LEMMA LeaseInvHolds == Spec => []LeaseInv
  <1>1. Init => TaskKnows /\ OneRunPerGeneration
    BY RunsAssumption DEF Init, TaskKnows, OneRunPerGeneration, NewRun, InTask
  <1>2. LeaseInv /\ TypeOK' /\ [Next]_vars => LeaseInv'
    BY StepKeepsLeaseInv
  <1>3. TypeOK /\ TaskKnows /\ OneRunPerGeneration => LeaseInv
    BY DEF LeaseInv
  <1> QED
    BY <1>1, <1>2, <1>3, LeaseTypeCorrect, PTL DEF Spec

\* A task that does not pass its generation to runLeaseGuardedWrite writes under
\* the newest generation or has been told by startLeaseHeartbeat that its lease
\* is lost, although a beat is three transactions and reclaims a lapsed lease.
THEOREM UnfencedWriterIsTold == Spec => []WriterIsCurrentOrTold
  <1>1. LeaseInv => WriterIsCurrentOrTold
    BY DEF LeaseInv, TaskKnows, InTask, WriterIsCurrentOrTold, MayWrite, peekLeaseHolderAndExpiry
  <1> QED
    BY <1>1, LeaseInvHolds, PTL

\* acquireLeaseWithAcquisition never hands one generation to two runs, so the
\* generation in a guarded write names its writer.
THEOREM GenerationNamesItsRun == Spec => []OneRunPerGeneration
  <1>1. LeaseInv => OneRunPerGeneration
    BY DEF LeaseInv
  <1> QED
    BY <1>1, LeaseInvHolds, PTL

=============================================================================
