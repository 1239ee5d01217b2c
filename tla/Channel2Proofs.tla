------------------------------ MODULE Channel2Proofs ------------------------------
(***************************************************************************)
(* What is proved about the delivery of the channel-2 nudge, for any       *)
(* number of delivery attempts and any number of faults.                   *)
(*                                                                         *)
(* The claim row is compared and set, so an attempt that has lost its      *)
(* claim cannot move the row; but it may still send.  That it does so only *)
(* as often as a fault struck is an account: every attempt that can still  *)
(* send, and every message sent, is covered by a fault or by the one       *)
(* message the cycle is owed (Ledger).                                     *)
(***************************************************************************)
EXTENDS Channel2, FiniteSetTheorems, TLAPS

----------------------------------------------------------------------------
(* Types and the fault count *)

\* A fault that strikes is counted once; the counts stay under the bound.
LEMMA FaultsCounted ==
    ASSUME faults \in [AllFaults -> 0..MaxFaults], NEW f, Strikes(f)
    PROVE  /\ faults' \in [AllFaults -> 0..MaxFaults]
           /\ Total \in Nat /\ Total' = Total + 1
           /\ faults' = [faults EXCEPT ![f] = @ + 1]
  <1>1. f \in AllFaults /\ MaxFaults \in Nat
    BY FaultAssumption DEF Strikes
  <1>2. \A g \in AllFaults : faults[g] \in Nat
    OBVIOUS
  <1>3. faults[f] < MaxFaults
    BY <1>1, <1>2 DEF Strikes, Total, AllFaults
  <1>4. faults' = [faults EXCEPT ![f] = @ + 1]
    BY DEF Strikes
  <1>5. Total \in Nat /\ Total' = Total + 1
    BY <1>1, <1>2, <1>4 DEF Total, AllFaults
  <1>6. faults[f] + 1 \in 0..MaxFaults
    BY <1>1, <1>2, <1>3
  <1> QED
    BY <1>1, <1>4, <1>5, <1>6

\* Without a fault the account stands still.
LEMMA NoFaultNoCount ==
    ASSUME faults \in [AllFaults -> 0..MaxFaults], UNCHANGED faults
    PROVE  Total \in Nat /\ Total' = Total
  <1>1. \A g \in AllFaults : faults[g] \in Nat
    BY FaultAssumption
  <1> QED
    BY <1>1 DEF Total, AllFaults

\* Every step of an attempt moves that attempt only.
LEMMA OneAttemptMoves ==
    ASSUME pc \in [Senders -> Steps], NEW s \in Senders, NEW step \in Steps, Goto(s, step)
    PROVE  /\ pc' \in [Senders -> Steps]
           /\ pc'[s] = step /\ \A t \in Senders : t # s => pc'[t] = pc[t]
  BY DEF Goto

\* The claim row keeps its type in every transition of it.
LEMMA RowKeepsType ==
    ASSUME TypeOK, NEW s \in Senders,
           \/ UNCHANGED row
           \/ \E to \in {"none", "pending", "delivered"} : CasClaim(s, to)
           \/ token' = Forget(s) /\ UNCHANGED <<state, stale>>
           \/ state' = "claimed" /\ token' = s /\ stale' = FALSE
    PROVE  /\ state' \in {"none", "pending", "claimed", "delivered"}
           /\ token' \in Senders \cup {Nobody, Orphan} /\ stale' \in BOOLEAN
  BY DEF TypeOK, CasClaim, Forget, row

\* Where a step of an attempt leads.
Moves(s) ==
    \E step \in Steps :
        /\ Goto(s, step)
        /\ UNCHANGED <<active, off>>
        /\ \/ UNCHANGED row
           \/ \E to \in {"none", "pending", "delivered"} : CasClaim(s, to)
           \/ token' = Forget(s) /\ UNCHANGED <<state, stale>>
           \/ state' = "claimed" /\ token' = s /\ stale' = FALSE
        /\ sends' \in {sends, sends + 1}
        /\ UNCHANGED faults \/ \E f \in AllFaults : Strikes(f)

LEMMA AttemptsMove ==
    ASSUME TypeOK, NEW s \in Senders, Claim(s) \/ Progress(s) \/ Crash(s)
    PROVE  Moves(s)
  <1> USE DEF Moves
  <1>s. /\ "idle" \in Steps /\ "claimed" \in Steps /\ "resolving" \in Steps /\ "verified" \in Steps
        /\ "sending" \in Steps /\ "accepted" \in Steps /\ "sent" \in Steps /\ "failed" \in Steps
        /\ "busy" \in AllFaults /\ "crash" \in AllFaults /\ "lostReply" \in AllFaults
    BY DEF Steps, AllFaults
  <1>1. CASE Claim(s)
    BY <1>s, <1>1 DEF Claim
  <1>2. CASE RecheckRun(s)
    BY <1>s, <1>2 DEF RecheckRun
  <1>3. CASE VerifyClaim(s)
    BY <1>s, <1>3 DEF VerifyClaim, row
  <1>4. CASE ContextFails(s)
    BY <1>s, <1>4 DEF ContextFails
  <1>5. CASE Send(s)
    BY <1>s, <1>5 DEF Send
  <1>6. CASE HostAccepts(s)
    BY <1>s, <1>6 DEF HostAccepts
  <1>7. CASE PromptResolves(s) \/ PromptRejects(s)
    BY <1>s, <1>7 DEF PromptResolves, PromptRejects
  <1>8. CASE Restore(s) \/ Confirm(s)
    BY <1>s, <1>8 DEF Restore, Confirm
  <1>9. CASE RowBusy(s) \/ Crash(s)
    BY <1>s, <1>9 DEF RowBusy, Crash
  <1> QED
    BY <1>1, <1>2, <1>3, <1>4, <1>5, <1>6, <1>7, <1>8, <1>9 DEF Progress

\* Every step keeps the types.
LEMMA StepKeepsType ==
    ASSUME TypeOK, [Next]_vars
    PROVE  TypeOK'
  <1>1. CASE UNCHANGED vars
    BY <1>1 DEF vars, row, TypeOK
  <1>2. CASE Environment
    <2>1. CASE Arm \/ Disarm \/ Rearm \/ Heal
      <3>1. /\ state' \in {"none", "pending"} /\ token' = Nobody /\ stale' = FALSE
            /\ UNCHANGED <<pc, active, off, faults>> /\ sends' \in {sends, 0}
        BY <2>1 DEF Arm, Disarm, Rearm, Heal, Cas
      <3>2. stale' \in BOOLEAN
        BY <3>1
      <3>3. sends' \in Nat
        BY <3>1 DEF TypeOK
      <3> QED
        BY <3>1, <3>2, <3>3 DEF TypeOK
    <2>2. CASE CompactionOffReads
      <3>1. faults' \in [AllFaults -> 0..MaxFaults]
        BY <2>2, FaultsCounted DEF CompactionOffReads, TypeOK
      <3> QED
        BY <2>2, <3>1 DEF CompactionOffReads, TypeOK, row
    <2>3. CASE CompactionOffClears \/ RunEnds \/ RunStarts
      BY <2>3 DEF CompactionOffClears, RunEnds, RunStarts, TypeOK, row
    <2>4. CASE ClaimAges
      <3>1. faults' \in [AllFaults -> 0..MaxFaults]
        BY <2>4, FaultsCounted DEF ClaimAges, TypeOK
      <3> QED
        BY <2>4, <3>1 DEF ClaimAges, TypeOK
    <2> QED
      BY <1>2, <2>1, <2>2, <2>3, <2>4 DEF Environment
  <1>3. ASSUME NEW s \in Senders, Claim(s) \/ Progress(s) \/ Crash(s) PROVE TypeOK'
    <2>1. Moves(s)
      BY <1>3, AttemptsMove
    <2>2. PICK step \in Steps : Goto(s, step)
      BY <2>1 DEF Moves
    <2>3. pc' \in [Senders -> Steps]
      BY <2>2, OneAttemptMoves DEF TypeOK
    <2>4. faults' \in [AllFaults -> 0..MaxFaults]
      BY <2>1, FaultsCounted DEF Moves, TypeOK
    <2>5. /\ state' \in {"none", "pending", "claimed", "delivered"}
          /\ token' \in Senders \cup {Nobody, Orphan} /\ stale' \in BOOLEAN
      BY <2>1, RowKeepsType DEF Moves
    <2>6. active' \in BOOLEAN /\ off' \in BOOLEAN /\ sends' \in Nat
      BY <2>1 DEF Moves, TypeOK
    <2> QED
      BY <2>3, <2>4, <2>5, <2>6 DEF TypeOK
  <1> QED
    BY <1>1, <1>2, <1>3 DEF Next

\* The initial row, attempts and counts have their types.
LEMMA InitHasType == Init => TypeOK
  <1> SUFFICES ASSUME Init PROVE TypeOK
    OBVIOUS
  <1>1. pc \in [Senders -> Steps] /\ sends \in Nat /\ faults \in [AllFaults -> 0..MaxFaults]
    BY FaultAssumption DEF Init, Steps
  <1> QED
    BY <1>1 DEF Init, TypeOK

\* The row, the attempts and the fault counts keep their types, and no fault
\* strikes beyond its bound.
THEOREM NudgeTypeCorrect == Spec => []TypeOK
  <1>1. Init => TypeOK
    BY InitHasType
  <1>2. TypeOK /\ [Next]_vars => TypeOK'
    BY StepKeepsType
  <1> QED
    BY <1>1, <1>2, PTL DEF Spec

----------------------------------------------------------------------------
(* Who has the claim *)

\* A token is in the row only while the row is claimed, it is of an attempt
\* that is under way, and when that attempt is past the host the cycle has
\* its message: what Confirm relies on.
ClaimIsLive ==
    /\ token # Nobody => state = "claimed"
    /\ \A s \in Senders : token = s => /\ pc[s] # "idle"
                                        /\ pc[s] \in {"accepted", "sent"} => sends >= 1

DeliveryInv == TypeOK /\ ClaimIsLive /\ DeliveredWasSent

\* Every step keeps it.
LEMMA StepKeepsDelivery ==
    ASSUME DeliveryInv, TypeOK', [Next]_vars
    PROVE  DeliveryInv'
  <1> USE SendersAssumption DEF DeliveryInv
  <1>t. sends \in Nat /\ pc \in [Senders -> Steps]
    BY DEF TypeOK
  <1>1. CASE UNCHANGED vars
    BY <1>1 DEF vars, row, ClaimIsLive, DeliveredWasSent
  <1>2. CASE Environment
    <2>1. CASE Arm \/ Disarm \/ Rearm \/ Heal \/ CompactionOffClears
      <3>1. state' # "delivered" /\ token' = Nobody
        BY <2>1 DEF Arm, Disarm, Rearm, Heal, CompactionOffClears, Cas
      <3> QED
        BY <3>1 DEF ClaimIsLive, DeliveredWasSent
    <2>2. CASE CompactionOffReads \/ RunEnds \/ RunStarts \/ ClaimAges
      <3>1. UNCHANGED <<state, token, pc, sends>>
        BY <2>2 DEF CompactionOffReads, RunEnds, RunStarts, ClaimAges, row
      <3> QED
        BY <3>1 DEF ClaimIsLive, DeliveredWasSent
    <2> QED
      BY <1>2, <2>1, <2>2 DEF Environment
  <1>3. ASSUME NEW s \in Senders, Claim(s) \/ Progress(s) \/ Crash(s) PROVE DeliveryInv'
    <2>1. CASE Claim(s)
      <3>1. /\ state' = "claimed" /\ token' = s /\ pc'[s] = "claimed"
        BY <1>t, <2>1 DEF Claim, Goto
      <3> QED
        BY <3>1 DEF ClaimIsLive, DeliveredWasSent
    <2>2. CASE ((RecheckRun(s) \/ Send(s)) /\ ~active) \/ Restore(s)
      <3>1. /\ \E to \in {"none", "pending"} : CasClaim(s, to)
            /\ \A t \in Senders : t # s => pc'[t] = pc[t]
            /\ UNCHANGED sends
        BY <1>t, <2>2 DEF RecheckRun, Send, Restore, Goto
      <3>2. \/ state' # "delivered" /\ token' = Nobody
            \/ token # s /\ UNCHANGED row
        BY <3>1 DEF CasClaim, ClaimIsLive
      <3> QED
        BY <3>1, <3>2 DEF ClaimIsLive, DeliveredWasSent, row
    <2>3. CASE Confirm(s)
      <3>1. /\ CasClaim(s, "delivered")
            /\ pc[s] = "sent" /\ \A t \in Senders : t # s => pc'[t] = pc[t]
            /\ UNCHANGED sends
        BY <1>t, <2>3 DEF Confirm, Goto
      <3>2. \/ sends >= 1 /\ token' = Nobody
            \/ token # s /\ UNCHANGED row
        BY <3>1 DEF CasClaim, ClaimIsLive
      <3> QED
        BY <3>1, <3>2 DEF ClaimIsLive, DeliveredWasSent, row
    <2>4. CASE RowBusy(s) \/ Crash(s) \/ (VerifyClaim(s) /\ token # s)
      <3>1. /\ token' = Forget(s) /\ UNCHANGED <<state, sends>>
            /\ \A t \in Senders : t # s => pc'[t] = pc[t]
        BY <1>t, <2>4 DEF RowBusy, Crash, VerifyClaim, Goto
      <3> QED
        BY <3>1 DEF ClaimIsLive, DeliveredWasSent, Forget
    <2>5. CASE \/ (RecheckRun(s) \/ Send(s)) /\ active
               \/ ContextFails(s)
               \/ VerifyClaim(s) /\ token = s
               \/ PromptRejects(s)
      <3>1. /\ UNCHANGED <<state, token, sends>> /\ pc'[s] \notin {"accepted", "sent"}
            /\ token = s => pc'[s] # "idle"
            /\ \A t \in Senders : t # s => pc'[t] = pc[t]
        BY <1>t, <2>5 DEF RecheckRun, Send, ContextFails, VerifyClaim, PromptRejects, Goto, row, ClaimIsLive
      <3> QED
        BY <3>1 DEF ClaimIsLive, DeliveredWasSent
    <2>6. CASE HostAccepts(s) \/ PromptResolves(s)
      <3>1. /\ UNCHANGED <<state, token>> /\ pc'[s] # "idle" /\ sends' >= sends
            /\ pc[s] = "accepted" \/ sends' >= 1
            /\ \A t \in Senders : t # s => pc'[t] = pc[t]
        BY <1>t, <2>6 DEF HostAccepts, PromptResolves, Goto, row
      <3>2. sends' \in Nat
        BY DEF TypeOK
      <3> QED
        BY <1>t, <3>1, <3>2 DEF ClaimIsLive, DeliveredWasSent
    <2>7. CASE RecheckRun(s) \/ Send(s)
      BY <2>2, <2>5, <2>7
    <2>8. CASE VerifyClaim(s)
      BY <2>4, <2>5, <2>8
    <2> QED
      BY <1>3, <2>1, <2>2, <2>3, <2>4, <2>5, <2>6, <2>7, <2>8 DEF Progress
  <1> QED
    BY <1>1, <1>2, <1>3 DEF Next

\* The holder of the claim is who may confirm it, in every state.
LEMMA DeliveryHolds == Spec => []DeliveryInv
  <1>1. Init => DeliveryInv
    BY InitHasType, SendersAssumption DEF Init, DeliveryInv, ClaimIsLive, DeliveredWasSent
  <1>2. DeliveryInv /\ [Next]_vars => DeliveryInv'
    BY StepKeepsDelivery, StepKeepsType DEF DeliveryInv
  <1> QED
    BY <1>1, <1>2, PTL DEF Spec

\* The cycle is consumed by a message of this cycle only: an attempt that was
\* healed away, crashed, stalled or cleared never confirms another's claim.
THEOREM OnlySentIsDelivered == Spec => []DeliveredWasSent
  BY DeliveryHolds, PTL DEF DeliveryInv

----------------------------------------------------------------------------
(* Keeping the claim *)

\* Without a stall a claim that aged is nobody's any more, and without
\* /compaction off nobody is about to clear the row.
OnlyFaultsTakeClaims ==
    /\ faults["stall"] = 0 /\ stale => token \notin Senders
    /\ faults["off"] = 0 => ~off

ClaimInv == DeliveryInv /\ OnlyFaultsTakeClaims /\ InFlightKeepsClaim

\* The history of faults only grows.
LEMMA FaultsOnlyGrow ==
    ASSUME TypeOK, NEW f, UNCHANGED faults \/ Strikes(f)
    PROVE  /\ faults'["stall"] = 0 => faults["stall"] = 0 /\ ~Strikes("stall")
           /\ faults'["off"] = 0 => faults["off"] = 0 /\ ~Strikes("off")
  <1>1. faults \in [AllFaults -> Nat]
    BY FaultAssumption DEF TypeOK
  <1>2. faults["stall"] \in Nat /\ faults["off"] \in Nat
    BY <1>1 DEF AllFaults
  <1>3. CASE UNCHANGED faults
    BY <1>1, <1>2, <1>3 DEF Strikes, AllFaults
  <1>4. CASE Strikes(f)
    BY <1>1, <1>2, <1>4 DEF Strikes, AllFaults
  <1> QED
    BY <1>3, <1>4

\* Every step keeps it.
LEMMA StepKeepsClaim ==
    ASSUME ClaimInv, DeliveryInv', [Next]_vars
    PROVE  ClaimInv'
  <1> USE SendersAssumption
  <1>0. TypeOK /\ ClaimIsLive /\ pc \in [Senders -> Steps]
    BY DEF ClaimInv, DeliveryInv, TypeOK
  <1>1. CASE UNCHANGED vars
    BY <1>1 DEF ClaimInv, vars, row, OnlyFaultsTakeClaims, InFlightKeepsClaim
  <1>2. CASE Environment
    <2>1. CASE Arm \/ Disarm \/ Rearm
      <3>1. /\ state # "claimed" /\ stale' = FALSE /\ UNCHANGED <<pc, off, faults>>
        BY <2>1 DEF Arm, Disarm, Rearm, Cas
      <3> QED
        BY <3>1 DEF ClaimInv, OnlyFaultsTakeClaims, InFlightKeepsClaim
    <2>2. CASE Heal
      <3>1. /\ stale /\ stale' = FALSE /\ UNCHANGED <<pc, off, faults>>
        BY <2>2 DEF Heal, Cas
      <3> QED
        BY <3>1 DEF ClaimInv, OnlyFaultsTakeClaims, InFlightKeepsClaim
    <2>3. CASE CompactionOffReads
      <3>1. faults'["off"] # 0
        BY <1>0, <2>3, FaultsOnlyGrow DEF CompactionOffReads
      <3>2. faults'["stall"] = 0 => faults["stall"] = 0
        BY <1>0, <2>3, FaultsOnlyGrow DEF CompactionOffReads
      <3> QED
        BY <2>3, <3>1, <3>2 DEF CompactionOffReads, row, ClaimInv, OnlyFaultsTakeClaims, InFlightKeepsClaim
    <2>4. CASE CompactionOffClears
      <3>1. off /\ ~off' /\ stale' = FALSE /\ UNCHANGED faults
        BY <2>4 DEF CompactionOffClears
      <3> QED
        BY <3>1 DEF ClaimInv, OnlyFaultsTakeClaims, InFlightKeepsClaim
    <2>5. CASE RunEnds \/ RunStarts
      BY <2>5 DEF RunEnds, RunStarts, row, ClaimInv, OnlyFaultsTakeClaims, InFlightKeepsClaim
    <2>6. CASE ClaimAges
      <3>1. /\ faults'["stall"] = 0 => faults["stall"] = 0 /\ token \notin Senders
            /\ faults'["off"] = 0 => faults["off"] = 0
        BY <1>0, <2>6, FaultsOnlyGrow DEF ClaimAges
      <3> QED
        BY <2>6, <3>1 DEF ClaimAges, ClaimInv, OnlyFaultsTakeClaims, InFlightKeepsClaim
    <2> QED
      BY <1>2, <2>1, <2>2, <2>3, <2>4, <2>5, <2>6 DEF Environment
  <1>3. ASSUME NEW s \in Senders, Claim(s) \/ Progress(s) \/ Crash(s) PROVE ClaimInv'
    <2>1. Moves(s)
      BY <1>0, <1>3, AttemptsMove
    <2>2. /\ faults'["stall"] = 0 => faults["stall"] = 0
          /\ faults'["off"] = 0 => faults["off"] = 0
      BY <1>0, <2>1, FaultsOnlyGrow DEF Moves
    <2>3. \A t \in Senders : t # s => pc'[t] = pc[t]
      BY <1>0, <2>1 DEF Moves, Goto
    <2>4. UNCHANGED off /\ (stale' => stale /\ (token' \in Senders => token' = token))
      BY <1>0, <2>1 DEF Moves, CasClaim, Forget, row
    <2>5. OnlyFaultsTakeClaims'
      BY <2>2, <2>4 DEF ClaimInv, OnlyFaultsTakeClaims
    <2>6. \/ pc'[s] = "idle" /\ (token # s => UNCHANGED <<state, token>>)
          \/ pc[s] = "idle" /\ state = "pending" /\ state' = "claimed" /\ token' = s
          \/ pc[s] # "idle" /\ UNCHANGED <<state, token>>
      <3>1. CASE Claim(s)
        BY <3>1 DEF Claim
      <3>2. CASE RecheckRun(s) \/ Send(s)
        <4>1. \/ UNCHANGED row
              \/ pc'[s] = "idle" /\ CasClaim(s, "none")
          BY <1>0, <3>2 DEF RecheckRun, Send, Goto
        <4>2. pc[s] # "idle"
          BY <3>2 DEF RecheckRun, Send
        <4> QED
          BY <4>1, <4>2 DEF CasClaim, row
      <3>3. CASE Restore(s) \/ Confirm(s)
        BY <1>0, <3>3 DEF Restore, Confirm, Goto, CasClaim, row
      <3>4. CASE VerifyClaim(s)
        BY <1>0, <3>4 DEF VerifyClaim, Goto, Forget, ClaimIsLive
      <3>5. CASE RowBusy(s) \/ Crash(s)
        BY <1>0, <3>5 DEF RowBusy, Crash, Goto, Forget
      <3>6. CASE ContextFails(s) \/ HostAccepts(s) \/ PromptResolves(s) \/ PromptRejects(s)
        BY <3>6 DEF ContextFails, HostAccepts, PromptResolves, PromptRejects, row
      <3> QED
        BY <1>3, <3>1, <3>2, <3>3, <3>4, <3>5, <3>6 DEF Progress
    <2>7. InFlightKeepsClaim'
      BY <2>2, <2>3, <2>6 DEF ClaimInv, InFlightKeepsClaim
    <2> QED
      BY <2>5, <2>7 DEF ClaimInv
  <1> QED
    BY <1>1, <1>2, <1>3 DEF Next

\* "fresh claims are left alone so a sibling process boot cannot steal a live
\* in-flight delivery": as long as no attempt stalls and compaction stays on,
\* whoever is delivering has the claim, so at most one attempt is under way,
\* however many of them crash, are rejected or find the row busy.
THEOREM InFlightHasClaim == Spec => []InFlightKeepsClaim
  <1>1. Init => OnlyFaultsTakeClaims /\ InFlightKeepsClaim
    BY DEF Init, OnlyFaultsTakeClaims, InFlightKeepsClaim
  <1>2. ClaimInv /\ DeliveryInv' /\ [Next]_vars => ClaimInv'
    BY StepKeepsClaim
  <1>3. ClaimInv <=> DeliveryInv /\ OnlyFaultsTakeClaims /\ InFlightKeepsClaim
    BY DEF ClaimInv
  <1> QED
    BY <1>1, <1>2, <1>3, DeliveryHolds, PTL DEF Spec

----------------------------------------------------------------------------
(* The account of messages *)

\* Attempts that can still send.
Loaded == {s \in Senders : pc[s] \in {"claimed", "resolving", "verified", "sending"}}

\* The message of the cycle: spent when the cycle is consumed, and promised to
\* the attempt whose claim is fresh.
Promised ==
    \/ state = "delivered"
    \/ /\ state = "claimed" /\ ~stale
       /\ \E s \in Senders : token = s /\ pc[s] \notin {"idle", "failed"}

Owed == IF Promised THEN 1 ELSE 0

\* A compaction-off transition on its way may free the row once.
Clearing == IF off THEN 1 ELSE 0

\* Whatever was sent or can be is the cycle's own message, or a fault's.
Ledger == IsFiniteSet(Loaded) /\ sends + Cardinality(Loaded) + Clearing <= Total + Owed

LedgerInv == DeliveryInv /\ Ledger

\* An attempt that comes to send, or can no more, is one message.
LEMMA OneMoreOrLess ==
    ASSUME NEW s \in Senders, IsFiniteSet(Loaded),
           \A t \in Senders : t # s => pc'[t] = pc[t]
    PROVE  /\ IsFiniteSet(Loaded')
           /\ Cardinality(Loaded) \in Nat /\ Cardinality(Loaded') \in Nat
           /\ (s \in Loaded <=> s \in Loaded') => Cardinality(Loaded') = Cardinality(Loaded)
           /\ s \in Loaded /\ s \notin Loaded' => Cardinality(Loaded') = Cardinality(Loaded) - 1
           /\ s \notin Loaded /\ s \in Loaded' => Cardinality(Loaded') = Cardinality(Loaded) + 1
  <1>1. CASE s \in Loaded <=> s \in Loaded'
    <2>1. Loaded' = Loaded
      BY <1>1 DEF Loaded
    <2> QED
      BY <2>1, FS_CardinalityType
  <1>2. CASE s \in Loaded /\ s \notin Loaded'
    <2>1. Loaded' = Loaded \ {s}
      BY <1>2 DEF Loaded
    <2> QED
      BY <1>2, <2>1, FS_CardinalityType, FS_RemoveElement
  <1>3. CASE s \notin Loaded /\ s \in Loaded'
    <2>1. Loaded' = Loaded \cup {s}
      BY <1>3 DEF Loaded
    <2> QED
      BY <1>3, <2>1, FS_CardinalityType, FS_AddElement
  <1> QED
    BY <1>1, <1>2, <1>3

\* Steps of the environment balance: a claim that ages is paid for by a stall,
\* a cleared row by the clearing, and a new cycle drops the message it had.
LEMMA EnvironmentBalances ==
    ASSUME LedgerInv, Environment
    PROVE  Ledger'
  <1> USE SendersAssumption
  <1>0. /\ TypeOK /\ ClaimIsLive /\ DeliveredWasSent /\ sends \in Nat
        /\ faults \in [AllFaults -> 0..MaxFaults]
    BY DEF LedgerInv, DeliveryInv, TypeOK
  <1>1. UNCHANGED pc
    BY DEF Environment, Arm, Disarm, Rearm, Heal, CompactionOffReads, CompactionOffClears,
           RunEnds, RunStarts, ClaimAges
  <1>2. /\ Loaded' = Loaded /\ Cardinality(Loaded') = Cardinality(Loaded)
        /\ Cardinality(Loaded) \in Nat /\ IsFiniteSet(Loaded')
    BY <1>1, FS_CardinalityType DEF LedgerInv, Ledger, Loaded
  <1>3. sends + Cardinality(Loaded) + Clearing <= Total + Owed
    BY DEF LedgerInv, Ledger
  <1>4. CASE Arm \/ Disarm \/ Heal \/ RunEnds \/ RunStarts
    <2>1. UNCHANGED <<off, sends, faults>> /\ (Promised => Promised')
      BY <1>0, <1>4 DEF Arm, Disarm, Heal, RunEnds, RunStarts, Cas, row, Promised
    <2>2. Total \in Nat /\ Total' = Total
      BY <1>0, <2>1, NoFaultNoCount
    <2> QED
      BY <1>0, <1>2, <1>3, <2>1, <2>2 DEF Ledger, Owed, Clearing
  <1>5. CASE Rearm
    <2>1. UNCHANGED <<off, faults>> /\ sends' = 0 /\ sends >= 1
      BY <1>0, <1>5 DEF Rearm, Cas, DeliveredWasSent
    <2>2. Total \in Nat /\ Total' = Total
      BY <1>0, <2>1, NoFaultNoCount
    <2> QED
      BY <1>0, <1>2, <1>3, <2>1, <2>2 DEF Ledger, Owed, Clearing
  <1>6. CASE CompactionOffReads
    <2>1. ~off /\ off' /\ UNCHANGED <<row, sends>> /\ (Promised => Promised')
      BY <1>1, <1>6 DEF CompactionOffReads, Promised, row
    <2>2. Total \in Nat /\ Total' = Total + 1
      BY <1>0, <1>6, FaultsCounted DEF CompactionOffReads
    <2> QED
      BY <1>0, <1>2, <1>3, <2>1, <2>2 DEF Ledger, Owed, Clearing
  <1>7. CASE CompactionOffClears
    <2>1. off /\ ~off' /\ UNCHANGED <<sends, faults>>
      BY <1>7 DEF CompactionOffClears
    <2>2. Total \in Nat /\ Total' = Total
      BY <1>0, <2>1, NoFaultNoCount
    <2> QED
      BY <1>0, <1>2, <1>3, <2>1, <2>2 DEF Ledger, Owed, Clearing
  <1>8. CASE ClaimAges
    <2>1. CASE token \in Senders
      <3>1. UNCHANGED <<off, sends>> /\ Total \in Nat /\ Total' = Total + 1
        BY <1>0, <1>8, <2>1, FaultsCounted DEF ClaimAges
      <3> QED
        BY <1>0, <1>2, <1>3, <3>1 DEF Ledger, Owed, Clearing
    <2>2. CASE token \notin Senders
      <3>1. UNCHANGED <<off, sends, faults>> /\ ~Promised
        BY <1>0, <1>8, <2>2 DEF ClaimAges, Promised
      <3>2. Total \in Nat /\ Total' = Total
        BY <1>0, <3>1, NoFaultNoCount
      <3> QED
        BY <1>0, <1>2, <1>3, <3>1, <3>2 DEF Ledger, Owed, Clearing
    <2> QED
      BY <2>1, <2>2
  <1> QED
    BY <1>4, <1>5, <1>6, <1>7, <1>8 DEF Environment

\* Steps of an attempt balance: a claim promises the cycle's message, the send
\* keeps the promise, and giving up without a fault gives up the send as well.
LEMMA AttemptBalances ==
    ASSUME LedgerInv, NEW s \in Senders, Claim(s) \/ Progress(s) \/ Crash(s)
    PROVE  Ledger'
  <1> USE SendersAssumption
  <1>0. /\ TypeOK /\ ClaimIsLive /\ sends \in Nat /\ pc \in [Senders -> Steps]
        /\ faults \in [AllFaults -> 0..MaxFaults] /\ IsFiniteSet(Loaded)
    BY DEF LedgerInv, DeliveryInv, TypeOK, Ledger
  <1>1. Moves(s)
    BY <1>0, AttemptsMove
  <1>2. UNCHANGED off /\ \A t \in Senders : t # s => pc'[t] = pc[t]
    BY <1>0, <1>1 DEF Moves, Goto
  <1>3. /\ IsFiniteSet(Loaded')
        /\ Cardinality(Loaded) \in Nat /\ Cardinality(Loaded') \in Nat
        /\ (s \in Loaded <=> s \in Loaded') => Cardinality(Loaded') = Cardinality(Loaded)
        /\ s \in Loaded /\ s \notin Loaded' => Cardinality(Loaded') = Cardinality(Loaded) - 1
        /\ s \notin Loaded /\ s \in Loaded' => Cardinality(Loaded') = Cardinality(Loaded) + 1
    BY <1>0, <1>2, OneMoreOrLess
  <1>4. sends + Cardinality(Loaded) + Clearing <= Total + Owed /\ Clearing \in Nat /\ Clearing' = Clearing
    BY <1>2 DEF LedgerInv, Ledger, Clearing
  <1>5. \/ /\ UNCHANGED <<sends, faults>> /\ (s \in Loaded <=> s \in Loaded') /\ (Promised => Promised')
        \/ /\ UNCHANGED <<sends, faults>> /\ s \in Loaded /\ s \notin Loaded'
        \/ /\ UNCHANGED sends /\ (\E f : Strikes(f)) /\ (s \in Loaded' => s \in Loaded)
        \/ /\ UNCHANGED <<sends, faults>> /\ s \notin Loaded /\ s \in Loaded' /\ ~Promised /\ Promised'
        \/ /\ sends' = sends + 1 /\ UNCHANGED faults /\ s \in Loaded /\ s \notin Loaded'
           /\ (Promised => Promised')
    <2>1. CASE Claim(s)
      BY <1>0, <2>1 DEF Claim, Goto, Loaded, Promised
    <2>2. CASE RecheckRun(s) \/ Send(s)
      <3>1. /\ UNCHANGED <<sends, faults>> /\ s \in Loaded
            /\ \/ s \in Loaded' /\ UNCHANGED row /\ pc'[s] \notin {"idle", "failed"}
               \/ s \notin Loaded'
        BY <1>0, <2>2 DEF RecheckRun, Send, Goto, Loaded
      <3> QED
        BY <1>2, <3>1 DEF Promised, row
    <2>3. CASE VerifyClaim(s)
      <3>1. /\ UNCHANGED <<sends, faults>> /\ s \in Loaded
            /\ \/ s \in Loaded' /\ UNCHANGED row /\ pc'[s] \notin {"idle", "failed"}
               \/ s \notin Loaded'
        BY <1>0, <2>3 DEF VerifyClaim, Goto, Loaded, row
      <3> QED
        BY <1>2, <3>1 DEF Promised, row
    <2>4. CASE ContextFails(s)
      BY <1>0, <2>4 DEF ContextFails, Goto, Loaded
    <2>5. CASE HostAccepts(s)
      BY <1>0, <1>2, <2>5 DEF HostAccepts, Goto, Loaded, Promised, row
    <2>6. CASE PromptResolves(s)
      BY <1>0, <1>2, <2>6 DEF PromptResolves, Goto, Loaded, Promised, row
    <2>7. CASE PromptRejects(s)
      BY <1>0, <2>7 DEF PromptRejects, Goto, Loaded
    <2>8. CASE Restore(s) \/ Confirm(s)
      <3>1. /\ UNCHANGED <<sends, faults>> /\ s \notin Loaded /\ s \notin Loaded'
        BY <1>0, <2>8 DEF Restore, Confirm, Goto, Loaded
      <3>2. Promised => Promised'
        BY <1>0, <1>2, <2>8 DEF Restore, Confirm, CasClaim, Promised, row, ClaimIsLive
      <3> QED
        BY <3>1, <3>2
    <2>9. CASE RowBusy(s) \/ Crash(s)
      BY <1>0, <2>9 DEF RowBusy, Crash, Goto, Loaded
    <2> QED
      BY <2>1, <2>2, <2>3, <2>4, <2>5, <2>6, <2>7, <2>8, <2>9 DEF Progress
  <1>6. /\ Total \in Nat
        /\ UNCHANGED faults => Total' = Total
        /\ (\E f : Strikes(f)) => Total' = Total + 1
    <2>1. Total \in Nat
      BY <1>0, FaultAssumption DEF Total, AllFaults
    <2> QED
      BY <1>0, <2>1, FaultsCounted, NoFaultNoCount
  <1> QED
    BY <1>0, <1>3, <1>4, <1>5, <1>6 DEF Ledger, Owed

\* The account balances in every state.
LEMMA LedgerHolds == Spec => []LedgerInv
  <1>1. Init => Ledger
    <2> SUFFICES ASSUME Init PROVE Ledger
      OBVIOUS
    <2>1. Loaded = {} /\ sends = 0 /\ ~off /\ Total = 0
      BY DEF Init, Loaded, Total, AllFaults
    <2> QED
      BY <2>1, FS_EmptySet DEF Ledger, Owed, Clearing
  <1>2. LedgerInv /\ DeliveryInv' /\ [Next]_vars => LedgerInv'
    <2> SUFFICES ASSUME LedgerInv, DeliveryInv', [Next]_vars PROVE Ledger'
      BY DEF LedgerInv
    <2>1. CASE UNCHANGED vars
      BY <2>1 DEF vars, row, LedgerInv, Ledger, Loaded, Owed, Promised, Clearing, Total
    <2> QED
      BY <2>1, EnvironmentBalances, AttemptBalances DEF Next
  <1>3. LedgerInv <=> DeliveryInv /\ Ledger
    BY DEF LedgerInv
  <1> QED
    BY <1>1, <1>2, <1>3, DeliveryHolds, PTL DEF Spec

\* "Each sender claims pending state with a unique token before sending to
\* prevent duplicate sends": a cycle has one message and at most one more for
\* every fault that struck, for any number of attempts and any order of
\* crashes, stalls, lost replies, busy rows and compaction switches.
THEOREM OneMessagePerCycle == Spec => []SentOncePerCycle
  <1>1. LedgerInv => SentOncePerCycle
    <2> SUFFICES ASSUME LedgerInv PROVE SentOncePerCycle
      OBVIOUS
    <2>1. sends \in Nat /\ \A f \in AllFaults : faults[f] \in Nat
      BY FaultAssumption DEF LedgerInv, DeliveryInv, TypeOK
    <2>2. Total \in Nat
      BY <2>1 DEF Total, AllFaults
    <2>3. Cardinality(Loaded) \in Nat
      BY FS_CardinalityType DEF LedgerInv, Ledger
    <2> QED
      BY <2>1, <2>2, <2>3 DEF LedgerInv, Ledger, Owed, Clearing, SentOncePerCycle
  <1> QED
    BY <1>1, LedgerHolds, PTL

=============================================================================
