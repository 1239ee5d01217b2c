--------------------------------- MODULE Channel2 ---------------------------------
(***************************************************************************)
(* Delivery of the channel-2 ceiling nudge of one session.                 *)
(*                                                                         *)
(* A transform pass arms the nudge in session_meta; the message.updated    *)
(* handler of some process claims it with a fresh token, waits for the     *)
(* host, sends a synthetic user message and confirms.  A sender is one     *)
(* call of maybeDeliverChannel2 (or of its Pi twin); several may be in     *)
(* flight, of one process or of several.  A claim older than its TTL is    *)
(* healed by whoever opens the database.                                   *)
(***************************************************************************)
EXTENDS Naturals

CONSTANTS
    Senders,       \* delivery attempts that may be in flight
    Nobody,        \* no claim token
    Orphan,        \* the token of an attempt that is over
    MaxFaults,     \* bound: faults that strike
    Subagent,      \* whether the session is a subagent's
    Faults         \* what may go wrong, a subset of AllFaults

\* crash: a process dies; stall: an attempt outlives the claim's TTL;
\* lostReply: the host takes the message and promptAsync rejects; busy: a
\* statement after the send is refused; off: /compaction off clears the nudge.
AllFaults == {"crash", "stall", "lostReply", "busy", "off"}

ASSUME SendersAssumption == Nobody \notin Senders /\ Orphan \notin Senders /\ Nobody # Orphan
ASSUME FaultAssumption == Faults \subseteq AllFaults /\ MaxFaults \in Nat /\ Subagent \in BOOLEAN

VARIABLES
    state,    \* channel2_nudge_state; "none" is the empty string
    token,    \* channel2_nudge_claim_token
    stale,    \* channel2_nudge_claimed_at is older than CHANNEL2_CLAIM_TTL_MS
    pc,       \* where each attempt is
    active,   \* a run of the (sub)agent is live
    off,      \* a compaction-off transition has seen a nudge to clear
    sends,    \* messages the host took since the cycle began
    faults    \* history: how often each fault struck

row  == <<state, token, stale>>
vars == <<row, pc, active, off, sends, faults>>

\* claimed: pending row taken; resolving: awaiting the prompt context;
\* verified: claim seen once more; sending: promptAsync called; accepted: the
\* host has the message; sent, failed: promptAsync resolved or rejected.
Steps == {"idle", "claimed", "resolving", "verified", "sending", "accepted", "sent", "failed"}

TypeOK ==
    /\ state \in {"none", "pending", "claimed", "delivered"}
    /\ token \in Senders \cup {Nobody, Orphan}
    /\ stale \in BOOLEAN /\ active \in BOOLEAN /\ off \in BOOLEAN
    /\ pc \in [Senders -> Steps]
    /\ sends \in Nat /\ faults \in [AllFaults -> 0..MaxFaults]

Init ==
    /\ state = "none" /\ token = Nobody /\ stale = FALSE
    /\ pc = [s \in Senders |-> "idle"]
    /\ active = TRUE /\ off = FALSE /\ sends = 0
    /\ faults = [f \in AllFaults |-> 0]

----------------------------------------------------------------------------
(* The row *)

\* casChannel2NudgeState: the token goes with every transition.
Cas(from, to) ==
    /\ state = from
    /\ state' = to /\ token' = Nobody /\ stale' = FALSE

\* Variant: the transition looks at the state only.
CasAnyClaim(s, to) ==
    IF state = "claimed"
    THEN state' = to /\ token' = Nobody /\ stale' = FALSE
    ELSE UNCHANGED row

\* casChannel2NudgeClaim: only the token that is in the row may move it on.
CasClaim(s, to) ==
    IF state = "claimed" /\ token = s
    THEN state' = to /\ token' = Nobody /\ stale' = FALSE
    ELSE UNCHANGED row

\* An attempt that is over presents its token no more.
Forget(s) == IF token = s THEN Orphan ELSE token

Goto(s, step) == pc' = [pc EXCEPT ![s] = step]

Total == faults["crash"] + faults["stall"] + faults["lostReply"] + faults["busy"] + faults["off"]

Strikes(fault) ==
    /\ fault \in Faults /\ Total < MaxFaults
    /\ faults' = [faults EXCEPT ![fault] = @ + 1]

----------------------------------------------------------------------------
(* Transform passes, hard folds and the compaction switch *)

\* evaluateChannel2 triggers, or a directive of the Rust module arrives.
Arm ==
    /\ Cas("none", "pending")
    /\ UNCHANGED <<pc, active, off, sends, faults>>

\* The trigger no longer holds, in a pass or right before a delivery; or the
\* run of a subagent is over.
Disarm ==
    /\ Cas("pending", "none")
    /\ UNCHANGED <<pc, active, off, sends, faults>>

\* A coverage-advancing hard fold or a collapsed tail opens the next cycle.
Rearm ==
    /\ Cas("delivered", "none")
    /\ sends' = 0
    /\ UNCHANGED <<pc, active, off, faults>>

\* The compaction-off transition reads the state and then clears it.
CompactionOffReads ==
    /\ ~off /\ Strikes("off")
    /\ state \in {"pending", "claimed"}
    /\ off' = TRUE
    /\ UNCHANGED <<row, pc, active, sends>>

CompactionOffClears ==
    /\ off
    /\ state' = "none" /\ token' = Nobody /\ stale' = FALSE
    /\ off' = FALSE
    /\ UNCHANGED <<pc, active, sends, faults>>

RunEnds ==
    /\ Subagent /\ active
    /\ active' = FALSE
    /\ UNCHANGED <<row, pc, off, sends, faults>>

RunStarts ==
    /\ ~active
    /\ active' = TRUE
    /\ UNCHANGED <<row, pc, off, sends, faults>>

\* Variant: only claims without a token are healed.
HealLegacyOnly ==
    /\ stale /\ token = Nobody
    /\ Cas("claimed", "none")
    /\ UNCHANGED <<pc, active, off, sends, faults>>

\* Variant: a claim is healed whatever its age.
HealAny ==
    /\ Cas("claimed", "none")
    /\ UNCHANGED <<pc, active, off, sends, faults>>

\* healWedgedChannel2Claims, on every open of the database.
Heal ==
    /\ stale
    /\ Cas("claimed", "none")
    /\ UNCHANGED <<pc, active, off, sends, faults>>

\* Ten minutes pass.  Attempts that do not stall are over by then.
ClaimAges ==
    /\ state = "claimed" /\ ~stale
    /\ IF token \in Senders THEN Strikes("stall") ELSE UNCHANGED faults
    /\ stale' = TRUE
    /\ UNCHANGED <<state, token, pc, active, off, sends>>

----------------------------------------------------------------------------
(* maybeDeliverChannel2 *)

\* Variant: the row is read, not compared and set.
ClaimUnconditionally(s) ==
    /\ pc[s] = "idle" /\ active
    /\ state \in {"pending", "claimed"}
    /\ state' = "claimed" /\ token' = s /\ stale' = FALSE
    /\ Goto(s, "claimed")
    /\ UNCHANGED <<active, off, sends, faults>>

\* From the first read to claimChannel2NudgeState: reads that are out of date
\* by then do no harm, the claim asks for pending again.
Claim(s) ==
    /\ pc[s] = "idle" /\ active
    /\ state = "pending"
    /\ state' = "claimed" /\ token' = s /\ stale' = FALSE
    /\ Goto(s, "claimed")
    /\ UNCHANGED <<active, off, sends, faults>>

\* The run is looked at again with the claim in hand.
RecheckRun(s) ==
    /\ pc[s] = "claimed"
    /\ IF active THEN Goto(s, "resolving") /\ UNCHANGED row
                 ELSE Goto(s, "idle") /\ CasClaim(s, "none")
    /\ UNCHANGED <<active, off, sends, faults>>

\* resolvePromptContext is back: whose claim is it now?
VerifyClaim(s) ==
    /\ pc[s] = "resolving"
    /\ Goto(s, IF state = "claimed" /\ token = s THEN "verified" ELSE "idle")
    /\ token' = IF state = "claimed" /\ token = s THEN token ELSE Forget(s)
    /\ UNCHANGED <<state, stale, active, off, sends, faults>>

\* resolvePromptContext rejects, or the client has no promptAsync.
ContextFails(s) ==
    /\ pc[s] = "resolving"
    /\ Goto(s, "failed")
    /\ UNCHANGED <<row, active, off, sends, faults>>

\* Last look at the run, then promptAsync.
Send(s) ==
    /\ pc[s] = "verified"
    /\ IF active THEN Goto(s, "sending") /\ UNCHANGED row
                 ELSE Goto(s, "idle") /\ CasClaim(s, "none")
    /\ UNCHANGED <<active, off, sends, faults>>

\* The host takes the message.
HostAccepts(s) ==
    /\ pc[s] = "sending"
    /\ sends' = sends + 1
    /\ Goto(s, "accepted")
    /\ UNCHANGED <<row, active, off, faults>>

PromptResolves(s) ==
    /\ pc[s] = "accepted"
    /\ Goto(s, "sent")
    /\ UNCHANGED <<row, active, off, sends, faults>>

\* promptAsync rejects; with a lost reply the host has the message.
PromptRejects(s) ==
    /\ \/ pc[s] = "sending" /\ UNCHANGED faults
       \/ pc[s] = "accepted" /\ Strikes("lostReply")
    /\ Goto(s, "failed")
    /\ UNCHANGED <<row, active, off, sends>>

\* The catch: a failed send gives the claim back as pending.
Restore(s) ==
    /\ pc[s] = "failed"
    /\ Goto(s, "idle")
    /\ CasClaim(s, "pending")
    /\ UNCHANGED <<active, off, sends, faults>>

\* The message is out: the cycle is consumed, by the token's owner only.
Confirm(s) ==
    /\ pc[s] = "sent"
    /\ Goto(s, "idle")
    /\ CasClaim(s, "delivered")
    /\ UNCHANGED <<active, off, sends, faults>>

\* The statement after the send is refused: the row stays as it is.
RowBusy(s) ==
    /\ pc[s] \in {"sent", "failed"} /\ Strikes("busy")
    /\ Goto(s, "idle")
    /\ token' = Forget(s)
    /\ UNCHANGED <<state, stale, active, off, sends>>

Crash(s) ==
    /\ pc[s] # "idle" /\ Strikes("crash")
    /\ Goto(s, "idle")
    /\ token' = Forget(s)
    /\ UNCHANGED <<state, stale, active, off, sends>>

----------------------------------------------------------------------------

Environment == Arm \/ Disarm \/ Rearm \/ CompactionOffReads \/ CompactionOffClears
               \/ RunEnds \/ RunStarts \/ Heal \/ ClaimAges

Progress(s) == \/ RecheckRun(s) \/ VerifyClaim(s) \/ ContextFails(s) \/ Send(s)
               \/ HostAccepts(s) \/ PromptResolves(s) \/ PromptRejects(s)
               \/ Restore(s) \/ Confirm(s) \/ RowBusy(s)

Next == Environment \/ \E s \in Senders : Claim(s) \/ Progress(s) \/ Crash(s)

Spec == Init /\ [][Next]_vars

\* A living attempt goes on, time passes, and the database is opened (or its
\* handle asked for) again and again.
Fairness == WF_vars(ClaimAges) /\ WF_vars(Heal) /\ \A s \in Senders : WF_vars(Progress(s))

FairSpec == Spec /\ Fairness

----------------------------------------------------------------------------
(* Properties *)

\* "Each sender claims pending state with a unique token before sending to
\* prevent duplicate sends": senders that overlap, fail and retry never put a
\* second message into a cycle; every duplicate is paid for by a fault that
\* struck a sender between its claim and its confirmation.
SentOncePerCycle == sends <= 1 + Total

\* The cycle is consumed only by a message of this cycle: with every fault
\* allowed, a slow sender never confirms a claim that was healed and is
\* another sender's now, or none.
DeliveredWasSent == state = "delivered" => sends >= 1

\* "fresh claims are left alone so a sibling process boot cannot steal a live
\* in-flight delivery": crashes, rejected sends and busy rows of other senders
\* never cost a sender the claim it is delivering under.
InFlightKeepsClaim ==
    faults["stall"] = 0 /\ faults["off"] = 0 =>
        \A s \in Senders : pc[s] # "idle" => state = "claimed" /\ token = s

\* A claim never wedges the nudge: it is confirmed, given back or healed.
ClaimsEnd == state = "claimed" ~> state # "claimed"

\* "stale/legacy claims rewind to 'pending'": a claim that is given up without
\* a delivery leaves the nudge to be delivered.
StaleClaimIsPendingAgain ==
    [][state = "claimed" /\ stale /\ state' # "claimed" => state' \in {"pending", "delivered"}]_vars

=============================================================================
