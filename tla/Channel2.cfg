SPECIFICATION FairSpec
CONSTANTS
    Senders = {s1, s2, s3}
    Nobody = Nobody
    Orphan = Orphan
    MaxFaults = 2
    Subagent = TRUE
    Faults = {"crash", "stall", "lostReply", "busy", "off"}
INVARIANTS SentOncePerCycle InFlightKeepsClaim DeliveredWasSent
PROPERTIES ClaimsEnd
