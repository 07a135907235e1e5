\* Two campaigns, each started once; no write of the file fails.
CONSTANTS
    s1 = s1
    s2 = s2
    k1 = k1
    k2 = k2
    NoRecord = NoRecord
    Starts <- TwoStarts
    Campaigns = {k1, k2}
    CampaignOf <- Distinct
    Total = 1
    MaxFaults = 0
SPECIFICATION Spec
INVARIANTS RecordCoversRun DeathLeavesTrace
