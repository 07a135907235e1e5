\* The same campaign started twice; a write of the in-flight file may fail or be cut short.
CONSTANTS
    s1 = s1
    s2 = s2
    k1 = k1
    k2 = k2
    NoRecord = NoRecord
    Starts <- TwoStarts
    Campaigns = {k1}
    CampaignOf <- Repeated
    Total = 2
    MaxFaults = 1
SPECIFICATION Spec
INVARIANTS AtMostOneSend OneRunPerCampaign HonestRecords SuccessIsWhole
PROPERTIES CancelSticks
SYMMETRY StartSymmetry
