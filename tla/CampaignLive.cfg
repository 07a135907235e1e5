\* One campaign, with recurring boots and a network that lets reports through in the end.
CONSTANTS
    s1 = s1
    s2 = s2
    k1 = k1
    k2 = k2
    NoRecord = NoRecord
    Starts = {s1}
    Campaigns = {k1}
    CampaignOf <- Alone
    Total = 3
    MaxFaults = 0
SPECIFICATION RestartSpec
PROPERTIES ToldRunStops InterruptionReported MeetsContract
