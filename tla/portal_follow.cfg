SPECIFICATION FairSpec
CONSTANTS
    Stations = {s1, s2}
    Nobody = Nobody
    MaxClients = 2
    MaxRequests = 1
    MaxDepartures = 1
PROPERTY FollowerReachesMain
