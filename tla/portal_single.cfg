SPECIFICATION Spec
CONSTANTS
    Stations = {s1, s2}
    Nobody = Nobody
    MaxClients = 1
    MaxRequests = 3
    MaxDepartures = 2
INVARIANT PortalInv
PROPERTY CaptiveUntilEscape
