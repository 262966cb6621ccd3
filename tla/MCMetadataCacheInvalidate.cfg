SPECIFICATION Spec
CONSTANTS
    u1 = u1
    u2 = u2
    r1 = r1
    Urns <- OneUrn
    Requests <- OneRequest
    MaxSizes = {2}
    Ttls = {1}
    MaxChanges = 2
    MaxFlight = 1
    Ancient = 4
INVARIANTS InvalidatedIsGone
