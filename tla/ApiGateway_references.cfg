SPECIFICATION Spec
SYMMETRY Symmetry
CONSTANTS
    Subscriptions = {b1}
    Services = {s1, s2}
    Routes = {r1}
    Oidcs = {o1}
    Users = {u1, u2}
    Groups = {g1, g2}
    Domains = {d1}
    Certificates = {k1, k2}
    Names = {n1, n2}
    HostNames = {h1}
    Credentials = {w1}
    Requests = {q1}
    None = None
    MaxSubscriptions = 1
    MaxMade = 6
INVARIANTS TypeOK ReferencesSound BadGatewayOnlyIfGone
PROPERTIES AdmittedByLiveGroup
CHECK_DEADLOCK FALSE
