SPECIFICATION Spec
CONSTANTS
    s1 = s1  s2 = s2  p1 = p1  p2 = p2  r1 = r1  r2 = r2
    None = None
    Metrics = metrics
    SessionIds = {s1, s2}
    PeerConnectionIds = {p1}
    Requests = {r1, r2}
    Workers = 3
    SessionShard <- SessionsApart
    PeerShard <- PeersTogether
    Ops = {"create_session", "create_peer_connection", "add_track", "observer"}
    Pollings = {1}
    LogLevels = {"None"}
    MaxCreates <- EachCreates
    Period = 1
SYMMETRY RequestSymmetry
PROPERTIES UsedDataStable LinearizableService
