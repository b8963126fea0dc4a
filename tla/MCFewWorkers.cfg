SPECIFICATION FairSpec
CONSTANTS
    s1 = s1  s2 = s2  p1 = p1  p2 = p2  r1 = r1  r2 = r2
    None = None
    Metrics = metrics
    SessionIds = {s1}
    PeerConnectionIds = {p1}
    Requests = {r1, r2}
    Workers = 2
    SessionShard <- SessionsTogether
    PeerShard <- PeersTogether
    Ops = {"create_session", "start_session", "create_peer_connection", "create_offer"}
    Pollings = {1}
    LogLevels = {"None"}
    MaxCreates <- EachCreates
    Period = 1
PROPERTIES SessionCanBeStartedWhenQuiet
CHECK_DEADLOCK FALSE
