SPECIFICATION FairSpec
CONSTANTS
    s1 = s1  s2 = s2  p1 = p1  p2 = p2  r1 = r1  r2 = r2
    None = None
    Metrics = metrics
    SessionIds = {s1}
    PeerConnectionIds = {p1, p2}
    Requests = {r1, r2}
    Workers = 3
    SessionShard <- SessionsTogether
    PeerShard <- PeersApart
    Ops = {"create_session", "create_peer_connection", "add_track"}
    Pollings = {0, 1}
    LogLevels = {"None"}
    MaxCreates <- OneCreates
    Period = 1
INVARIANTS TypeOK LockDiscipline OnlyPrintsDeadlock SomeoneProceeds
PROPERTIES CallsAnswered StatsCollectedUnlessZero
CHECK_DEADLOCK FALSE
