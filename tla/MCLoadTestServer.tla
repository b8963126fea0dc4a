-------------------------- MODULE MCLoadTestServer --------------------------
(***************************************************************************)
(* Small instances of LoadTestServer for TLC.                              *)
(***************************************************************************)
EXTENDS LoadTestServerProperties, TLC

CONSTANTS s1, s2, p1, p2, r1, r2

\* All sessions, and all peer connections, hash to one shard.
SessionsTogether == [s \in SessionIds |-> 0]
PeersTogether == [p \in PeerConnectionIds |-> 0]

\* Each one hashes to a shard of its own.
SessionsApart == [s \in SessionIds |-> IF s = s1 THEN 0 ELSE 1]
PeersApart == [p \in PeerConnectionIds |-> IF p = p1 THEN 0 ELSE 1]

\* Each request task takes one create_session call, so that sessions are replaced;
\* or only one task takes one.
EachCreates == [t \in Requests |-> 1]
OneCreates == [t \in Requests |-> IF t = r1 THEN 1 ELSE 0]

\* The request tasks are alike (for runs without liveness properties only).
RequestSymmetry == Permutations(Requests)

=============================================================================
