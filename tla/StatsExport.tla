---------------------------- MODULE StatsExport ----------------------------
(***************************************************************************)
(* One peer connection as the metrics collection sees it: each pass gets   *)
(* the stats of its receivers and senders from libwebrtc, derives the send *)
(* and the receive state from them if the pass polls the state, and writes *)
(* gauges to statsd over UDP.                                              *)
(***************************************************************************)
EXTENDS Naturals, FiniteSets

CONSTANTS
    Senders,     \* the video senders the peer connection may get
    Receivers,   \* the video receivers it may get
    MaxBytes     \* bound: the bytes each of them transfers

Streams == Senders \cup Receivers

ASSUME StatsExportAssumption == MaxBytes \in Nat /\ Senders \cap Receivers = {}

VARIABLES
    tracks,  \* the streams that exist
    bytes,   \* the counter of each stream inside libwebrtc
    report,  \* the counters in the stats that export_stats last got
    polled,  \* history: those it got in the last pass that polls the state
    before,  \* history: those of the pass before that polls the state
    pending, \* the stats of report that are still to be looked at
    poll,    \* should_poll_state of the pass
    state,   \* PeerConnectionState: is it moving, with the bytes in it
    gauges,  \* the counters that statsd knows of
    lost     \* history: the streams whose datagram of the pass was lost

statsVars == <<report, polled, before, poll>>
vars == <<tracks, bytes, statsVars, pending, state, gauges, lost>>

Zero == [x \in Streams |-> 0]
Fields == {"video_send", "video_receive"}
StreamsOf(f) == IF f = "video_send" THEN Senders ELSE Receivers

Init ==
    /\ tracks = {}
    /\ bytes = Zero /\ report = Zero /\ polled = Zero /\ before = Zero
    /\ pending = {}
    /\ poll = FALSE
    /\ state = [f \in Fields |-> [moving |-> FALSE, bytes |-> 0]]
    /\ gauges = Zero
    /\ lost = {}

\* add_track and add_transceiver make senders, the remote peer makes receivers.
AddTrack(x) ==
    /\ x \notin tracks
    /\ tracks' = tracks \cup {x}
    /\ UNCHANGED <<bytes, statsVars, pending, state, gauges, lost>>

\* libwebrtc transfers frames, also while the stats are being looked at.
Transfer(x) ==
    /\ x \in tracks
    /\ bytes[x] < MaxBytes
    /\ bytes' = [bytes EXCEPT ![x] = @ + 1]
    /\ UNCHANGED <<tracks, statsVars, pending, state, gauges, lost>>

\* A pass gets the stats of all streams; when it does not, it changes nothing.
GetStats ==
    /\ pending = {}
    /\ report' = bytes
    /\ pending' = tracks
    /\ lost' = {}
    /\ \/ poll' = FALSE /\ UNCHANGED <<polled, before>>
       \/ poll' = TRUE /\ polled' = bytes /\ before' = polled
    /\ UNCHANGED <<tracks, bytes, state, gauges>>

\* is_sending, is_receiving
IsMoving(f, b) == b > state[f].bytes

\* set_send_state, set_receive_state
SetState(f, b) ==
    state' = [state EXCEPT ![f] = [moving |-> IsMoving(f, b), bytes |-> b]]

\* write_video_rx_stats, write_video_tx_stats: errors are ignored, and a datagram
\* may not arrive.
WriteStats_Polled(x) ==
    /\ gauges' = IF poll THEN [gauges EXCEPT ![x] = report[x]] ELSE gauges
    /\ UNCHANGED lost
WriteStats(x) ==
    \/ gauges' = [gauges EXCEPT ![x] = report[x]] /\ UNCHANGED lost
    \/ lost' = lost \cup {x} /\ UNCHANGED gauges

\* The two loops of export_stats, first over the receivers.
ExportStats(f, x) ==
    /\ x \in pending \cap StreamsOf(f)
    /\ f = "video_send" => pending \cap Receivers = {}
    /\ \/ poll /\ SetState(f, report[x])
       \/ ~poll /\ UNCHANGED state
    /\ WriteStats(x)
    /\ pending' = pending \ {x}
    /\ UNCHANGED <<tracks, bytes, statsVars>>

Next ==
    \/ \E x \in Streams : AddTrack(x) \/ Transfer(x)
    \/ GetStats
    \/ \E f \in Fields : \E x \in StreamsOf(f) : ExportStats(f, x)

Spec == Init /\ [][Next]_vars

-----------------------------------------------------------------------------
Counters == [Streams -> 0 .. MaxBytes]

\* The type invariant.
TypeOK ==
    /\ tracks \subseteq Streams
    /\ bytes \in Counters /\ report \in Counters /\ gauges \in Counters
    /\ polled \in Counters /\ before \in Counters
    /\ pending \subseteq tracks
    /\ poll \in BOOLEAN
    /\ state \in [Fields -> [moving : BOOLEAN, bytes : 0 .. MaxBytes]]
    /\ lost \subseteq tracks

\* "Rule: is send if bytes_sent are incrementing", and the same of received
\* bytes: once a pass is done, the state says so exactly if a stream's bytes grew
\* from one polling pass to the next, whatever other passes came in between
\* (set_send_state, set_receive_state).
StateRule ==
    pending = {} => \A f \in Fields :
        state[f].moving <=> \E x \in StreamsOf(f) : polled[x] > before[x]

\* Once a pass is done, statsd has the counters of that pass for every stream
\* whose datagram arrived, whether or not the pass polls the state (export_stats,
\* metrics.rs).
GaugesCurrent ==
    pending = {} => \A x \in Streams \ lost : gauges[x] = report[x]

=============================================================================
