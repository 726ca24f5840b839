-------------------------------- MODULE Bridge --------------------------------
(***************************************************************************)
(* The session fabric and the upstream bridge of both servers: in         *)
(* src/dnstt-server/main.go and src/unnamed/part_000 acceptSessions takes  *)
(* KCP sessions, acceptStreams (after a Noise handshake, in the Noise      *)
(* server) runs an smux server on each and starts a goroutine per          *)
(* stream, and handleStream dials the upstream and runs two io.Copy        *)
(* goroutines joined by a WaitGroup.  Data is abstracted to whether a peer *)
(* has bytes pending.  A copy's write blocks until its destination takes   *)
(* the bytes (smux's window or TCP's), or fails.  The peers (the client's  *)
(* end of each stream, the upstream server), their reading and the death   *)
(* of a session are the environment.                                       *)
(***************************************************************************)
EXTENDS FiniteSets

CONSTANTS
    Sessions,   \* KCP sessions (conversations) clients open
    Streams,    \* smux streams clients open
    Owner,      \* Owner[st]: the session stream st belongs to
    NoiseSessions \* sessions served by the Noise server's acceptStreams

ASSUME Owner \in [Streams -> Sessions] /\ NoiseSessions \subseteq Sessions

VARIABLES
    sess,         \* sess[s]: "unborn", "alive" or "dead" (smux session / KCP conn)
    fab,          \* fab[s]: acceptStreams for s: "none", "handshake", "serving", "returned"
    bPc,          \* bPc[st]: handleStream: "none", "dial", "copy", "done"
    up,           \* up[st]: the io.Copy(stream, conn) goroutine: "run" (reading),
                  \*   "write" (blocked writing what it read), "done"
    down,         \* down[st]: the io.Copy(conn, stream) goroutine: likewise
    streamClosed, \* stream.Close has been called on st
    connClosed,   \* conn.Close has been called on st's TCP connection
    upData,       \* the upstream has bytes for st not yet read
    upFin,        \* the upstream has closed its end of st's connection
    clientData,   \* the client has bytes on st not yet read
    clientFin     \* the client has closed st

vars == <<sess, fab, bPc, up, down, streamClosed, connClosed, upData, upFin,
          clientData, clientFin>>

StreamsOf(s) == {st \in Streams : Owner[st] = s}

(* smux stream and TCP semantics (not under src/: modelled from the spec  *)
(* and the libraries' documented behaviour).  A stream is dead once it is  *)
(* closed locally or its session is gone; smux v2 has no half-close, so a  *)
(* write after the client's FIN fails.  A read of a closed TCP connection  *)
(* fails; a peer's FIN reads as EOF once its data is read.                 *)
StreamDead(st) == streamClosed[st] \/ sess[Owner[st]] = "dead"
StreamWritable(st) == ~StreamDead(st) /\ ~clientFin[st]

-----------------------------------------------------------------------------
(* acceptSessions: AcceptKCP returns a session; stream mode, no congestion *)
(* window and the MTU are set and acceptStreams starts on it.  smux.Server *)
(* cannot fail with the fixed configuration, and AcceptKCP has no deadline *)
(* to make it fail temporarily.                                            *)
AcceptSession(s) ==
    /\ sess[s] = "unborn"
    /\ sess' = [sess EXCEPT ![s] = "alive"]
    /\ fab' = [fab EXCEPT ![s] = IF s \in NoiseSessions THEN "handshake" ELSE "serving"]
    /\ UNCHANGED <<bPc, up, down, streamClosed, connClosed, upData, upFin, clientData, clientFin>>

(* The Noise server's acceptStreams first runs noise.NewServer, which      *)
(* reads the client's handshake message from the KCP conn.  On an error    *)
(* acceptStreams returns and acceptSessions' deferred conn.Close ends the *)
(* session; on success smux starts.  The step is the client's to take: no *)
(* deadline bounds the read, and smux's keepalive does not run yet.        *)
NoiseHandshake(s, ok) ==
    /\ fab[s] = "handshake"
    /\ fab' = [fab EXCEPT ![s] = IF ok THEN "serving" ELSE "returned"]
    /\ sess' = [sess EXCEPT ![s] = IF ok THEN "alive" ELSE "dead"]
    /\ UNCHANGED <<bPc, up, down, streamClosed, connClosed, upData, upFin, clientData, clientFin>>

(* acceptStreams: AcceptStream returns a stream the client opened and a    *)
(* goroutine runs handleStream on it.                                      *)
AcceptStream(st) ==
    /\ fab[Owner[st]] = "serving" /\ sess[Owner[st]] = "alive" /\ bPc[st] = "none"
    /\ bPc' = [bPc EXCEPT ![st] = "dial"]
    /\ UNCHANGED <<sess, fab, up, down, streamClosed, connClosed, upData, upFin,
                   clientData, clientFin>>

(* AcceptStream fails (not temporarily) once the session is gone:          *)
(* acceptStreams returns and its deferred conn.Close runs.                 *)
AcceptStreamsReturn(s) ==
    /\ fab[s] = "serving" /\ sess[s] = "dead"
    /\ fab' = [fab EXCEPT ![s] = "returned"]
    /\ UNCHANGED <<sess, bPc, up, down, streamClosed, connClosed, upData, upFin,
                   clientData, clientFin>>

(* handleStream dials the upstream.  On failure it returns the error and   *)
(* the goroutine's deferred stream.Close runs; on success both copies      *)
(* start.                                                                  *)
Dial(st, ok) ==
    /\ bPc[st] = "dial"
    /\ IF ok
       THEN /\ bPc' = [bPc EXCEPT ![st] = "copy"]
            /\ up' = [up EXCEPT ![st] = "run"]
            /\ down' = [down EXCEPT ![st] = "run"]
            /\ UNCHANGED streamClosed
       ELSE /\ bPc' = [bPc EXCEPT ![st] = "done"]
            /\ streamClosed' = [streamClosed EXCEPT ![st] = TRUE]
            /\ UNCHANGED <<up, down>>
    /\ UNCHANGED <<sess, fab, connClosed, upData, upFin, clientData, clientFin>>

(* A mutant of CopyUp: the goroutine ends without stream.Close.            *)
CopyUpNoClose(st) ==
    /\ up[st] = "run"
    /\ connClosed[st] \/ upData[st] \/ upFin[st]
    /\ LET ends == connClosed[st] \/ ~upData[st] IN
       /\ up' = [up EXCEPT ![st] = IF ends THEN "done" ELSE "write"]
       /\ upData' = [upData EXCEPT ![st] = connClosed[st] /\ @]
       /\ UNCHANGED streamClosed
    /\ UNCHANGED <<sess, fab, bPc, down, connClosed, upFin, clientData, clientFin>>

(* The read of io.Copy(stream, conn): it fails once the connection is    *)
(* closed, returns the upstream's bytes, or EOF after its FIN.  When the   *)
(* copy ends the goroutine calls stream.Close.                             *)
CopyUp(st) ==
    /\ up[st] = "run"
    /\ connClosed[st] \/ upData[st] \/ upFin[st]
    /\ LET ends == connClosed[st] \/ ~upData[st] IN
       /\ up' = [up EXCEPT ![st] = IF ends THEN "done" ELSE "write"]
       /\ upData' = [upData EXCEPT ![st] = connClosed[st] /\ @]
       /\ streamClosed' = [streamClosed EXCEPT ![st] = @ \/ ends]
    /\ UNCHANGED <<sess, fab, bPc, down, connClosed, upFin, clientData, clientFin>>

(* The write of io.Copy(stream, conn) blocks in smux's writeV2 until the  *)
(* client takes the bytes (ClientReads); it fails once the stream is dead  *)
(* or the client's FIN has arrived, and the goroutine calls stream.Close. *)
CopyUpWrite(st) ==
    /\ up[st] = "write" /\ ~StreamWritable(st)
    /\ up' = [up EXCEPT ![st] = "done"]
    /\ streamClosed' = [streamClosed EXCEPT ![st] = TRUE]
    /\ UNCHANGED <<sess, fab, bPc, down, connClosed, upData, upFin, clientData, clientFin>>

(* A mutant of CopyDown: the goroutine ends without conn.Close.            *)
CopyDownNoClose(st) ==
    /\ down[st] = "run"
    /\ StreamDead(st) \/ clientData[st] \/ clientFin[st]
    /\ LET ends == StreamDead(st) \/ ~clientData[st] IN
       /\ down' = [down EXCEPT ![st] = IF ends THEN "done" ELSE "write"]
       /\ clientData' = [clientData EXCEPT ![st] = StreamDead(st) /\ @]
       /\ UNCHANGED connClosed
    /\ UNCHANGED <<sess, fab, bPc, up, streamClosed, upData, upFin, clientFin>>

(* The read of io.Copy(conn, stream): it fails once the stream is dead,   *)
(* returns the client's bytes, or EOF after its FIN.  When the copy ends   *)
(* the goroutine calls conn.Close.                                         *)
CopyDown(st) ==
    /\ down[st] = "run"
    /\ StreamDead(st) \/ clientData[st] \/ clientFin[st]
    /\ LET ends == StreamDead(st) \/ ~clientData[st] IN
       /\ down' = [down EXCEPT ![st] = IF ends THEN "done" ELSE "write"]
       /\ clientData' = [clientData EXCEPT ![st] = StreamDead(st) /\ @]
       /\ connClosed' = [connClosed EXCEPT ![st] = @ \/ ends]
    /\ UNCHANGED <<sess, fab, bPc, up, streamClosed, upData, upFin, clientFin>>

(* The write of io.Copy(conn, stream) blocks until the upstream reads     *)
(* (UpstreamReads); it fails once the connection is closed, or the        *)
(* upstream has closed its socket (the peer answers with a reset), and the *)
(* goroutine calls conn.Close.                                             *)
CopyDownWrite(st) ==
    /\ down[st] = "write" /\ (connClosed[st] \/ upFin[st])
    /\ down' = [down EXCEPT ![st] = "done"]
    /\ connClosed' = [connClosed EXCEPT ![st] = TRUE]
    /\ UNCHANGED <<sess, fab, bPc, up, streamClosed, upData, upFin, clientData, clientFin>>

(* wg.Wait returns once both copies are done: handleStream returns nil,    *)
(* its deferred conn.Close runs, then the goroutine's stream.Close.        *)
BridgeReturn(st) ==
    /\ bPc[st] = "copy" /\ up[st] = "done" /\ down[st] = "done"
    /\ bPc' = [bPc EXCEPT ![st] = "done"]
    /\ connClosed' = [connClosed EXCEPT ![st] = TRUE]
    /\ streamClosed' = [streamClosed EXCEPT ![st] = TRUE]
    /\ UNCHANGED <<sess, fab, up, down, upData, upFin, clientData, clientFin>>

-----------------------------------------------------------------------------
(* The environment: a session dies (smux keepalive timeout, KCP or the     *)
(* client closing it); the upstream sends bytes or closes; the client      *)
(* sends bytes on a stream or closes it.                                   *)
SessionDies(s) ==
    /\ sess[s] = "alive" /\ fab[s] # "handshake"
    /\ sess' = [sess EXCEPT ![s] = "dead"]
    /\ UNCHANGED <<fab, bPc, up, down, streamClosed, connClosed, upData, upFin,
                   clientData, clientFin>>

UpstreamSends(st) ==
    /\ bPc[st] = "copy" /\ ~connClosed[st] /\ ~upFin[st] /\ ~upData[st]
    /\ upData' = [upData EXCEPT ![st] = TRUE]
    /\ UNCHANGED <<sess, fab, bPc, up, down, streamClosed, connClosed, upFin,
                   clientData, clientFin>>

UpstreamCloses(st) ==
    /\ bPc[st] = "copy" /\ ~connClosed[st] /\ ~upFin[st]
    /\ upFin' = [upFin EXCEPT ![st] = TRUE]
    /\ UNCHANGED <<sess, fab, bPc, up, down, streamClosed, connClosed, upData,
                   clientData, clientFin>>

(* The client takes the bytes of a blocked stream write (it reads, and    *)
(* smux returns window); the upstream reads those of a blocked TCP write. *)
ClientReads(st) ==
    /\ up[st] = "write" /\ StreamWritable(st)
    /\ up' = [up EXCEPT ![st] = "run"]
    /\ UNCHANGED <<sess, fab, bPc, down, streamClosed, connClosed, upData, upFin,
                   clientData, clientFin>>

UpstreamReads(st) ==
    /\ down[st] = "write" /\ ~connClosed[st] /\ ~upFin[st]
    /\ down' = [down EXCEPT ![st] = "run"]
    /\ UNCHANGED <<sess, fab, bPc, up, streamClosed, connClosed, upData, upFin,
                   clientData, clientFin>>

ClientSends(st) ==
    /\ bPc[st] # "none" /\ ~StreamDead(st) /\ ~clientFin[st] /\ ~clientData[st]
    /\ clientData' = [clientData EXCEPT ![st] = TRUE]
    /\ UNCHANGED <<sess, fab, bPc, up, down, streamClosed, connClosed, upData, upFin,
                   clientFin>>

ClientCloses(st) ==
    /\ bPc[st] # "none" /\ ~StreamDead(st) /\ ~clientFin[st]
    /\ clientFin' = [clientFin EXCEPT ![st] = TRUE]
    /\ UNCHANGED <<sess, fab, bPc, up, down, streamClosed, connClosed, upData, upFin,
                   clientData>>

-----------------------------------------------------------------------------
Init ==
    /\ sess = [s \in Sessions |-> "unborn"] /\ fab = [s \in Sessions |-> "none"]
    /\ bPc = [st \in Streams |-> "none"]
    /\ up = [st \in Streams |-> "run"] /\ down = [st \in Streams |-> "run"]
    /\ streamClosed = [st \in Streams |-> FALSE] /\ connClosed = [st \in Streams |-> FALSE]
    /\ upData = [st \in Streams |-> FALSE] /\ upFin = [st \in Streams |-> FALSE]
    /\ clientData = [st \in Streams |-> FALSE] /\ clientFin = [st \in Streams |-> FALSE]

(* The goroutines' steps, for stream st.                                   *)
CopyStep(st) ==
    CopyUp(st) \/ CopyUpWrite(st) \/ CopyDown(st) \/ CopyDownWrite(st) \/ BridgeReturn(st)

Next ==
    \/ \E s \in Sessions : AcceptSession(s) \/ AcceptStreamsReturn(s) \/ SessionDies(s)
    \/ \E s \in NoiseSessions, ok \in BOOLEAN : NoiseHandshake(s, ok)
    \/ \E st \in Streams :
          \/ AcceptStream(st) \/ Dial(st, TRUE) \/ Dial(st, FALSE) \/ CopyStep(st)
          \/ UpstreamSends(st) \/ UpstreamCloses(st) \/ ClientSends(st) \/ ClientCloses(st)
          \/ ClientReads(st) \/ UpstreamReads(st)

(* Every goroutine the code starts is scheduled: the dial completes (or   *)
(* times out), each copy takes its next enabled step, and acceptStreams    *)
(* sees a dead session.  The peers and the sessions owe nothing.          *)
Fairness ==
    /\ \A s \in Sessions : WF_vars(AcceptStreamsReturn(s))
    /\ \A st \in Streams : /\ WF_vars(Dial(st, TRUE) \/ Dial(st, FALSE))
                           /\ WF_vars(CopyUp(st)) /\ WF_vars(CopyDown(st))
                           /\ WF_vars(CopyUpWrite(st)) /\ WF_vars(CopyDownWrite(st))
                           /\ WF_vars(BridgeReturn(st))

Spec == Init /\ [][Next]_vars /\ Fairness

(* An assumption about the peers, not a guarantee of the code: a peer that *)
(* has not closed its end keeps reading what the bridge writes to it.     *)
PeersKeepReading ==
    \A st \in Streams : WF_vars(ClientReads(st)) /\ WF_vars(UpstreamReads(st))

-----------------------------------------------------------------------------
(* Once either peer of a bridged stream closes its end, handleStream       *)
(* returns: each copy's Close of its destination unblocks the other copy,  *)
(* so neither goroutine is left reading a peer that stays silent.  This    *)
(* needs the other peer to keep reading: a copy blocked writing to a peer  *)
(* that does not read never sees the close.                               *)
BridgeEndsOnPeerClose ==
    PeersKeepReading =>
        \A st \in Streams :
            (bPc[st] = "copy" /\ (upFin[st] \/ clientFin[st])) ~> (bPc[st] = "done")

(* Once a session is gone, acceptStreams returns and every stream of the   *)
(* session that was accepted has its bridge end, even if the upstream     *)
(* never sends or closes, as long as it keeps reading: a copy blocked     *)
(* writing to an upstream that does not read is not woken by the session. *)
SessionDeathEndsItsBridges ==
    PeersKeepReading =>
        \A s \in Sessions :
            (sess[s] = "dead") ~>
                (/\ fab[s] = "returned"
                 /\ \A st \in StreamsOf(s) : bPc[st] \in {"none", "done"})

==============================================================================
