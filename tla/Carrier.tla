------------------------------- MODULE Carrier -------------------------------
(***************************************************************************)
(* The DNS carrier of the Noise server (src/unnamed/part_000): recvLoop    *)
(* and sendLoop, the bounded channel ch between them, the per-client       *)
(* queues of turbotunnel.QueuePacketConn they share with KCP, and the      *)
(* lifecycle of run/loop around them.  KCP is the environment: it writes   *)
(* downstream packets into a client's outgoing queue and reads upstream    *)
(* packets from the incoming queues.  Time is abstracted: the response     *)
(* timer may fire at any moment sendLoop waits on it.                      *)
(***************************************************************************)
EXTENDS Integers, Sequences, FiniteSets

CONSTANTS
    Clients,       \* ClientIDs of the DNS clients
    ZeroClientID,  \* the zero turbotunnel.ClientID error responses carry
    Queries,       \* the queries (ResponseFor query records) clients send
    SmallLens,     \* lengths, besides a full MTU, of the packets KCP writes
    ChanCap,       \* capacity of ch (100 in the code)
    QueueCap,      \* capacity of each QueuePacketConn queue
    MaxQueries,    \* bound on the queries recvLoop reads
    MaxPackets     \* bound on the packets KCP writes

(* responseFor; a query's payload is abstracted to the packets nextPacket *)
(* would pull out of it (the framing is checked in PacketFramer).          *)
RF == INSTANCE ResponseFor WITH ClientIDLen <- 8, Payloads <- {<<>>, <<"u">>}

(* maxEncodedPayload: the bundle capacity of one response.                 *)
MaxEncodedPayload == 930

(* A mutant of KcpMtu: the MTU without room for the length prefix.       *)
KcpMtuNoPrefix == MaxEncodedPayload

(* The KCP MTU acceptSessions sets: 2 bytes for the length prefix.         *)
KcpMtu == MaxEncodedPayload - 2

(* KCP emits packets of any length up to its MTU.                          *)
PacketLens == SmallLens \cup {KcpMtu}

(* What responseFor returns for the queries clients send.                 *)
Responses == {RF!responseFor(q) : q \in Queries}

ASSUME SmallLens \subseteq 1..KcpMtu /\ ChanCap >= 1 /\ QueueCap >= 1

VARIABLES
    ch,          \* the records recvLoop has queued for sendLoop
    chClosed,    \* loop has closed ch (recvLoop returned)
    incoming,    \* QueuePacketConn: per-client queue of upstream packets
    outgoing,    \* QueuePacketConn: per-client queue of downstream packets
    recvAlive,   \* recvLoop is running
    sPc,         \* where sendLoop is: "recv", "poll", "wait", "write", "stopped"
    rec,         \* the record sendLoop is answering
    nextRec,     \* a record received while bundling the previous one
    nextP,       \* a packet that did not fit in the previous bundle
    payload,     \* the bundle being assembled (a sequence of packets)
    limit,       \* bytes left in the bundle
    lastSent,    \* the last datagram sendLoop wrote
    queued,      \* sequence numbers of the records put on ch
    handled,     \* sequence numbers of the records sendLoop has written
    nQueries,    \* queries read so far
    nPackets,    \* packets written by KCP so far
    exited,      \* the process has exited
    exitCode     \* its exit status

vars == <<ch, chClosed, incoming, outgoing, recvAlive, sPc, rec, nextRec, nextP,
          payload, limit, lastSent, queued, handled, nQueries, nPackets,
          exited, exitCode>>

AllIDs == Clients \cup {ZeroClientID}
NoRec == [none |-> TRUE]            \* a nil *record
NoPacket == [none |-> TRUE]         \* a nil []byte
Packet(c, len) == [to |-> c, len |-> len]
Packets == {Packet(c, l) : c \in Clients, l \in PacketLens}

(* Wire size of a bundle of packets, each with its 2-byte length prefix.   *)
RECURSIVE BundleBytes(_)
BundleBytes(s) == IF s = <<>> THEN 0 ELSE 2 + Head(s).len + BundleBytes(Tail(s))

(* Size of the response datagram: 294 bytes for a message with a          *)
(* worst-case Question name, a compressed TXT RR and an OPT RR, plus the   *)
(* TXT RDATA, which EncodeRDataTXT splits into 255-byte character-strings *)
(* each with a length byte (an empty bundle is one empty string).          *)
WireLen(n) == 294 + n + (IF n = 0 THEN 1 ELSE (n + 254) \div 255)

-----------------------------------------------------------------------------
(* turbotunnel.QueuePacketConn (not under src/: modelled from the spec).   *)

(* QueueIncoming: append to the client's incoming queue, drop when full.   *)
QueueIncoming(q, c, ps) ==
    LET RECURSIVE Put(_, _)
        Put(s, rest) == IF rest = <<>> THEN s
                        ELSE Put(IF Len(s) < QueueCap THEN Append(s, Head(rest)) ELSE s,
                                 Tail(rest))
    IN [q EXCEPT ![c] = Put(@, ps)]

(* KCP hands a downstream packet to WriteTo: append it to the client's    *)
(* outgoing queue, drop it when the queue is full.                         *)
KcpWriteTo(c, len) ==
    /\ ~exited /\ nPackets < MaxPackets
    /\ outgoing' = [outgoing EXCEPT ![c] = IF Len(@) < QueueCap
                                          THEN Append(@, Packet(c, len)) ELSE @]
    /\ nPackets' = nPackets + 1
    /\ UNCHANGED <<ch, chClosed, incoming, recvAlive, sPc, rec, nextRec, nextP,
                   payload, limit, lastSent, queued, handled, nQueries, exited, exitCode>>

(* KCP's ReadFrom takes the next upstream packet of some client.           *)
KcpReadFrom(c) ==
    /\ ~exited /\ incoming[c] # <<>>
    /\ incoming' = [incoming EXCEPT ![c] = Tail(@)]
    /\ UNCHANGED <<ch, chClosed, outgoing, recvAlive, sPc, rec, nextRec, nextP,
                   payload, limit, lastSent, queued, handled, nQueries, nPackets,
                   exited, exitCode>>

-----------------------------------------------------------------------------
(* recvLoop: one query read, answered by responseFor, its record offered  *)
(* to ch without blocking (dropped when ch is full), then the packets of   *)
(* its payload queued for KCP under its ClientID.  Temporary ReadFrom      *)
(* errors and unparsable datagrams change no state and are left out.       *)
RecvQuery(r) ==
    /\ recvAlive /\ ~exited /\ nQueries < MaxQueries
    /\ LET record == [resp |-> r.resp, clientID |-> r.clientID, seq |-> nQueries + 1]
           put    == r.resp # RF!Nil /\ Len(ch) < ChanCap
       IN /\ ch' = IF put THEN Append(ch, record) ELSE ch
          /\ queued' = IF put THEN queued \cup {record.seq} ELSE queued
          /\ incoming' = QueueIncoming(incoming, r.clientID, r.payload)
    /\ nQueries' = nQueries + 1
    /\ UNCHANGED <<chClosed, outgoing, recvAlive, sPc, rec, nextRec, nextP, payload,
                   limit, lastSent, handled, nPackets, exited, exitCode>>

(* A permanent ReadFrom error: recvLoop returns it and loop's deferred    *)
(* close(ch) runs.                                                         *)
RecvFatal ==
    /\ recvAlive /\ ~exited
    /\ recvAlive' = FALSE
    /\ chClosed' = TRUE
    /\ UNCHANGED <<ch, incoming, outgoing, sPc, rec, nextRec, nextP, payload, limit,
                   lastSent, queued, handled, nQueries, nPackets, exited, exitCode>>

(* loop has returned: the goroutine in run logs the error and calls        *)
(* wg.Done, wg.Wait returns, run returns nil and main returns.             *)
ServerExit ==
    /\ ~recvAlive /\ ~exited
    /\ exited' = TRUE
    /\ exitCode' = 0
    /\ UNCHANGED <<ch, chClosed, incoming, outgoing, recvAlive, sPc, rec, nextRec, nextP,
                   payload, limit, lastSent, queued, handled, nQueries, nPackets>>

-----------------------------------------------------------------------------
(* sendLoop.  A response gets an Answer when its header RCODE is NOERROR   *)
(* and it has one Question.                                                *)
Answering(r) == RF!Rcode(r.resp) = RF!RcodeNoError /\ Len(r.resp.question) = 1

(* Top of the loop: take nextRec, or receive from ch; set up the answer,   *)
(* emitting any leftover nextP first without a length check, and start    *)
(* the timer.                                                              *)
(* A mutant of TakeRecord: the leftover packet is emitted but limit is     *)
(* not charged for it.                                                     *)
TakeRecordNoLimitForNextP(r) ==
    /\ rec' = r
    /\ nextRec' = NoRec
    /\ IF Answering(r)
       THEN /\ payload' = IF nextP = NoPacket THEN <<>> ELSE <<nextP>>
            /\ limit' = MaxEncodedPayload
            /\ nextP' = NoPacket
            /\ sPc' = "poll"
       ELSE /\ payload' = <<>>
            /\ sPc' = "write"
            /\ UNCHANGED <<limit, nextP>>

TakeRecord(r) ==
    /\ rec' = r
    /\ nextRec' = NoRec
    /\ IF Answering(r)
       THEN /\ payload' = IF nextP = NoPacket THEN <<>> ELSE <<nextP>>
            /\ limit' = MaxEncodedPayload - (IF nextP = NoPacket THEN 0 ELSE 2 + nextP.len)
            /\ nextP' = NoPacket
            /\ sPc' = "poll"
       ELSE /\ payload' = <<>>
            /\ sPc' = "write"
            /\ UNCHANGED <<limit, nextP>>

(* A mutant of SendRecv: the top of the loop always receives from ch and   *)
(* forgets a record stashed in nextRec.                                    *)
SendRecvDropsNextRec ==
    /\ ~exited /\ sPc = "recv" /\ ch # <<>>
    /\ TakeRecord(Head(ch))
    /\ ch' = Tail(ch)
    /\ UNCHANGED <<chClosed, incoming, outgoing, recvAlive, lastSent, queued, handled,
                   nQueries, nPackets, exited, exitCode>>

SendRecv ==
    /\ ~exited /\ sPc = "recv"
    /\ \/ /\ nextRec # NoRec
          /\ TakeRecord(nextRec)
          /\ UNCHANGED ch
       \/ /\ nextRec = NoRec /\ ch # <<>>
          /\ TakeRecord(Head(ch))
          /\ ch' = Tail(ch)
    /\ UNCHANGED <<chClosed, incoming, outgoing, recvAlive, lastSent, queued, handled,
                   nQueries, nPackets, exited, exitCode>>

(* ch is closed and drained: sendLoop returns nil.                         *)
SendReturn ==
    /\ ~exited /\ sPc = "recv" /\ nextRec = NoRec /\ ch = <<>> /\ chClosed
    /\ sPc' = "stopped"
    /\ UNCHANGED <<ch, chClosed, incoming, outgoing, recvAlive, rec, nextRec, nextP,
                   payload, limit, lastSent, queued, handled, nQueries, nPackets,
                   exited, exitCode>>

(* The outer select finds a packet in the client's outgoing queue: stash  *)
(* it in nextP and stop if it does not fit, else append it.                *)
BundlePacket ==
    /\ ~exited /\ sPc = "poll" /\ outgoing[rec.clientID] # <<>>
    /\ LET p == Head(outgoing[rec.clientID]) IN
         IF 2 + p.len > limit
         THEN /\ nextP' = p
              /\ sPc' = "write"
              /\ UNCHANGED <<payload, limit>>
         ELSE /\ payload' = Append(payload, p)
              /\ limit' = limit - (2 + p.len)
              /\ UNCHANGED <<nextP, sPc>>
    /\ outgoing' = [outgoing EXCEPT ![rec.clientID] = Tail(@)]
    /\ UNCHANGED <<ch, chClosed, incoming, recvAlive, rec, nextRec, lastSent, queued,
                   handled, nQueries, nPackets, exited, exitCode>>

(* The outer select takes its default branch: nothing queued right now.    *)
BundleNoPacket ==
    /\ ~exited /\ sPc = "poll" /\ outgoing[rec.clientID] = <<>>
    /\ sPc' = "wait"
    /\ UNCHANGED <<ch, chClosed, incoming, outgoing, recvAlive, rec, nextRec, nextP,
                   payload, limit, lastSent, queued, handled, nQueries, nPackets,
                   exited, exitCode>>

(* The inner select receives the next record (nil once ch is closed).      *)
WaitNextRec ==
    /\ ~exited /\ sPc = "wait"
    /\ \/ /\ ch # <<>>
          /\ nextRec' = Head(ch)
          /\ ch' = Tail(ch)
       \/ /\ ch = <<>> /\ chClosed
          /\ UNCHANGED <<nextRec, ch>>
    /\ sPc' = "write"
    /\ UNCHANGED <<chClosed, incoming, outgoing, recvAlive, rec, nextP, payload, limit,
                   lastSent, queued, handled, nQueries, nPackets, exited, exitCode>>

(* The inner select sees the timer fire.                                   *)
WaitTimer ==
    /\ ~exited /\ sPc = "wait"
    /\ sPc' = "write"
    /\ UNCHANGED <<ch, chClosed, incoming, outgoing, recvAlive, rec, nextRec, nextP,
                   payload, limit, lastSent, queued, handled, nQueries, nPackets,
                   exited, exitCode>>

(* The datagram sendLoop writes for rec: the bundle as TXT RDATA,         *)
(* truncated to maxUDPPayload with TC set when it is longer.               *)
Datagram(r, bundle) ==
    [client |-> r.clientID, seq |-> r.seq, ercode |-> RF!ExtendedRcode(r.resp),
     answer |-> Answering(r), bundle |-> bundle,
     tc     |-> Answering(r) /\ WireLen(BundleBytes(bundle)) > RF!MaxUDPPayload]

(* WireFormat and WriteTo: written, a temporary error (logged, the loop    *)
(* goes on) or a permanent error (sendLoop returns it).                    *)
WriteResponse(outcome) ==
    /\ ~exited /\ sPc = "write"
    /\ lastSent' = IF outcome = "ok" THEN Datagram(rec, payload) ELSE lastSent
    /\ handled' = IF outcome = "fatal" THEN handled ELSE handled \cup {rec.seq}
    /\ sPc' = IF outcome = "fatal" THEN "stopped" ELSE "recv"
    /\ rec' = NoRec
    /\ payload' = <<>>
    /\ UNCHANGED <<ch, chClosed, incoming, outgoing, recvAlive, nextRec, nextP, limit,
                   queued, nQueries, nPackets, exited, exitCode>>

-----------------------------------------------------------------------------
Init ==
    /\ ch = <<>> /\ chClosed = FALSE
    /\ incoming = [c \in AllIDs |-> <<>>]
    /\ outgoing = [c \in AllIDs |-> <<>>]
    /\ recvAlive = TRUE
    /\ sPc = "recv" /\ rec = NoRec /\ nextRec = NoRec /\ nextP = NoPacket
    /\ payload = <<>> /\ limit = MaxEncodedPayload
    /\ lastSent = NoRec
    /\ queued = {} /\ handled = {}
    /\ nQueries = 0 /\ nPackets = 0
    /\ exited = FALSE /\ exitCode = 0

SendLoopStep ==
    \/ SendRecv \/ SendReturn \/ BundlePacket \/ BundleNoPacket
    \/ WaitNextRec \/ WaitTimer \/ \E o \in {"ok", "temporary", "fatal"} : WriteResponse(o)

Next ==
    \/ \E r \in Responses : RecvQuery(r)
    \/ RecvFatal
    \/ ServerExit
    \/ SendLoopStep
    \/ \E c \in Clients, l \in PacketLens : KcpWriteTo(c, l)
    \/ \E c \in AllIDs : KcpReadFrom(c)

(* sendLoop and main are goroutines the Go scheduler keeps running, and    *)
(* the response timer always fires; queries, KCP traffic and I/O errors    *)
(* come from the environment and are not assumed to happen.                *)
Spec == Init /\ [][Next]_vars /\ WF_vars(SendLoopStep) /\ WF_vars(ServerExit)

-----------------------------------------------------------------------------
IsRecord(x) ==
    /\ DOMAIN x = {"resp", "clientID", "seq"}
    /\ \E r \in Responses : r.resp = x.resp
    /\ x.clientID \in AllIDs /\ x.seq \in 1..MaxQueries

TypeOK ==
    /\ \A i \in DOMAIN ch : IsRecord(ch[i])
    /\ Len(ch) <= ChanCap /\ chClosed \in BOOLEAN
    /\ incoming \in [AllIDs -> Seq({"u"})] /\ outgoing \in [AllIDs -> Seq(Packets)]
    /\ sPc \in {"recv", "poll", "wait", "write", "stopped"}
    /\ rec = NoRec \/ IsRecord(rec)
    /\ nextRec = NoRec \/ IsRecord(nextRec)
    /\ nextP = NoPacket \/ nextP \in Packets
    /\ payload \in Seq(Packets)
    /\ limit \in 0..MaxEncodedPayload
    /\ queued \subseteq 1..MaxQueries /\ handled \subseteq queued
    /\ exited \in BOOLEAN /\ exitCode \in Int

(* Every TXT answer sendLoop writes carries at most maxEncodedPayload      *)
(* bytes of bundle, so it is never truncated: the leftover nextP, emitted  *)
(* without a length check, always fits because KCP's MTU leaves room for   *)
(* its length prefix, and every later packet is checked against limit.     *)
AnswerWithinBudget ==
    lastSent # NoRec /\ lastSent.answer =>
        BundleBytes(lastSent.bundle) <= MaxEncodedPayload /\ ~lastSent.tc

(* Refinement mapping onto ResponseChannel: the records sendLoop holds or  *)
(* has still to receive, oldest first, are the one it is answering, the   *)
(* nextRec it received while bundling that one, and those on ch.           *)
InFlight ==
    LET held == SelectSeq(<<rec, nextRec>>, LAMBDA r : r # NoRec)
    IN [i \in 1..Len(held) |-> held[i].seq] \o [i \in 1..Len(ch) |-> ch[i].seq]

SendLoopEnded == sPc = "stopped" \/ exited

RC == INSTANCE ResponseChannel
        WITH Seqs <- 1..MaxQueries,
             pending <- IF SendLoopEnded THEN <<>> ELSE InFlight,
             delivered <- handled,
             stopped <- SendLoopEnded

(* recvLoop, ch and sendLoop's nextRec hand-over implement a FIFO channel  *)
(* of records: each record put on ch, including one taken as nextRec while *)
(* another was bundled, is answered exactly once, in the order of the      *)
(* queries, and eventually, unless sendLoop returns or the process exits.  *)
ImplementsResponseChannel == RC!Spec

(* sendLoop fills the Answer section only of a response whose full RCODE   *)
(* is NOERROR: an error response (BADVERS included) carries no downstream  *)
(* data.                                                                   *)
AnswerOnlyForNoError ==
    lastSent # NoRec /\ lastSent.answer => lastSent.ercode = RF!RcodeNoError

(* Every packet a response carries was written by KCP for the ClientID    *)
(* the response answers.                                                   *)
PacketsReachTheirClient ==
    lastSent # NoRec => \A i \in DOMAIN lastSent.bundle : lastSent.bundle[i].to = lastSent.client

(* sendLoop waits for the first packet of a bundle ("We wait for the      *)
(* first packet in a bundle only"): the response timer never ends a wait   *)
(* that has bundled nothing while a packet for the client sits in its      *)
(* outgoing queue.  A select that also listened on the outgoing queue      *)
(* would have been woken by the packet's arrival before the timer fired.   *)
FirstPacketWaitedFor ==
    [][WaitTimer /\ payload = <<>> => outgoing[rec.clientID] = <<>>]_vars

(* A fatal datagram I/O error, a permanent ReadFrom error ending recvLoop *)
(* or a permanent WriteTo error ending sendLoop, propagates out of loop   *)
(* and ends the server with a non-zero exit status (spec.md: "Fatal       *)
(* datagram I/O errors: propagate out of the loop; the server exits";      *)
(* "non-zero on fatal runtime error").                                     *)
FatalErrorEndsServer == (sPc = "stopped" \/ ~recvAlive) ~> (exited /\ exitCode # 0)

====
