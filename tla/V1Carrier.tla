------------------------------ MODULE V1Carrier ------------------------------
(***************************************************************************)
(* The DNS carrier of the first server (src/dnstt-server/main.go): recvLoop*)
(* and sendLoop around the bounded channel ch, the per-client queues of    *)
(* turbotunnel.QueuePacketConn shared with KCP, and run/loop around them.  *)
(* Unlike the Noise server, a bundle's capacity is dnsMessageCapacity of   *)
(* the question name (a 512-byte message), the KCP MTU is that capacity    *)
(* for the longest name with no room for a length prefix, and nothing is   *)
(* truncated.  Time is abstracted: the 2 s timer may fire whenever         *)
(* sendLoop waits on it.                                                   *)
(***************************************************************************)
EXTENDS Integers, Sequences, FiniteSets

CONSTANTS
    Clients,       \* ClientIDs of the DNS clients
    ZeroClientID,  \* the zero turbotunnel.ClientID error responses carry
    Queries,       \* the queries clients send; a question has a nameLen
    SmallLens,     \* lengths, besides a full MTU, of the packets KCP writes
    ChanCap,       \* capacity of ch (100 in the code)
    QueueCap,      \* capacity of each QueuePacketConn queue
    MaxQueries,    \* bound on the queries recvLoop reads
    MaxPackets     \* bound on the packets KCP writes

RF == INSTANCE V1ResponseFor WITH ClientIDLen <- 8, Payloads <- {<<>>, <<"u">>}

(* dnsMessageCapacity: the TXT data that fits in a 512-byte message with   *)
(* the name in the Question and, compressed to a 2-byte pointer, in one    *)
(* TXT RR: header 12, question name + 4, RR 2 + 10; 255/256 for the        *)
(* character-string length bytes.                                          *)
DnsMessageCapacity(nameLen) == ((512 - (12 + nameLen + 4 + 2 + 10)) * 255) \div 256

(* acceptSessions sets the MTU to the capacity for a 255-byte name of four *)
(* labels (63, 63, 63, 61 letters) and panics if it were below 80.         *)
Mtu == DnsMessageCapacity(255)
ASSUME Mtu >= 80

PacketLens == SmallLens \cup {Mtu}

(* The payload size a query's first OPT RR advertises, 512 at least, and   *)
(* 512 without EDNS; responseFor computes it (lines 235-241) and drops it, *)
(* the model keeps it beside the record as a ghost to judge responses by.  *)
RequestorSize(q) ==
    LET opts == SelectSeq(q.additional, LAMBDA rr : rr.type = RF!R!RRTypeOPT)
    IN IF opts = <<>> \/ opts[1].class < 512 THEN 512 ELSE opts[1].class

Received == {[r |-> RF!responseFor(q), size |-> RequestorSize(q)] : q \in Queries}

ASSUME SmallLens \subseteq 1..Mtu /\ ChanCap >= 1 /\ QueueCap >= 1

VARIABLES
    ch, chClosed,          \* the channel of records and whether loop closed it
    incoming, outgoing,    \* QueuePacketConn's per-client packet queues
    recvAlive,             \* recvLoop is running
    sPc,                   \* sendLoop: "recv", "poll", "wait", "write", "stopped"
    rec, nextRec, nextP,   \* sendLoop's locals of those names
    payload, limit,        \* the bundle being assembled and the bytes left
    lastSent,              \* the last datagram sendLoop wrote
    queued,                \* sequence numbers of the records put on ch
    written,               \* sequence numbers of the records written, in order
    nQueries, nPackets,    \* queries read and packets written by KCP so far
    exited                 \* the process has exited

vars == <<ch, chClosed, incoming, outgoing, recvAlive, sPc, rec, nextRec, nextP,
          payload, limit, lastSent, queued, written, nQueries, nPackets, exited>>

AllIDs == Clients \cup {ZeroClientID}
NoRec == [none |-> TRUE]
NoPacket == [none |-> TRUE]
Packet(c, len) == [to |-> c, len |-> len]
Packets == {Packet(c, l) : c \in Clients, l \in PacketLens}

RECURSIVE BundleBytes(_)
BundleBytes(s) == IF s = <<>> THEN 0 ELSE 2 + Head(s).len + BundleBytes(Tail(s))

(* WireFormat length of a response: header, Question, the TXT answer (its *)
(* name compressed, RDATA in 255-byte character-strings, an empty bundle  *)
(* one empty string) and the OPT RR echoed into Additional.                *)
TxtLen(n) == n + (IF n = 0 THEN 1 ELSE (n + 254) \div 255)
WireLen(r, bundle, answer) ==
    12 + r.resp.question[1].nameLen + 4
    + (IF answer THEN 12 + TxtLen(BundleBytes(bundle)) ELSE 0)
    + 11 * Len(r.resp.additional)

-----------------------------------------------------------------------------
(* turbotunnel.QueuePacketConn (not under src/: modelled from the spec).   *)
QueueIncoming(q, c, ps) ==
    LET RECURSIVE Put(_, _)
        Put(s, rest) == IF rest = <<>> THEN s
                        ELSE Put(IF Len(s) < QueueCap THEN Append(s, Head(rest)) ELSE s,
                                 Tail(rest))
    IN [q EXCEPT ![c] = Put(@, ps)]

KcpWriteTo(c, len) ==
    /\ ~exited /\ nPackets < MaxPackets
    /\ outgoing' = [outgoing EXCEPT ![c] = IF Len(@) < QueueCap
                                          THEN Append(@, Packet(c, len)) ELSE @]
    /\ nPackets' = nPackets + 1
    /\ UNCHANGED <<ch, chClosed, incoming, recvAlive, sPc, rec, nextRec, nextP,
                   payload, limit, lastSent, queued, written, nQueries, exited>>

KcpReadFrom(c) ==
    /\ ~exited /\ incoming[c] # <<>>
    /\ incoming' = [incoming EXCEPT ![c] = Tail(@)]
    /\ UNCHANGED <<ch, chClosed, outgoing, recvAlive, sPc, rec, nextRec, nextP,
                   payload, limit, lastSent, queued, written, nQueries, nPackets, exited>>

-----------------------------------------------------------------------------
(* recvLoop: a query answered by responseFor, its record offered to ch     *)
(* without blocking, its packets queued for KCP under its ClientID.        *)
RecvQuery(x) ==
    /\ recvAlive /\ ~exited /\ nQueries < MaxQueries
    /\ LET record == [resp |-> x.r.resp, clientID |-> x.r.clientID,
                      seq |-> nQueries + 1, size |-> x.size]
           put    == x.r.resp # RF!R!Nil /\ Len(ch) < ChanCap
       IN /\ ch' = IF put THEN Append(ch, record) ELSE ch
          /\ queued' = IF put THEN queued \cup {record.seq} ELSE queued
          /\ incoming' = QueueIncoming(incoming, x.r.clientID, x.r.payload)
    /\ nQueries' = nQueries + 1
    /\ UNCHANGED <<chClosed, outgoing, recvAlive, sPc, rec, nextRec, nextP, payload,
                   limit, lastSent, written, nPackets, exited>>

(* A permanent ReadFrom error; loop's deferred close(ch) runs.             *)
RecvFatal ==
    /\ recvAlive /\ ~exited
    /\ recvAlive' = FALSE /\ chClosed' = TRUE
    /\ UNCHANGED <<ch, incoming, outgoing, sPc, rec, nextRec, nextP, payload, limit,
                   lastSent, queued, written, nQueries, nPackets, exited>>

(* loop returned: run's wg.Wait returns and run and main return.           *)
ServerExit ==
    /\ ~recvAlive /\ ~exited
    /\ exited' = TRUE
    /\ UNCHANGED <<ch, chClosed, incoming, outgoing, recvAlive, sPc, rec, nextRec, nextP,
                   payload, limit, lastSent, queued, written, nQueries, nPackets>>

-----------------------------------------------------------------------------
(* sendLoop.  A response gets an Answer when its header RCODE is NOERROR   *)
(* and it has one Question.                                                *)
Answering(r) == RF!Answered(r.resp)

(* Top of the loop: set up the answer with limit = dnsMessageCapacity of   *)
(* the question name, emit any leftover nextP first with no length check  *)
(* (charging limit for it) and start the timer.                            *)
TakeRecord(r) ==
    /\ rec' = r
    /\ nextRec' = NoRec
    /\ IF Answering(r)
       THEN /\ payload' = IF nextP = NoPacket THEN <<>> ELSE <<nextP>>
            /\ limit' = DnsMessageCapacity(r.resp.question[1].nameLen)
                        - (IF nextP = NoPacket THEN 0 ELSE 2 + nextP.len)
            /\ nextP' = NoPacket
            /\ sPc' = "poll"
       ELSE /\ payload' = <<>>
            /\ sPc' = "write"
            /\ UNCHANGED <<limit, nextP>>

(* A mutant of SendRecv: a record on ch is taken before the nextRec       *)
(* received while bundling the previous one.                               *)
SendRecvChFirst ==
    /\ ~exited /\ sPc = "recv"
    /\ \/ /\ ch # <<>>
          /\ TakeRecord(Head(ch))
          /\ ch' = IF nextRec = NoRec THEN Tail(ch) ELSE <<nextRec>> \o Tail(ch)
       \/ /\ ch = <<>> /\ nextRec # NoRec
          /\ TakeRecord(nextRec) /\ UNCHANGED ch
    /\ UNCHANGED <<chClosed, incoming, outgoing, recvAlive, lastSent, queued, written,
                   nQueries, nPackets, exited>>

(* A mutant of SendRecv: the top of the loop always receives from ch and   *)
(* forgets a record stashed in nextRec.                                    *)
SendRecvDropsNextRec ==
    /\ ~exited /\ sPc = "recv" /\ ch # <<>>
    /\ TakeRecord(Head(ch)) /\ ch' = Tail(ch)
    /\ UNCHANGED <<chClosed, incoming, outgoing, recvAlive, lastSent, queued, written,
                   nQueries, nPackets, exited>>

(* rec := nextRec, or a receive from ch when there is none.                *)
SendRecv ==
    /\ ~exited /\ sPc = "recv"
    /\ \/ /\ nextRec # NoRec
          /\ TakeRecord(nextRec) /\ UNCHANGED ch
       \/ /\ nextRec = NoRec /\ ch # <<>>
          /\ TakeRecord(Head(ch)) /\ ch' = Tail(ch)
    /\ UNCHANGED <<chClosed, incoming, outgoing, recvAlive, lastSent, queued, written,
                   nQueries, nPackets, exited>>

(* ch is closed and drained: the receive fails and sendLoop returns nil.   *)
SendReturn ==
    /\ ~exited /\ sPc = "recv" /\ nextRec = NoRec /\ ch = <<>> /\ chClosed
    /\ sPc' = "stopped"
    /\ UNCHANGED <<ch, chClosed, incoming, outgoing, recvAlive, rec, nextRec, nextP,
                   payload, limit, lastSent, queued, written, nQueries, nPackets, exited>>

(* The outer select takes a packet of rec's client: stash it in nextP and *)
(* stop when it does not fit, else append it.                              *)
BundlePacket ==
    /\ ~exited /\ sPc = "poll" /\ outgoing[rec.clientID] # <<>>
    /\ LET p == Head(outgoing[rec.clientID]) IN
         IF 2 + p.len > limit
         THEN /\ nextP' = p /\ sPc' = "write"
              /\ UNCHANGED <<payload, limit>>
         ELSE /\ payload' = Append(payload, p) /\ limit' = limit - (2 + p.len)
              /\ UNCHANGED <<nextP, sPc>>
    /\ outgoing' = [outgoing EXCEPT ![rec.clientID] = Tail(@)]
    /\ UNCHANGED <<ch, chClosed, incoming, recvAlive, rec, nextRec, lastSent, queued,
                   written, nQueries, nPackets, exited>>

(* The outer select's default branch: nothing queued right now.            *)
BundleNoPacket ==
    /\ ~exited /\ sPc = "poll" /\ outgoing[rec.clientID] = <<>>
    /\ sPc' = "wait"
    /\ UNCHANGED <<ch, chClosed, incoming, outgoing, recvAlive, rec, nextRec, nextP,
                   payload, limit, lastSent, queued, written, nQueries, nPackets, exited>>

(* The inner select receives the next record into nextRec (nil once ch is *)
(* closed), or the timer fires.                                            *)
WaitNextRec ==
    /\ ~exited /\ sPc = "wait"
    /\ \/ /\ ch # <<>>
          /\ nextRec' = Head(ch) /\ ch' = Tail(ch)
       \/ /\ ch = <<>> /\ chClosed
          /\ UNCHANGED <<nextRec, ch>>
    /\ sPc' = "write"
    /\ UNCHANGED <<chClosed, incoming, outgoing, recvAlive, rec, nextP, payload, limit,
                   lastSent, queued, written, nQueries, nPackets, exited>>

WaitTimer ==
    /\ ~exited /\ sPc = "wait"
    /\ sPc' = "write"
    /\ UNCHANGED <<ch, chClosed, incoming, outgoing, recvAlive, rec, nextRec, nextP,
                   payload, limit, lastSent, queued, written, nQueries, nPackets, exited>>

(* The datagram written for r, with the bundle as TXT RDATA.               *)
Datagram(r, bundle) ==
    [client |-> r.clientID, seq |-> r.seq, answer |-> Answering(r), bundle |-> bundle,
     nameLen |-> r.resp.question[1].nameLen, size |-> r.size,
     wireLen |-> WireLen(r, bundle, Answering(r))]

(* WireFormat and WriteTo: written, a temporary error (logged, the loop    *)
(* goes on) or a permanent error (sendLoop returns it).                    *)
WriteResponse(outcome) ==
    /\ ~exited /\ sPc = "write"
    /\ lastSent' = IF outcome = "ok" THEN Datagram(rec, payload) ELSE lastSent
    /\ written' = IF outcome = "fatal" THEN written ELSE Append(written, rec.seq)
    /\ sPc' = IF outcome = "fatal" THEN "stopped" ELSE "recv"
    /\ rec' = NoRec /\ payload' = <<>>
    /\ UNCHANGED <<ch, chClosed, incoming, outgoing, recvAlive, nextRec, nextP, limit,
                   queued, nQueries, nPackets, exited>>

-----------------------------------------------------------------------------
Init ==
    /\ ch = <<>> /\ chClosed = FALSE
    /\ incoming = [c \in AllIDs |-> <<>>] /\ outgoing = [c \in AllIDs |-> <<>>]
    /\ recvAlive = TRUE
    /\ sPc = "recv" /\ rec = NoRec /\ nextRec = NoRec /\ nextP = NoPacket
    /\ payload = <<>> /\ limit = 0
    /\ lastSent = NoRec /\ queued = {} /\ written = <<>>
    /\ nQueries = 0 /\ nPackets = 0 /\ exited = FALSE

SendLoopStep ==
    \/ SendRecv \/ SendReturn \/ BundlePacket \/ BundleNoPacket
    \/ WaitNextRec \/ WaitTimer \/ \E o \in {"ok", "temporary", "fatal"} : WriteResponse(o)

Next ==
    \/ \E x \in Received : RecvQuery(x)
    \/ RecvFatal
    \/ ServerExit
    \/ SendLoopStep
    \/ \E c \in Clients, l \in PacketLens : KcpWriteTo(c, l)
    \/ \E c \in AllIDs : KcpReadFrom(c)

(* sendLoop and run's wg.Wait are goroutines the scheduler keeps running   *)
(* and the timer always fires; queries, KCP and I/O errors are the         *)
(* environment.                                                            *)
Spec == Init /\ [][Next]_vars /\ WF_vars(SendLoopStep) /\ WF_vars(ServerExit)

-----------------------------------------------------------------------------
(* The values each variable can take (not checked by a run: a Go channel   *)
(* never holds more than its capacity, and the rest holds by construction).*)
TypeOK ==
    /\ Len(ch) <= ChanCap /\ chClosed \in BOOLEAN
    /\ outgoing \in [AllIDs -> Seq(Packets)]
    /\ sPc \in {"recv", "poll", "wait", "write", "stopped"}
    /\ nextP = NoPacket \/ nextP \in Packets
    /\ payload \in Seq(Packets)
    /\ queued \subseteq 1..MaxQueries /\ written \in Seq(1..MaxQueries)

(* Refinement mapping onto ResponseChannel: the records sendLoop holds or  *)
(* has still to receive, oldest first, are the one it is answering, the   *)
(* nextRec it received while bundling that one, and those on ch.  A        *)
(* record is answered once WriteResponse is done with it, written or not. *)
InFlight ==
    LET held == SelectSeq(<<rec, nextRec>>, LAMBDA r : r # NoRec)
    IN [i \in 1..Len(held) |-> held[i].seq] \o [i \in 1..Len(ch) |-> ch[i].seq]

SendLoopEnded == sPc = "stopped" \/ exited

RC == INSTANCE ResponseChannel
        WITH Seqs <- 1..MaxQueries,
             pending <- IF SendLoopEnded THEN <<>> ELSE InFlight,
             delivered <- {written[i] : i \in DOMAIN written},
             stopped <- SendLoopEnded

(* recvLoop, ch and sendLoop's nextRec hand-over implement a FIFO channel  *)
(* of records: each record put on ch is answered exactly once, after every *)
(* earlier one and before every later one, and eventually, unless sendLoop *)
(* returns or the process exits first.                                     *)
ImplementsResponseChannel == RC!Spec

(* Every response sendLoop writes fits in the UDP payload size its         *)
(* requestor accepts: its OPT RR's size, and 512 bytes without EDNS.  This *)
(* is what bounding each bundle by dnsMessageCapacity of the question name *)
(* (lines 384-389) is for: it fails by a leftover nextP larger than the    *)
(* capacity, or by the OPT RR the capacity does not count.                 *)
ResponseFitsRequestor ==
    lastSent # NoRec => lastSent.wireLen <= lastSent.size

==============================================================================
