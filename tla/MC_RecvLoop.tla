----------------------------- MODULE MC_RecvLoop -----------------------------
(* The two pure steps of recvLoop's handling of a datagram, each fed a     *)
(* small but complete space of inputs: responseFor on a parsed query,      *)
(* checked against the spec's precedence table (and the first server's    *)
(* responseFor on the same queries), and nextPacket driven to exhaustion   *)
(* on an upstream payload, checked against the framing encoder.  A state   *)
(* holds one input of one of the two; `which' says which.                 *)
EXTENDS ResponseFor, PacketFramer, FiniteSets

CONSTANTS EncodedLens,     \* lengths of the base32 prefix of a question name
          PayloadSizes,    \* UDP payload sizes a requestor's OPT RR may carry
          PacketContents,  \* packets (byte sequences) to frame
          PadLens,         \* padding block sizes (-1: no block)
          MaxPackets       \* longest packet sequence

Questions ==
    [inDomain: BOOLEAN, qtype: {RRTypeTXT, 1}, encodedLen: EncodedLens,
     b32chars: BOOLEAN, client: Clients, payload: Payloads]

(* OPT RRs of EDNS version 0 or 1, and one non-OPT RR that is skipped.    *)
AdditionalRRs ==
    {RR(RRTypeOPT, c, v * 2^16) : c \in PayloadSizes, v \in {0, 1}} \cup {RR(1, 1, 0)}

(* Header flags: none, RD, OPCODE = 1 (IQUERY), QR.                        *)
QueryFlags == {0, 256, 2048, 32768}

QuestionLists == {<<>>} \cup {<<x>> : x \in Questions} \cup {<<x, x>> : x \in Questions}

Queries ==
    [id: {7}, flags: QueryFlags, question: QuestionLists,
     additional: {<<>>} \cup {<<a>> : a \in AdditionalRRs}
                        \cup {<<a, b>> : a, b \in AdditionalRRs}]

(* An empty packet, a one-byte packet and a packet whose bytes look like   *)
(* padding and length prefixes.                                            *)
MCPacketContents == {<<>>, <<7>>, <<230, 0>>}

(* No padding block, an empty block and a two-byte block.                 *)
MCPadLens == {-1, 0, 2}

(* Every sequence of up to MaxPackets packets with every choice of padding *)
(* blocks.                                                                 *)
Inputs ==
    UNION {[ps: {s}, pads: [1..(Len(s) + 1) -> PadLens]] : s \in BoundedSeq(PacketContents, MaxPackets)}

FullLen(in) == Len(Encode(in.ps, in.pads))

VARIABLES which, query, input, cut

vars == <<which, query, input, cut>>

SomeQuery == CHOOSE q \in Queries : TRUE
SomeInput == CHOOSE in \in Inputs : TRUE

Init ==
    \/ /\ which = "query" /\ query \in Queries
       /\ input = SomeInput /\ cut = 0
    \/ /\ which = "payload" /\ query = SomeQuery
       /\ input \in Inputs /\ cut = FullLen(input)

(* recvLoop hands responseFor the next parsed query.  Init already covers *)
(* every query; a step varies the header flags and the Question section   *)
(* and keeps the Additional section, which keeps the graph small.         *)
ReceiveQuery ==
    /\ which = "query"
    /\ \E f \in QueryFlags, qs \in QuestionLists :
          query' = [query EXCEPT !.flags = f, !.question = qs]
    /\ UNCHANGED <<which, input, cut>>

(* recvLoop receives the payload cut after some number of bytes.          *)
Receive ==
    /\ which = "payload"
    /\ cut' \in 0..FullLen(input)
    /\ UNCHANGED <<which, query, input>>

Spec == Init /\ [][ReceiveQuery \/ Receive]_vars

(* responseFor gives the spec's BuildResponse result for every query: the  *)
(* response (or none), its full extended RCODE, AA, OPT, and the ClientID  *)
(* and payload handed upstream, all from the first failing check.         *)
ResponseMatchesSpec == which = "query" => ConformsToSpec(query)

(* nextPacket recovers exactly the packets of any padded encoding.         *)
FramingRoundTrips ==
    which = "payload" /\ cut = FullLen(input) => RoundTrips(input.ps, input.pads)

(* On a payload cut anywhere, nextPacket yields the whole packets before   *)
(* the cut and nothing of a partial one.                                    *)
FramingTruncation ==
    which = "payload" => TruncationKeepsWholePackets(input.ps, input.pads, cut)

(* The first server's responseFor (src/dnstt-server/main.go), fed the     *)
(* same queries.                                                           *)
V1 == INSTANCE V1ResponseFor

(* In the first server, a query's upstream payload is handed to KCP       *)
(* exactly when sendLoop will fill its response with downstream data.      *)
QueryServedIffAnswered == which = "query" => V1!ServedIffAnswered(query)

(* The first server takes no upstream payload from a query it answers     *)
(* with an error, BADVERS included.                                        *)
QueryNoPayloadFromErrorResponse ==
    which = "query" => V1!NoPayloadFromErrorResponse(query)

========================================================================================================================================================
