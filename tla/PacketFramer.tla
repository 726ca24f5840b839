---------------------------- MODULE PacketFramer ----------------------------
(***************************************************************************)
(* The upstream packet framing of src/unnamed/part_000: nextPacket and the *)
(* loop of recvLoop that queues every packet nextPacket returns until it   *)
(* returns an error.  A payload is a sequence of bytes (0..255).  A prefix *)
(* byte below 224 announces a packet of that many bytes; a prefix of 224   *)
(* or more announces prefix - 224 bytes of padding.                        *)
(***************************************************************************)
EXTENDS Integers, Sequences, SequencesExt

Drop(s, n) == SubSeq(s, n + 1, Len(s))     \* s without its first n bytes

(* A mutant of RecvPackets: a prefix of exactly 224 is read as a packet    *)
(* length instead of as empty padding.                                     *)
RECURSIVE RecvPacketsPaddingOffByOne(_)
RecvPacketsPaddingOffByOne(s) ==
    IF s = <<>> THEN <<>>
    ELSE LET prefix == Head(s)
             rest   == Tail(s)
         IN IF prefix > 224
            THEN IF Len(rest) < prefix - 224 THEN <<>>
                 ELSE RecvPacketsPaddingOffByOne(Drop(rest, prefix - 224))
            ELSE IF Len(rest) < prefix THEN <<>>
            ELSE <<SubSeq(rest, 1, prefix)>> \o RecvPacketsPaddingOffByOne(Drop(rest, prefix))

(* A mutant of RecvPackets: a packet cut short by the end of the payload   *)
(* is queued with the bytes that are there.                                *)
RECURSIVE RecvPacketsKeepsPartial(_)
RecvPacketsKeepsPartial(s) ==
    IF s = <<>> THEN <<>>
    ELSE LET prefix == Head(s)
             rest   == Tail(s)
         IN IF prefix >= 224
            THEN IF Len(rest) < prefix - 224 THEN <<>>
                 ELSE RecvPacketsKeepsPartial(Drop(rest, prefix - 224))
            ELSE IF Len(rest) < prefix THEN <<rest>>
            ELSE <<SubSeq(rest, 1, prefix)>> \o RecvPacketsKeepsPartial(Drop(rest, prefix))

(* The packets recvLoop queues from payload s: nextPacket returns io.EOF   *)
(* at the end of s, skips padding, returns io.ErrUnexpectedEOF when the    *)
(* padding or the packet is cut short, and recvLoop stops at the first     *)
(* error, so only whole packets before it are queued.                      *)
RECURSIVE RecvPackets(_)
RecvPackets(s) ==
    IF s = <<>> THEN <<>>
    ELSE LET prefix == Head(s)
             rest   == Tail(s)
         IN IF prefix >= 224
            THEN IF Len(rest) < prefix - 224 THEN <<>>
                 ELSE RecvPackets(Drop(rest, prefix - 224))
            ELSE IF Len(rest) < prefix THEN <<>>
            ELSE <<SubSeq(rest, 1, prefix)>> \o RecvPackets(Drop(rest, prefix))

-----------------------------------------------------------------------------
(* The encoding of the spec's section 4.1: before each packet, and after   *)
(* the last, an optional padding block of k bytes (prefix 224 + k); each   *)
(* packet as its length byte and its bytes.  pads[i] = -1: no block.       *)
PadBlock(k) == IF k < 0 THEN <<>> ELSE <<224 + k>> \o [j \in 1..k |-> 230]

Encode(ps, pads) ==
    FoldLeft(LAMBDA acc, i : acc \o PadBlock(pads[i]) \o <<Len(ps[i])>> \o ps[i],
             <<>>, [i \in 1..Len(ps) |-> i])
    \o PadBlock(pads[Len(ps) + 1])

(* Where the encoding of packet i ends.                                    *)
PacketEnd(ps, pads, i) == Len(Encode(SubSeq(ps, 1, i), SubSeq(pads, 1, i) \o <<-1>>))

(* Decoding an encoding gives back its packets.                            *)
RoundTrips(ps, pads) == RecvPackets(Encode(ps, pads)) = ps

(* Decoding the first k bytes of an encoding gives exactly the packets     *)
(* whose encoding ends within them: a packet cut short is never queued,    *)
(* and nothing before it is lost.                                          *)
TruncationKeepsWholePackets(ps, pads, k) ==
    RecvPackets(SubSeq(Encode(ps, pads), 1, k))
        = SubSeq(ps, 1, Cardinality({i \in 1..Len(ps) : PacketEnd(ps, pads, i) <= k}))

==============================================================================
