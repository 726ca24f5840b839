----------------------------- MODULE ResponseFor -----------------------------
(***************************************************************************)
(* responseFor of the Noise server (src/unnamed/part_000): the DNS state   *)
(* machine that turns one parsed query into a response skeleton, the       *)
(* ClientID it carries and the payload that follows the ClientID.  A       *)
(* query is abstracted to the fields responseFor reads; the base32 prefix  *)
(* of the question name is abstracted to its length and to whether all its *)
(* characters are in the base32 alphabet, and decoding is modelled by what *)
(* encoding/base32 does with a padding-free input of that length.          *)
(***************************************************************************)
EXTENDS Integers, Sequences, FiniteSets

CONSTANTS
    Clients,       \* ClientIDs the decoded payload of a query may start with
    ZeroClientID,  \* the zero value of turbotunnel.ClientID
    ClientIDLen,   \* len(turbotunnel.ClientID)
    Payloads       \* opaque contents of what follows the ClientID

ASSUME ZeroClientID \notin Clients /\ ClientIDLen \in Nat \ {0}

(* Constants of the dns package (not under src/: modelled from the spec). *)
RRTypeTXT            == 16
RRTypeOPT            == 41
RcodeNoError         == 0
RcodeFormatError     == 1
RcodeNameError       == 3
RcodeNotImplemented  == 4
ExtendedRcodeBadVers == 16

(* maxUDPPayload. *)
MaxUDPPayload == 1280 - 40 - 8

(* Bit arithmetic on 16-bit header flags.  Bit(x, b): the bit of value b *)
(* (a power of two) is set in x; Field(x, b, w): the w-bit field whose     *)
(* lowest bit has value b; SetBits(x, m) is x | m for the |= of            *)
(* responseFor, each of which sets bits that are still clear in x (QR, AA  *)
(* and RCODE are each set at most once on any path).                       *)
Bit(x, b) == (x \div b) % 2 = 1
Field(x, b, w) == (x \div b) % (2^w)
SetBits(x, m) == x + m

(* dns.Message.Rcode: the RCODE field of the header flags. *)
Rcode(msg) == Field(msg.flags, 1, 4)

(* An RR of the Additional section, with the fields responseFor reads.    *)
RR(type, class, ttl) == [type |-> type, class |-> class, ttl |-> ttl]

(* Decoding a padding-free base32 string of n characters: the input is     *)
(* rejected if a character is outside the alphabet or if n mod 8 leaves a  *)
(* partial quantum that no byte count encodes to; otherwise it yields      *)
(* floor(5n/8) bytes.                                                      *)
Base32DecodeOK(q) == q.b32chars /\ (q.encodedLen % 8) \notin {1, 3, 6}
Base32DecodedLen(q) == (q.encodedLen * 5) \div 8

Nil == [nil |-> TRUE]   \* the nil *dns.Message

(* The result of responseFor: the response (or Nil), the ClientID and the *)
(* payload; Resp builds the returned response from the flags reached.     *)
Result(resp, cid, payload) == [resp |-> resp, clientID |-> cid, payload |-> payload]
Resp(q, flags, additional) ==
    [id |-> q.id, flags |-> flags, question |-> q.question, additional |-> additional]

(* The first OPT RR of the query, echoed as our own OPT RR.                *)
OurOPT(ttl) == RR(RRTypeOPT, 4096, ttl)

(* A mutant of EdnsWalk: BADVERS is recorded but the walk goes on to the  *)
(* other checks, as in the first server variant (src/dnstt-server/main.go).*)
EdnsWalkNoBadVersReturn(q) ==
    LET opts    == SelectSeq(q.additional, LAMBDA rr : rr.type = RRTypeOPT)
        badvers == opts # <<>> /\ (opts[1].ttl \div 65536) % 256 # 0
        size    == IF opts = <<>> THEN 0 ELSE opts[1].class
    IN [stop    |-> Len(opts) > 1,
        rcode   |-> RcodeFormatError,
        addl    |-> IF opts = <<>> THEN <<>>
                    ELSE IF badvers THEN <<OurOPT((ExtendedRcodeBadVers \div 16) * 2^24)>>
                    ELSE <<OurOPT(0)>>,
        payloadSize |-> IF size < 512 THEN 512 ELSE size]

(* The walk over the Additional section: the first OPT RR is echoed as    *)
(* our own; a version other than 0 stops the walk with BADVERS (its low    *)
(* nibble in the flags, the rest in our OPT RR's TTL); a second OPT RR     *)
(* stops it with FORMERR; afterwards the payload size is raised to 512.    *)
EdnsWalk(q) ==
    LET opts    == SelectSeq(q.additional, LAMBDA rr : rr.type = RRTypeOPT)
        version == (opts[1].ttl \div 65536) % 256
        badvers == opts # <<>> /\ version # 0
        size    == IF opts = <<>> THEN 0 ELSE opts[1].class
    IN [stop    |-> badvers \/ Len(opts) > 1,
        rcode   |-> IF badvers THEN ExtendedRcodeBadVers % 16 ELSE RcodeFormatError,
        addl    |-> IF opts = <<>> THEN <<>>
                    ELSE IF badvers THEN <<OurOPT((ExtendedRcodeBadVers \div 16) * 2^24)>>
                    ELSE <<OurOPT(0)>>,
        payloadSize |-> IF size < 512 THEN 512 ELSE size]

responseFor(q) ==
    LET flags0   == 32768                              \* QR = 1, RCODE = no error
        walk     == EdnsWalk(q)
        question == q.question[1]
        flagsAA  == IF question.inDomain THEN SetBits(flags0, 1024) ELSE flags0
        Err(flags, rcode) == Result(Resp(q, SetBits(flags, rcode), walk.addl), ZeroClientID, <<>>)
    IN
    IF Bit(q.flags, 32768) THEN Result(Nil, ZeroClientID, <<>>)
    ELSE IF walk.stop THEN Err(flags0, walk.rcode)
    ELSE IF Len(q.question) # 1 THEN Err(flags0, RcodeFormatError)
    ELSE IF ~Bit(flagsAA, 1024) THEN Err(flagsAA, RcodeNameError)
    ELSE IF Field(q.flags, 2048, 4) # 0 THEN Err(flagsAA, RcodeNotImplemented)
    ELSE IF question.qtype # RRTypeTXT THEN Err(flagsAA, RcodeNameError)
    ELSE IF ~Base32DecodeOK(question) THEN Err(flagsAA, RcodeNameError)
    ELSE IF Base32DecodedLen(question) < ClientIDLen THEN Err(flagsAA, RcodeNameError)
    ELSE IF walk.payloadSize < MaxUDPPayload THEN Err(flagsAA, RcodeFormatError)
    ELSE Result(Resp(q, flagsAA, walk.addl), question.client, question.payload)

-----------------------------------------------------------------------------
(* The response the spec's section 4.3 (BuildResponse, steps 1-10, with    *)
(* its tie-breaks) prescribes for q, as the first entry of a table of      *)
(* <<condition, extended RCODE, AA>> rows that applies; an OPT RR is       *)
(* walked in order, so the version of the first OPT RR is judged before a  *)
(* second OPT RR is seen.                                                  *)
SpecResponse(q) ==
    LET opts  == {i \in DOMAIN q.additional : q.additional[i].type = RRTypeOPT}
        first == q.additional[CHOOSE i \in opts : \A j \in opts : i <= j]
        size  == IF opts = {} THEN 0 ELSE first.class
        qn    == IF q.question = <<>> THEN [inDomain |-> TRUE, qtype |-> RRTypeTXT,
                                            encodedLen |-> 0, b32chars |-> TRUE]
                 ELSE q.question[1]   \* rows 4-9 only decide when there is one
        rows  == << <<opts # {} /\ (first.ttl \div 65536) % 256 # 0, ExtendedRcodeBadVers, FALSE>>,
                    <<Cardinality(opts) > 1,             RcodeFormatError,    FALSE>>,
                    <<Len(q.question) # 1,               RcodeFormatError,    FALSE>>,
                    <<~qn.inDomain,                      RcodeNameError,      FALSE>>,
                    <<(q.flags \div 2048) % 16 # 0,       RcodeNotImplemented, TRUE>>,
                    <<qn.qtype # RRTypeTXT,              RcodeNameError,      TRUE>>,
                    <<~Base32DecodeOK(qn),               RcodeNameError,      TRUE>>,
                    <<Base32DecodedLen(qn) < ClientIDLen, RcodeNameError,     TRUE>>,
                    <<size < MaxUDPPayload,              RcodeFormatError,    TRUE>>,
                    <<TRUE,                              RcodeNoError,        TRUE>> >>
        hit   == CHOOSE i \in DOMAIN rows : rows[i][1] /\ \A j \in 1..(i-1) : ~rows[j][1]
    IN [respond |-> (q.flags \div 32768) % 2 = 0,
        ercode  |-> rows[hit][2],
        aa      |-> rows[hit][3],
        opt     |-> opts # {},
        served  |-> hit = Len(rows)]

(* The full 12-bit RCODE of a response (RFC 6891): the header nibble and   *)
(* the upper eight bits carried in the TTL of the OPT RR.                  *)
ExtendedRcode(resp) ==
    IF resp.additional = <<>> THEN Rcode(resp)
    ELSE (resp.additional[1].ttl \div 2^24) * 16 + Rcode(resp)

(* responseFor answers every query exactly as the spec's BuildResponse     *)
(* does: no response to a non-query, otherwise the ID and Question echoed, *)
(* the extended RCODE and the AA bit of the first check that fails, in the *)
(* spec's precedence order, an OPT RR iff the query has one, and the       *)
(* ClientID and payload handed upstream only when every check passes.      *)
ConformsToSpec(q) ==
    LET r == responseFor(q)
        s == SpecResponse(q)
    IN /\ (r.resp = Nil) <=> ~s.respond
       /\ r.resp # Nil =>
            /\ r.resp.id = q.id /\ r.resp.question = q.question
            /\ ExtendedRcode(r.resp) = s.ercode
            /\ Bit(r.resp.flags, 1024) = s.aa
            /\ (r.resp.additional # <<>>) = s.opt
            /\ IF s.served
               THEN r.clientID = q.question[1].client /\ r.payload = q.question[1].payload
               ELSE r.clientID = ZeroClientID /\ r.payload = <<>>

==============================================================================
