---------------------------- MODULE V1ResponseFor ----------------------------
(***************************************************************************)
(* responseFor of the first server (src/dnstt-server/main.go): the same    *)
(* query abstraction as ResponseFor, whose dns constants, flag arithmetic  *)
(* and base32 decoding it shares.  The checks differ from the Noise       *)
(* server's in order and in content: AA is set from the start, BADVERS     *)
(* does not end the walk over the Additional section, OPCODE is judged     *)
(* before the question count, QTYPE before the name, and the requestor's   *)
(* payload size is computed (lines 235-241) but never read, so it is left  *)
(* out.                                                                    *)
(***************************************************************************)
EXTENDS Integers, Sequences

CONSTANTS Clients, ZeroClientID, ClientIDLen, Payloads

R == INSTANCE ResponseFor

(* The walk over the Additional section: the first OPT RR is echoed as    *)
(* our own, a version other than 0 ORs BADVERS & 0xf (that is, nothing)   *)
(* into the flags and puts BADVERS >> 4 into our TTL and goes on; a second *)
(* OPT RR stops the walk with FORMERR.                                     *)
EdnsWalk(q) ==
    LET opts    == SelectSeq(q.additional, LAMBDA rr : rr.type = R!RRTypeOPT)
        badvers == opts # <<>> /\ (opts[1].ttl \div 65536) % 256 # 0
    IN [stop |-> Len(opts) > 1,
        bits |-> IF badvers THEN R!ExtendedRcodeBadVers % 16 ELSE 0,
        addl |-> IF opts = <<>> THEN <<>>
                 ELSE <<R!OurOPT(IF badvers THEN (R!ExtendedRcodeBadVers \div 16) * 2^24 ELSE 0)>>]

(* A mutant of responseFor: the base32 error path returns without setting *)
(* NXDOMAIN.                                                               *)
responseForNoBase32Rcode(q) ==
    LET walk     == EdnsWalk(q)
        flags    == R!SetBits(33792, walk.bits)
        question == q.question[1]
        Err(rcode) == R!Result(R!Resp(q, R!SetBits(flags, rcode), walk.addl), ZeroClientID, <<>>)
    IN
    IF R!Bit(q.flags, 32768) THEN R!Result(R!Nil, ZeroClientID, <<>>)
    ELSE IF walk.stop THEN Err(R!RcodeFormatError)
    ELSE IF R!Field(q.flags, 2048, 4) # 0 THEN Err(R!RcodeNotImplemented)
    ELSE IF Len(q.question) # 1 THEN Err(R!RcodeFormatError)
    ELSE IF question.qtype # R!RRTypeTXT THEN Err(R!RcodeNotImplemented)
    ELSE IF ~question.inDomain THEN Err(R!RcodeNameError)
    ELSE IF ~R!Base32DecodeOK(question) THEN Err(R!RcodeNoError)
    ELSE IF R!Base32DecodedLen(question) < ClientIDLen THEN Err(R!RcodeNameError)
    ELSE R!Result(R!Resp(q, flags, walk.addl), question.client, question.payload)

(* The response starts with QR = 1 and AA = 1 (0x8400); each failed check *)
(* ORs its RCODE into the flags reached so far and returns.                *)
responseFor(q) ==
    LET walk     == EdnsWalk(q)
        flags    == R!SetBits(33792, walk.bits)
        question == q.question[1]
        Err(rcode) == R!Result(R!Resp(q, R!SetBits(flags, rcode), walk.addl), ZeroClientID, <<>>)
    IN
    IF R!Bit(q.flags, 32768) THEN R!Result(R!Nil, ZeroClientID, <<>>)
    ELSE IF walk.stop THEN Err(R!RcodeFormatError)
    ELSE IF R!Field(q.flags, 2048, 4) # 0 THEN Err(R!RcodeNotImplemented)
    ELSE IF Len(q.question) # 1 THEN Err(R!RcodeFormatError)
    ELSE IF question.qtype # R!RRTypeTXT THEN Err(R!RcodeNotImplemented)
    ELSE IF ~question.inDomain THEN Err(R!RcodeNameError)
    ELSE IF ~R!Base32DecodeOK(question) THEN Err(R!RcodeNameError)
    ELSE IF R!Base32DecodedLen(question) < ClientIDLen THEN Err(R!RcodeNameError)
    ELSE R!Result(R!Resp(q, flags, walk.addl), question.client, question.payload)

-----------------------------------------------------------------------------
(* Whether sendLoop (line 369) fills the Answer section of a response.    *)
Answered(resp) == R!Rcode(resp) = R!RcodeNoError /\ Len(resp.question) = 1

(* The tunnel's request/response pairing: a query's upstream data is       *)
(* handed to KCP exactly when its response is one sendLoop will fill with  *)
(* downstream data, so no answered poll is lost and no rejected query      *)
(* feeds KCP.                                                              *)
ServedIffAnswered(q) ==
    LET r == responseFor(q) IN
    r.resp # R!Nil =>
        /\ (r.clientID # ZeroClientID) <=> Answered(r.resp)
        /\ r.clientID = ZeroClientID => r.payload = <<>>

(* No upstream payload is taken from a query that is answered with an     *)
(* error, BADVERS included: its full (extended) RCODE is NOERROR.          *)
NoPayloadFromErrorResponse(q) ==
    LET r == responseFor(q) IN
    r.clientID # ZeroClientID => R!ExtendedRcode(r.resp) = R!RcodeNoError

==============================================================================
