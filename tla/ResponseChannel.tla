--------------------------- MODULE ResponseChannel ---------------------------
(***************************************************************************)
(* What the record channel between recvLoop and sendLoop promises, in both *)
(* servers (spec.md, "Ordering guarantees": PendingResponses are delivered *)
(* to SendLoop in FIFO order within the channel capacity; on overflow they *)
(* are dropped).  A record is identified by the sequence number of the     *)
(* query it answers.  An accepted record is answered (its response written *)
(* or its write failing with a temporary error) after every record         *)
(* accepted before it and before any accepted after it, and it is answered *)
(* eventually unless sendLoop or the process ends first, which abandons    *)
(* everything still pending.  A record dropped on a full channel is never  *)
(* accepted and is a stuttering step here.                                 *)
(***************************************************************************)
EXTENDS Naturals, Sequences

CONSTANT Seqs   \* the sequence numbers queries can have

VARIABLES
    pending,    \* records accepted and not yet answered, oldest first
    delivered,  \* records answered
    stopped     \* sendLoop or the process has ended

vars == <<pending, delivered, stopped>>

Init == pending = <<>> /\ delivered = {} /\ stopped = FALSE

(* A record for a query read after every record seen so far.               *)
Accept(s) ==
    /\ ~stopped
    /\ \A i \in DOMAIN pending : pending[i] < s
    /\ \A d \in delivered : d < s
    /\ pending' = Append(pending, s)
    /\ UNCHANGED <<delivered, stopped>>

(* The oldest pending record is answered.                                  *)
Deliver ==
    /\ ~stopped /\ pending # <<>>
    /\ delivered' = delivered \cup {Head(pending)}
    /\ pending' = Tail(pending)
    /\ UNCHANGED stopped

(* sendLoop returns, or the process exits, leaving the rest unanswered.    *)
Abandon ==
    /\ ~stopped
    /\ stopped' = TRUE /\ pending' = <<>>
    /\ UNCHANGED delivered

Next == (\E s \in Seqs : Accept(s)) \/ Deliver \/ Abandon

(* sendLoop keeps answering while records are pending.                     *)
Spec == Init /\ [][Next]_vars /\ WF_vars(Deliver)

==============================================================================
