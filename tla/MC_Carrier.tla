------------------------------ MODULE MC_Carrier ------------------------------
(* Two DNS clients send well-formed tunnel queries, a query with EDNS      *)
(* version 1 and a query for a foreign name.                               *)
EXTENDS Carrier

(* The question of a tunnel query from c, carrying one upstream packet.    *)
TunnelQuestion(c) ==
    [inDomain |-> TRUE, qtype |-> RF!RRTypeTXT, encodedLen |-> 16, b32chars |-> TRUE,
     client |-> c, payload |-> <<"u">>]

Query(question, version) ==
    [id |-> 1, flags |-> 0, question |-> <<question>>,
     additional |-> <<RF!RR(RF!RRTypeOPT, 4096, version * 2^16)>>]

(* Well-formed tunnel queries only.                                        *)
MCTunnelQueries == {Query(TunnelQuestion(c), 0) : c \in Clients}

MCQueries ==
    MCTunnelQueries
    \cup {Query(TunnelQuestion(CHOOSE c \in Clients : TRUE), 1),
          Query([TunnelQuestion(CHOOSE c \in Clients : TRUE) EXCEPT !.inDomain = FALSE], 0)}

==============================================================================
