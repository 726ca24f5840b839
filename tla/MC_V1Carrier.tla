----------------------------- MODULE MC_V1Carrier -----------------------------
(* DNS clients of the first server: tunnel queries whose names are of two *)
(* lengths (the longest, 255 bytes, and a shorter one), with or without an *)
(* OPT RR advertising 512 bytes, and a query for a foreign name.           *)
EXTENDS V1Carrier

CONSTANT NameLens   \* wire lengths of the question names clients use

TunnelQuestion(c, n) ==
    [inDomain |-> TRUE, qtype |-> RF!R!RRTypeTXT, encodedLen |-> 16, b32chars |-> TRUE,
     client |-> c, payload |-> <<"u">>, nameLen |-> n]

Query(question, additional) ==
    [id |-> 1, flags |-> 0, question |-> <<question>>, additional |-> additional]

OPT512 == <<RF!R!RR(RF!R!RRTypeOPT, 512, 0)>>

(* Tunnel queries without EDNS and a query outside the domain.             *)
MCQueries ==
    {Query(TunnelQuestion(c, n), <<>>) : c \in Clients, n \in NameLens}
    \cup {Query([TunnelQuestion(CHOOSE c \in Clients : TRUE, 255) EXCEPT !.inDomain = FALSE], <<>>)}

(* Tunnel queries with an OPT RR advertising 512 bytes.                    *)
MCEdnsQueries == {Query(TunnelQuestion(c, n), OPT512) : c \in Clients, n \in NameLens}

MCAllQueries == MCQueries \cup MCEdnsQueries

==============================================================================
