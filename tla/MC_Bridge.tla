------------------------------- MODULE MC_Bridge -------------------------------
(* Two KCP sessions with a stream each: s1 served as in main.go, s2 as in  *)
(* the Noise server, after a handshake.  Sessions are independent of one   *)
(* another in the code (each has its own acceptStreams goroutine and       *)
(* streams); a stream each shows a session's death reaching its streams in *)
(* both servers.                                                            *)
EXTENDS Bridge, TLC

CONSTANTS s1, s2, t1, t2

MCOwner == (t1 :> s1) @@ (t2 :> s2)

==============================================================================
