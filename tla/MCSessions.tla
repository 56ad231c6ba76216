----------------------------- MODULE MCSessions -----------------------------
(* Sessions by itself, for the property the code breaks: the whole           *)
(* behaviour, fairness included, of one browser with two tabs.               *)
EXTENDS Sessions

\* The first login is ann's, the second bob's.
MCUserOf == [x \in Families |-> IF x = 1 THEN "ann" ELSE "bob"]

FairSessions == SessionsSpec /\ SessionsFairness
=============================================================================
