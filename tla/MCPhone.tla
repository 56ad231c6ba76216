------------------------------ MODULE MCPhone -------------------------------
(***************************************************************************)
(* A phone ann and bob use one after the other: ann is in workspaces a and *)
(* b, bob in b.                                                            *)
(***************************************************************************)
EXTENDS PhoneSession, TLC

CONSTANTS ann, bob, a, b

MCLists == (ann :> {a, b}) @@ (bob :> {b})
=============================================================================
