---------------------------- MODULE MCOptimaLDN ----------------------------
(***************************************************************************)
(* A small instance of the composed system.                                 *)
(***************************************************************************)
EXTENDS OptimaLDN, TLC

CONSTANTS u1, c1, c2, j1, j2

OneUser == {u1}
OneCall == {c1}
MCCalls == {c1, c2}
MCLabels == {"jubilee", "victoria"}
MCLineIDs == (j1 :> {"jubilee"}) @@ (j2 :> {"victoria"})
NoNames == <<>>

Critical == [kind: {"CriticalDelay"}, lines: {<<"jubilee">>}]

AllFaults == FaultKinds
NoFaults == {}

CallSymmetry == Permutations(MCCalls)
=============================================================================
