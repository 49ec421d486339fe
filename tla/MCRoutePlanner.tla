--------------------------- MODULE MCRoutePlanner ---------------------------
(***************************************************************************)
(* Small instances of RoutePlanner and of the modules built on it: two     *)
(* journeys over different lines, one favourite whose line is registered   *)
(* by its name and one with fewer stops than lines.                        *)
(***************************************************************************)
EXTENDS RoutePlanner, TLC

CONSTANTS u1, u2, c1, c2, j1, j2, f1, f2

MCUsers == {u1, u2}
OneUser == {u1}
OneCall == {c1}
MCCalls == {c1, c2}
MCLabels == {"jubilee", "victoria", "Jubilee"}

MCLineIDs == (j1 :> {"jubilee"}) @@ (j2 :> {"victoria"})
MCLineNames == (f1 :> {"Jubilee"}) @@ (f2 :> {"Jubilee"})
NoIDs == <<>>
OneLineIDs == j1 :> {"jubilee"}
OneLineName == f1 :> {"Jubilee"}

AllFaults == FaultKinds
NoFaults == {}

UserSymmetry == Permutations(MCUsers) \cup Permutations(MCCalls)
=============================================================================
