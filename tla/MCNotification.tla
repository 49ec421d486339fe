--------------------------- MODULE MCNotification ---------------------------
(***************************************************************************)
(* Small instances of Notification: a journey over two lines and one over  *)
(* a single line, so that lines share users and users change lines.        *)
(***************************************************************************)
EXTENDS Notification, TLC

CONSTANTS u1, u2, j1, j2

MCUsers == {u1, u2}
OneUser == {u1}
MCLabels == {"jubilee", "victoria"}
MCLineIDs == (j1 :> {"jubilee", "victoria"}) @@ (j2 :> {"jubilee"})
NoNames == <<>>

OneLineAlerts == [kind: AlertKinds, lines: {<<"jubilee">>}]
TwoLineAlerts == [kind: AlertKinds, lines: {<<"jubilee", "victoria">>}]

AllFaults == FaultKinds
NoFaults == {}

UserSymmetry == Permutations(MCUsers)
=============================================================================
