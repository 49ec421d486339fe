----------------------------- MODULE MCFrontEnd -----------------------------
(***************************************************************************)
(* A small instance of FrontEnd. Users meet only in the gateway's map,     *)
(* each under his own key: one user who goes through several journeys has  *)
(* all the interleavings that matter.                                      *)
(***************************************************************************)
EXTENDS FrontEnd

CONSTANT u1

OneUser == {u1}
=============================================================================
