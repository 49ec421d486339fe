--------------------------- MODULE MCRabbitClient ---------------------------
(***************************************************************************)
(* Small instances of RabbitClient: one message that is always given back  *)
(* and one that is not.                                                    *)
(***************************************************************************)
EXTENDS RabbitClient

MCPoison == {1}
=============================================================================
