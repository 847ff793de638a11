--------------------------- MODULE MCClientSecrets ---------------------------
(* Applications and secrets enough for every mishap to cost one. *)
EXTENDS ClientSecrets, TLC
=============================================================================
