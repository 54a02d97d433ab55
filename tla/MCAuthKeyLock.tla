--------------------------- MODULE MCAuthKeyLock ---------------------------
(* AuthKeyLock on a small instance. *)
EXTENDS AuthKeyLock

CONSTANTS s1, s2

MCSessions == {s1, s2}
=============================================================================
