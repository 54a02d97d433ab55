--------------------------- MODULE MCLocalStorage ---------------------------
(* LocalStorage on a small instance. *)
EXTENDS LocalStorage, TLC

CONSTANTS p1, p2, t1, t2

MCPeers == {p1, p2}
MCTexts == {t1, t2}

Interchangeable == Permutations(MCPeers) \cup Permutations(MCTexts)
=============================================================================
