------------------------------- MODULE MCWebServer -------------------------------
(***************************************************************************)
(* WebServer for TLC: connections, handles and workers are model values.    *)
(***************************************************************************)
EXTENDS WebServer, TLC

CONSTANTS c1, c2, c3, h1, h2, w1, w2

TwoConns == {c1, c2}
TwoHandles == {h1, h2}
TwoWorkers == {w1, w2}

AllRequests == {"page", "bad", "partial"}
Pages == {"page"}
PartialRequests == {"page", "partial"}

OwnershipSymmetry ==
  Permutations(TwoConns) \cup Permutations(TwoHandles) \cup Permutations(TwoWorkers)
================================================================================
