---------------------------- MODULE MCViewScopes ----------------------------
(* The instance of ViewScopes for TLC. *)
EXTENDS ViewScopes, TLC

CONSTANTS h1, h2, worker, c1, c2

HandlerSymmetry == Permutations({h1, h2}) \cup Permutations({c1, c2})
=============================================================================
