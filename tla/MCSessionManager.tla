-------------------------- MODULE MCSessionManager -------------------------
(* An instance of SessionManager for TLC. *)
EXTENDS SessionManager, TLC

(* Sessions and users are interchangeable. *)
Symmetry == Permutations(Sessions) \cup Permutations(Users)
============================================================================
