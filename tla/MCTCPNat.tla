------------------------------ MODULE MCTCPNat ------------------------------
(* Model-checking instance of TCPNat. *)
EXTENDS TCPNat, TLC
SessionSymmetry == Permutations(Sessions) \cup Permutations(Keys) \cup Permutations(Threads)
=============================================================================
