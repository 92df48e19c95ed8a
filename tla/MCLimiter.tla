----------------------------- MODULE MCLimiter -----------------------------
(* Model values, symmetry and mutants of Limiter for TLC.                  *)
EXTENDS Limiter, TLC

Symmetry == Permutations(Callers) \cup Permutations(Keys)
=============================================================================
