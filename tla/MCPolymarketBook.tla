-------------------------- MODULE MCPolymarketBook --------------------------
(* The two outcomes of a market are interchangeable.                       *)
EXTENDS PolymarketBook, TLC

MCSymmetry == Permutations(Asset)
=============================================================================
