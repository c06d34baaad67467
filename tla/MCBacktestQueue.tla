-------------------------- MODULE MCBacktestQueue --------------------------
(* Instances of BacktestQueue for TLC. *)
EXTENDS BacktestQueue, TLC

CONSTANTS w1, w2

MCSymbols == 1..2

\* Different counts, so that the total tells which symbols were replayed.
MCSignalCount == [s \in MCSymbols |-> IF s = 1 THEN 2 ELSE 1]

MCSymmetry == Permutations(Workers)
=============================================================================
