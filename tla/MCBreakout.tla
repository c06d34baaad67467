----------------------------- MODULE MCBreakout -----------------------------
(* Instances of Breakout for TLC. *)
EXTENDS Breakout

MCPrices == 1..3
=============================================================================
