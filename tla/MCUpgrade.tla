------------------------------- MODULE MCUpgrade ------------------------------
(* Blocks of two bytes and two block numbers: a file of one short block,   *)
(* one of two blocks, and one whose third block goes under a number that   *)
(* is taken.  The sky refuses the short one, whatever it holds of it.      *)
EXTENDS Upgrade

MCFiles == {"short", "long", "large"}
MCSize == [f \in Files |-> CASE f = "short" -> 1 [] f = "long" -> 3 [] f = "large" -> 4]
MCGood == Files \ {"short"}
===============================================================================
