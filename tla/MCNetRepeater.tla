---------------------------- MODULE MCNetRepeater ----------------------------
(* Four slots, a short, a long and an oversized frame. *)
EXTENDS NetRepeater

CONSTANTS short, long, oversized

MCFrames == {short, long, oversized}
MCFrameSize == [f \in MCFrames |-> CASE f = short -> 1 [] f = long -> 2 [] OTHER -> 3]
=============================================================================
