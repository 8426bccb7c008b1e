----------------------------- MODULE MCVideoDemux -----------------------------
(* 88 values of a byte.  Frames without a payload, with a payload that     *)
(* looks like two frames, whose lengths are negative as an int, and with   *)
(* one whose length takes two bytes; between frames, parts of a marker, a  *)
(* marker followed by a channel that does not exist, and a byte that could *)
(* be a channel.                                                           *)
EXTENDS VideoDemux

MCPayloads == {<<>>,
               <<18, 52, 86, 1, 87, 87, 87, 87, 18, 52, 86, 0, 60, 1, 2, 3, 4>>,
               [k \in 1 .. 90 |-> k % 88]}
MCJunk == {<<18, 52, 1, 18, 52>>, <<18, 52, 86, 2>>}
MCChunkLens == {7, 40}
===============================================================================
