----------------------------- MODULE MCUartBypass -----------------------------
(* A ring of three bytes, filled one to three bytes at a time. *)
EXTENDS UartBypass

MCChunkLens == 1 .. 3
===============================================================================
