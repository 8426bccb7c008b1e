------------------------------- MODULE MCRtUart -------------------------------
(* A buffer of three bytes and messages of two, so that what is collected  *)
(* may exceed a message, the buffer or neither; a count of three bits, so  *)
(* that it wraps, by small chunks after one that is dropped, or by a large *)
(* one alone.                                                              *)
EXTENDS RtUart

MCChunkLens == {1, 2, 3, 6}
===============================================================================
