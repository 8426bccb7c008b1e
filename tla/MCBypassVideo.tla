----------------------------- MODULE MCBypassVideo ----------------------------
(* Both channels, a file of two full and one short chunk, five commands,   *)
(* and a disk that is pulled and put back.                                 *)
EXTENDS BypassVideo

MCChannels == 0 .. 1
===============================================================================
