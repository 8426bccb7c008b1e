---------------------------- MODULE MCUsbBlockFifo ----------------------------
(* Four slots of three bytes; messages of a part of a block, of one block  *)
(* (which can fill every slot) and of one and a third; the reader asks for *)
(* one and two thirds of a block, so that a part may leave more, or fewer, *)
(* bytes than the shortest message.                                        *)
EXTENDS UsbBlockFifo

MCMsgLens == {1, 3, 4}
===============================================================================
