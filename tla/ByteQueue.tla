------------------------------- MODULE ByteQueue ------------------------------
(***************************************************************************)
(* What a byte ring of the UART bypass and a block FIFO of the USB bypass  *)
(* promise: a queue of bytes.  The bytes put into it come out once each,   *)
(* in the order they were put in, and never more than Capacity bytes are   *)
(* between the two ends.  A queue that breaks (the ring's "overflow", an   *)
(* index of the FIFO that passes the other one) promises nothing from then *)
(* on.  A byte is the number of its turn.                                  *)
(***************************************************************************)
EXTENDS Integers, Sequences

CONSTANT Capacity

VARIABLES put,     \* how many bytes were put in
          got,     \* the bytes that came out, in order
          broken

queueVars == <<put, got, broken>>

QueueInit == put = 0 /\ got = <<>> /\ broken = FALSE

Put(n) == /\ ~broken
          /\ put + n - Len(got) <= Capacity
          /\ put' = put + n
          /\ UNCHANGED <<got, broken>>

Get(n) == /\ ~broken
          /\ Len(got) + n <= put
          /\ got' = got \o [k \in 1 .. n |-> Len(got) + k]
          /\ UNCHANGED <<put, broken>>

Break == ~broken /\ broken' = TRUE /\ UNCHANGED <<put, got>>

QueueNext == \/ \E n \in 0 .. Capacity : Put(n) \/ Get(n)
             \/ Break
             \/ broken /\ broken'

QueueSpec == QueueInit /\ [][QueueNext]_queueVars
===============================================================================
