----------------------------- MODULE UsbBlockFifo -----------------------------
(***************************************************************************)
(* Example/usr_usb_task.c: the block FIFO between a USB command and the    *)
(* baseband link.  usb_rx3 and usb_tx3 are two copies of it with the same  *)
(* code; the names below are those of usb_tx3, filled by usb_bypass_write  *)
(* and emptied by COMTASK_Rx3Function.                                     *)
(*                                                                         *)
(* A slot holds a block of at most fifo_size bytes and a filled length.    *)
(* The two sides run in tasks of different priority, without a lock, and   *)
(* interleave at every access to the indices, to a slot and to its length. *)
(* An index is incremented first and compared with the number of slots     *)
(* afterwards, so that for a moment it is one past the end.                *)
(*                                                                         *)
(* Once an index has passed the other one, both sides may be at the same   *)
(* slot.  If the writer then changes a length between the reader's uses of *)
(* it, a memcpy is longer than its buffer or filled_len - cnt wraps: the   *)
(* source does not say what that does, and the model ends (torn).          *)
(*                                                                         *)
(* A byte is the number of its turn: the bytes accepted into the FIFO are  *)
(* numbered 1, 2, 3...                                                     *)
(***************************************************************************)
EXTENDS Integers, Sequences

CONSTANTS max_wr_counter, \* slots of the FIFO (50 in the code)
          Gap,            \* the distance the full test keeps (10 in the code)
          fifo_size,      \* bytes of a slot (64 in the code)
          MsgLens,        \* lengths of the messages that a USB command writes
          max_wir_len,    \* how much COMTASK_Rx3Function asks for at a time
          UINT32,         \* how many values a uint32_t has (2^32)
          MaxBytes        \* bound of the model: bytes accepted in all

ASSUME FifoAssumption == /\ max_wr_counter \in Nat /\ max_wr_counter > Gap
                         /\ Gap \in Nat /\ Gap > 1
                         /\ fifo_size \in Nat \ {0} /\ max_wir_len \in 1 .. UINT32 - 1
                         /\ MsgLens \subseteq Nat \ {0} /\ MaxBytes \in Nat
                         /\ UINT32 \in Nat /\ UINT32 > fifo_size

VARIABLES wr_index, rd_index,     \* the shared indices
          filled_len, fifo_buf,   \* the slots
          wPc, data_len, wIndex,  \* the writing side: what is left of its message
          rPc, cnt, rIndex,       \* the reading side: how much more it wants
          copied,                 \* what its last memcpy copied
          pushed,                 \* history: how many bytes were accepted
          taken,                  \* history: the bytes read, in order
          lapped, ranAhead,       \* history: an index has passed the other one
          torn                    \* history: a length changed under the reader

slotVars == <<wr_index, rd_index, filled_len, fifo_buf>>
writerVars == <<wPc, data_len, wIndex>>
readerVars == <<rPc, cnt, rIndex, copied>>
history == <<pushed, taken, lapped, ranAhead, torn>>
vars == <<slotVars, writerVars, readerVars, history>>

Slots == 0 .. max_wr_counter - 1
Pending == pushed - Len(taken)
Sound == ~lapped /\ ~ranAhead

Init == /\ wr_index = 0 /\ rd_index = 0
        /\ filled_len = [i \in Slots |-> 0]
        /\ fifo_buf = [i \in Slots |-> [j \in 1 .. fifo_size |-> 0]]
        /\ wPc = "idle" /\ data_len = 0 /\ wIndex = 0
        /\ rPc = "idle" /\ cnt = 0 /\ rIndex = 0 /\ copied = <<>>
        /\ pushed = 0 /\ taken = <<>>
        /\ lapped = FALSE /\ ranAhead = FALSE /\ torn = FALSE
-------------------------------------------------------------------------------
(* The writing side: usb_bypass_write cuts a message into blocks, and      *)
(* Tx3_Usb_Buffer_Push stores each of them or drops it.                    *)

Count == IF data_len >= fifo_size THEN fifo_size ELSE data_len

NextBlock(left) == IF left = 0 THEN "idle" ELSE "test"

(* Bound of the model: at most MaxBytes bytes are accepted. *)
Write(n) == /\ wPc = "idle"
            /\ pushed + n <= MaxBytes
            /\ data_len' = n
            /\ wPc' = "test"
            /\ UNCHANGED <<slotVars, wIndex, readerVars, history>>

(* The full test reads the volatile rec_rd_index twice. *)
TestGapOfNone == /\ wPc = "test"
                 /\ wPc' = IF rd_index < wr_index THEN "again" ELSE "store"
                 /\ UNCHANGED <<slotVars, data_len, wIndex, readerVars, history>>

TestGap == /\ wPc = "test"
           /\ wPc' = IF rd_index < wr_index + Gap THEN "again" ELSE "store"
           /\ UNCHANGED <<slotVars, data_len, wIndex, readerVars, history>>

TestSide == /\ wPc = "again"
            /\ IF rd_index > wr_index
               THEN data_len' = data_len - Count /\ wPc' = NextBlock(data_len')
               ELSE wPc' = "store" /\ UNCHANGED data_len
            /\ UNCHANGED <<slotVars, wIndex, readerVars, history>>

StoreBlock == /\ wPc = "store"
              /\ wIndex' = wr_index
              /\ fifo_buf' = [fifo_buf EXCEPT ![wr_index] =
                     [j \in 1 .. fifo_size |-> IF j <= Count THEN pushed + j ELSE @[j]]]
              /\ wPc' = "length"
              /\ UNCHANGED <<wr_index, rd_index, filled_len, data_len, readerVars, history>>

StoreLengthOfNext == /\ wPc = "length"
                     /\ filled_len' = [filled_len EXCEPT ![(wIndex + 1) % max_wr_counter] = Count]
                     /\ wPc' = "increment"
                     /\ UNCHANGED <<wr_index, rd_index, fifo_buf, data_len, wIndex,
                                    readerVars, history>>

StoreLength == /\ wPc = "length"
               /\ filled_len' = [filled_len EXCEPT ![wIndex] = Count]
               /\ wPc' = "increment"
               /\ UNCHANGED <<wr_index, rd_index, fifo_buf, data_len, wIndex,
                              readerVars, history>>

IncrementWr == /\ wPc = "increment"
               /\ wr_index' = wr_index + 1
               /\ pushed' = pushed + Count
               /\ data_len' = data_len - Count
               /\ wPc' = IF wr_index' = max_wr_counter THEN "wrap" ELSE NextBlock(data_len')
               /\ lapped' = (lapped \/ (wr_index' = rd_index /\ Pending > 0))
               /\ UNCHANGED <<rd_index, filled_len, fifo_buf, wIndex, readerVars,
                              taken, ranAhead, torn>>

WrapWr == /\ wPc = "wrap"
          /\ wr_index' = 0
          /\ lapped' = (lapped \/ (rd_index = 0 /\ Pending > 0))
          /\ wPc' = NextBlock(data_len)
          /\ UNCHANGED <<rd_index, filled_len, fifo_buf, data_len, wIndex, readerVars,
                         pushed, taken, ranAhead, torn>>
-------------------------------------------------------------------------------
(* The reading side: Usb_Tx3_Read collects whole blocks and at most one    *)
(* part of a block; the rest of that block moves to the front of its slot. *)

(* Bound of the model: the reader starts no further read once it has read  *)
(* more bytes than were ever accepted.                                     *)
Read == /\ rPc = "idle"
        /\ Len(taken) <= pushed
        /\ cnt' = max_wir_len
        /\ rPc' = "compare"
        /\ UNCHANGED <<slotVars, rIndex, copied, writerVars, history>>

CompareIndices == /\ rPc = "compare"
                  /\ IF cnt = 0 \/ rd_index = wr_index
                     THEN rPc' = "handover" /\ UNCHANGED <<rIndex, ranAhead>>
                     ELSE /\ rPc' = "take"
                          /\ rIndex' = rd_index
                          /\ ranAhead' = (ranAhead \/ Pending = 0)
                  /\ UNCHANGED <<slotVars, cnt, copied, writerVars, pushed, taken, lapped, torn>>

CompareLength == /\ rPc = "take"
                 /\ rPc' = IF cnt >= filled_len[rIndex] THEN "block" ELSE "part"
                 /\ UNCHANGED <<slotVars, cnt, rIndex, copied, writerVars, history>>

(* A length that grew since it was compared: memcpy writes behind buffer. *)
CopyBlock == /\ rPc = "block"
             /\ copied' = SubSeq(fifo_buf[rIndex], 1, filled_len[rIndex])
             /\ torn' = (filled_len[rIndex] > cnt)
             /\ rPc' = "advance"
             /\ UNCHANGED <<slotVars, cnt, rIndex, writerVars, pushed, taken, lapped, ranAhead>>

(* A length that changed since it was copied: buffer and cnt advance by    *)
(* another number of bytes.                                                *)
TakeBlock == /\ rPc = "advance"
             /\ taken' = taken \o copied
             /\ cnt' = (cnt - filled_len[rIndex]) % UINT32
             /\ torn' = (filled_len[rIndex] # Len(copied))
             /\ rPc' = "increment"
             /\ UNCHANGED <<slotVars, rIndex, copied, writerVars, pushed, lapped, ranAhead>>

CopyPart == /\ rPc = "part"
            /\ copied' = SubSeq(fifo_buf[rIndex], 1, cnt)
            /\ rPc' = "subtract"
            /\ UNCHANGED <<slotVars, cnt, rIndex, writerVars, history>>

(* A length that shrank since it was compared: the difference wraps, and   *)
(* the shift moves nearly 2^32 bytes.                                      *)
SubtractPart == /\ rPc = "subtract"
                /\ filled_len' = [filled_len EXCEPT ![rIndex] = (@ - cnt) % UINT32]
                /\ torn' = (filled_len[rIndex] < cnt)
                /\ rPc' = "shift"
                /\ UNCHANGED <<wr_index, rd_index, fifo_buf, cnt, rIndex, copied, writerVars,
                               pushed, taken, lapped, ranAhead>>

TakePartNoShift == /\ rPc = "shift"
                   /\ taken' = taken \o copied
                   /\ cnt' = 0
                   /\ rPc' = "compare"
                   /\ UNCHANGED <<slotVars, rIndex, copied, writerVars,
                                  pushed, lapped, ranAhead, torn>>

(* The slots lie one behind the other; behind the last one lie the other   *)
(* fields of the FIFO.                                                     *)
ByteAt(i, j) == IF j <= fifo_size THEN fifo_buf[i][j]
                ELSE IF i + 1 \in Slots THEN fifo_buf[i + 1][j - fifo_size] ELSE 0

TakePart == /\ rPc = "shift"
            /\ taken' = taken \o copied
            /\ fifo_buf' = [fifo_buf EXCEPT ![rIndex] =
                   [j \in 1 .. fifo_size |->
                       IF j <= filled_len[rIndex] THEN ByteAt(rIndex, j + cnt) ELSE @[j]]]
            /\ cnt' = 0
            /\ rPc' = "compare"
            /\ UNCHANGED <<wr_index, rd_index, filled_len, rIndex, copied, writerVars,
                           pushed, lapped, ranAhead, torn>>

IncrementRd == /\ rPc = "increment"
               /\ rd_index' = rd_index + 1
               /\ rPc' = IF rd_index' = max_wr_counter THEN "wrap" ELSE "compare"
               /\ UNCHANGED <<wr_index, filled_len, fifo_buf, cnt, rIndex, copied, writerVars,
                              history>>

WrapRdNever == /\ rPc = "wrap"
               /\ rPc' = "compare"
               /\ UNCHANGED <<slotVars, cnt, rIndex, copied, writerVars, history>>

WrapRdToOne == /\ rPc = "wrap"
               /\ rd_index' = 1
               /\ rPc' = "compare"
               /\ UNCHANGED <<wr_index, filled_len, fifo_buf, cnt, rIndex, copied, writerVars,
                              history>>

WrapRd == /\ rPc = "wrap"
          /\ rd_index' = 0
          /\ rPc' = "compare"
          /\ UNCHANGED <<wr_index, filled_len, fifo_buf, cnt, rIndex, copied, writerVars,
                              history>>

(* COMTASK_Rx3Function sends what it read.  A send that fails is only      *)
(* logged: either way the task forgets the data and goes on.               *)
Handover == /\ rPc = "handover"
            /\ rPc' = "idle"
            /\ UNCHANGED <<slotVars, cnt, rIndex, copied, writerVars, history>>
-------------------------------------------------------------------------------
(* The end of the model is a guard of each side, so that no step is owed then. *)
PushStep == ~torn /\ (TestGap \/ TestSide \/ StoreBlock \/ StoreLength \/ IncrementWr \/ WrapWr)

ReadStep == ~torn /\ \/ Read \/ CompareIndices \/ CompareLength
                     \/ CopyBlock \/ TakeBlock \/ CopyPart \/ SubtractPart \/ TakePart
                     \/ IncrementRd \/ WrapRd \/ Handover

UsbWrite == ~torn /\ \E n \in MsgLens : Write(n)

Next == UsbWrite \/ PushStep \/ ReadStep

Spec == Init /\ [][Next]_vars

(* Both sides are threads the scheduler runs; nobody has to write. *)
FairSpec == Spec /\ WF_vars(PushStep) /\ WF_vars(ReadStep)
-------------------------------------------------------------------------------
TypeOK == /\ wr_index \in 0 .. max_wr_counter /\ rd_index \in 0 .. max_wr_counter
          /\ filled_len \in [Slots -> 0 .. UINT32 - 1]
          /\ ~torn => \A i \in Slots : filled_len[i] <= fifo_size
          /\ fifo_buf \in [Slots -> [1 .. fifo_size -> 0 .. MaxBytes]]
          /\ wPc \in {"idle", "test", "again", "store", "length", "increment", "wrap"}
          /\ wIndex \in Slots /\ rIndex \in Slots
          /\ rPc \in {"idle", "compare", "take", "block", "advance", "part", "subtract",
                      "shift", "increment", "wrap", "handover"}
          /\ cnt \in 0 .. UINT32 - 1 /\ (~torn => cnt <= max_wir_len)
          /\ pushed \in 0 .. MaxBytes
          /\ copied \in Seq(0 .. MaxBytes) /\ taken \in Seq(0 .. MaxBytes)

(* The first time an index passes the other one, it does so in one of two  *)
(* ways: the writer wraps onto a reader that stands at slot 0 (the full    *)
(* test keeps its distance to every other slot), or the reader sees the    *)
(* writer's index before it wraps.                                         *)
PassesOnlyAtWrap == [][/\ (lapped' /\ Sound) => rd_index = 0 /\ wPc = "wrap"
                       /\ (ranAhead' /\ Sound) => wPc = "wrap" /\ wr_index = max_wr_counter]_vars

(* The reader uses a slot's length again and again (to compare, to copy,   *)
(* to advance; to subtract, to shift) and holds no lock: nothing but the   *)
(* distance of the indices keeps the writer from changing it in between.   *)
(* As long as no index has passed the other one, it never does.            *)
LengthsHeld == torn => ~Sound

(* Until an index passes the other one, the FIFO is the queue of ByteQueue *)
(* with room for every slot filled: the reader gets exactly the accepted   *)
(* bytes, once and in order, across blocks taken whole, blocks taken in    *)
(* parts and wraps of both indices; no more are pending than the slots     *)
(* hold; and the passing breaks the queue without moving a byte.           *)
Queue == INSTANCE ByteQueue WITH put <- pushed, got <- taken, broken <- ~Sound,
                                 Capacity <- max_wr_counter * fifo_size
ImplementsQueue == Queue!QueueSpec

(* When the hosts stop writing, the reader drains the FIFO, unless an      *)
(* index has passed the other one: no accepted byte stays behind.          *)
Drains == Pending > 0 ~> Pending = 0 \/ ~Sound

(* A push into a FIFO that holds a block in every slot but one is refused  *)
(* as full: the writer never catches up with the reader.                   *)
FullIsRefused == ~lapped
===============================================================================
