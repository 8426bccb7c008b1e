--------------------------- MODULE UsbBlockFifoProofs ---------------------------
(***************************************************************************)
(* Proofs about UsbBlockFifo for every number of slots, every size of a    *)
(* slot, of a message and of a read.  Whatever the indices do, they stay   *)
(* on the slots except for the moment before they wrap (IInv).  Until an   *)
(* index has passed the other one, the used slots hold the bytes from the  *)
(* first that was not taken to the last that was pushed, in order, and the *)
(* slot that the reader is at does not change between its steps (SoundInv). *)
(* These fit into the slots, and the FIFO implements ByteQueue.            *)
(***************************************************************************)
EXTENDS UsbBlockFifo, SequenceTheorems, TLAPS

Byte == 0 .. MaxBytes

(* The writer's message and its index; only before a wrap is the index     *)
(* past the last slot.                                                     *)
WriterInv ==
    /\ wPc \in {"idle", "test", "again", "store", "length", "increment", "wrap"}
    /\ wr_index \in 0 .. max_wr_counter /\ wIndex \in Slots
    /\ wr_index = max_wr_counter => wPc = "wrap"
    /\ data_len \in Nat /\ pushed \in Nat /\ pushed + data_len <= MaxBytes

ReaderInv ==
    /\ rPc \in {"idle", "compare", "take", "block", "advance", "part", "subtract", "shift",
                "increment", "wrap", "handover"}
    /\ rd_index \in 0 .. max_wr_counter /\ rIndex \in Slots
    /\ rd_index = max_wr_counter => rPc = "wrap"
    /\ cnt \in 0 .. UINT32 - 1 /\ (~torn => cnt <= max_wir_len)
    /\ rPc = "advance" /\ ~torn => Len(copied) <= cnt
    /\ rPc \in {"part", "subtract", "shift"} => cnt <= fifo_size

(* A length stays within its slot until it changes under the reader.       *)
SlotInv ==
    /\ filled_len \in [Slots -> 0 .. UINT32 - 1]
    /\ ~torn => \A i \in Slots : filled_len[i] <= fifo_size
    /\ fifo_buf \in [Slots -> [1 .. fifo_size -> Byte]]

TakenInv == taken \in Seq(Byte) /\ copied \in Seq(Byte)

IInv == WriterInv /\ ReaderInv /\ SlotInv /\ TakenInv
-------------------------------------------------------------------------------
(* A block is never longer than a slot, nor than what is left of the message. *)
LEMMA CountBounds ==
    ASSUME data_len \in Nat
    PROVE  Count \in 0 .. fifo_size /\ Count <= data_len
  BY FifoAssumption DEF FifoAssumption, Count

(* The beginning of a slot, as a sequence of what it holds. *)
LEMMA Beginning ==
    ASSUME NEW b \in [1 .. fifo_size -> Byte], NEW n \in 0 .. fifo_size
    PROVE  /\ SubSeq(b, 1, n) \in Seq(Byte) /\ Len(SubSeq(b, 1, n)) = n
           /\ \A i \in 1 .. n : SubSeq(b, 1, n)[i] = b[i]
<1>1. b \in Seq(Byte) /\ Len(b) = fifo_size
  BY FifoAssumption DEF FifoAssumption
<1>2. n \in Nat /\ n <= Len(b) /\ fifo_size \in Nat
  BY <1>1, FifoAssumption DEF FifoAssumption
<1> QED BY <1>1, <1>2, SubSeqProperties

(* A 32-bit difference that does not wrap, and one that may. *)
LEMMA Difference ==
    ASSUME NEW a \in 0 .. UINT32 - 1, NEW b \in 0 .. UINT32 - 1
    PROVE  /\ (a - b) % UINT32 \in 0 .. UINT32 - 1
           /\ b <= a => (a - b) % UINT32 = a - b
<1>1. UINT32 \in Nat \ {0}
  BY FifoAssumption DEF FifoAssumption
<1>2. b <= a => a - b \in 0 .. UINT32 - 1
  BY ONLY <1>1
<1>3. \A d \in 0 .. UINT32 - 1 : d % UINT32 = d
  BY ONLY <1>1
<1>4. a - b \in Int
  BY ONLY <1>1
<1>5. \A d \in Int : d % UINT32 \in 0 .. UINT32 - 1
  BY ONLY <1>1
<1> QED BY ONLY <1>2, <1>3, <1>4, <1>5
-------------------------------------------------------------------------------
(* The writing side. *)
LEMMA WriterStep ==
    ASSUME IInv, UsbWrite \/ PushStep
    PROVE  IInv'
<1> USE FifoAssumption DEF FifoAssumption
<1>0. WriterInv /\ ReaderInv /\ SlotInv /\ TakenInv
  BY DEF IInv
<1>00. data_len \in Nat /\ Count \in 0 .. fifo_size /\ Count <= data_len
  BY ONLY <1>0, CountBounds DEF WriterInv
<1>01. ASSUME UNCHANGED <<rd_index, readerVars, torn>> PROVE ReaderInv'
  BY ONLY <1>0, <1>01 DEF ReaderInv, readerVars
<1>02. ASSUME UNCHANGED <<taken, readerVars>> PROVE TakenInv'
  BY ONLY <1>0, <1>02 DEF TakenInv, readerVars
<1>03. ASSUME UNCHANGED <<filled_len, fifo_buf, torn>> PROVE SlotInv'
  BY ONLY <1>0, <1>03 DEF SlotInv
<1>1. ASSUME NEW n \in MsgLens, Write(n) PROVE IInv'
  <2>1. WriterInv'
    BY <1>0, <1>1 DEF Write, WriterInv, slotVars, history
  <2> QED BY ONLY <1>01, <1>02, <1>03, <1>1, <2>1 DEF Write, slotVars, history, IInv
<1>2. CASE TestGap
  <2>1. WriterInv'
    BY <1>0, <1>2 DEF TestGap, WriterInv, slotVars, history
  <2> QED BY ONLY <1>01, <1>02, <1>03, <1>2, <2>1 DEF TestGap, slotVars, history, IInv
<1>3. CASE TestSide
  <2>1. WriterInv'
    BY <1>0, <1>00, <1>3 DEF TestSide, NextBlock, WriterInv, slotVars, history
  <2>2. UNCHANGED <<slotVars, readerVars, history>>
    BY ONLY <1>3 DEF TestSide
  <2> QED BY ONLY <1>01, <1>02, <1>03, <2>1, <2>2 DEF slotVars, history, IInv
<1>4. CASE StoreBlock
  <2>1. /\ UNCHANGED <<wr_index, rd_index, filled_len, data_len, readerVars, history>>
        /\ wPc = "store" /\ wPc' = "length" /\ wIndex' = wr_index
        /\ fifo_buf' = [fifo_buf EXCEPT ![wr_index] =
               [j \in 1 .. fifo_size |-> IF j <= Count THEN pushed + j ELSE fifo_buf[wr_index][j]]]
    BY ONLY <1>4 DEF StoreBlock
  <2>2. wr_index \in Slots /\ WriterInv'
    BY <1>0, <2>1 DEF WriterInv, Slots, history
  <2>3. /\ pushed \in Nat /\ pushed + Count <= MaxBytes /\ MaxBytes \in Nat
        /\ fifo_buf \in [Slots -> [1 .. fifo_size -> Byte]]
    BY <1>0, <1>00, <2>1 DEF WriterInv, SlotInv
  <2> DEFINE b == [j \in 1 .. fifo_size |-> IF j <= Count THEN pushed + j ELSE fifo_buf[wr_index][j]]
  <2>4. \A j \in 1 .. fifo_size : b[j] \in Byte
    <3>1. \A j \in 1 .. Count : pushed + j \in Byte
      BY ONLY <1>00, <2>3, FifoAssumption DEF Byte, FifoAssumption
    <3>2. \A j \in 1 .. fifo_size : fifo_buf[wr_index][j] \in Byte
      BY ONLY <2>2, <2>3
    <3>3. \A j \in 1 .. fifo_size : j <= Count => j \in 1 .. Count
      BY ONLY <1>00, FifoAssumption DEF FifoAssumption
    <3> QED BY ONLY <3>1, <3>2, <3>3
  <2>5. b \in [1 .. fifo_size -> Byte]
    BY ONLY <2>4
  <2> HIDE DEF b
  <2>6. fifo_buf' = [fifo_buf EXCEPT ![wr_index] = b]
    BY ONLY <2>1 DEF b
  <2>7. fifo_buf' \in [Slots -> [1 .. fifo_size -> Byte]]
    BY ONLY <2>2, <2>3, <2>5, <2>6
  <2>8. SlotInv'
    BY ONLY <1>0, <2>1, <2>7 DEF SlotInv, history
  <2> QED BY ONLY <1>01, <1>02, <2>1, <2>2, <2>8 DEF IInv, history
<1>5. CASE StoreLength
  <2>1. /\ UNCHANGED <<wr_index, rd_index, fifo_buf, data_len, wIndex, readerVars, history>>
        /\ wPc = "length" /\ wPc' = "increment"
        /\ filled_len' = [filled_len EXCEPT ![wIndex] = Count]
    BY ONLY <1>5 DEF StoreLength
  <2>2. wIndex \in Slots /\ WriterInv'
    BY <1>0, <2>1 DEF WriterInv, history
  <2>3. /\ filled_len \in [Slots -> 0 .. UINT32 - 1]
        /\ ~torn => \A i \in Slots : filled_len[i] <= fifo_size
        /\ fifo_buf' \in [Slots -> [1 .. fifo_size -> Byte]] /\ torn' = torn
    BY ONLY <1>0, <2>1 DEF SlotInv, history
  <2>4. Count \in 0 .. UINT32 - 1 /\ Count <= fifo_size
    BY <1>00
  <2>5. filled_len' \in [Slots -> 0 .. UINT32 - 1]
    BY ONLY <2>1, <2>2, <2>3, <2>4
  <2>6. \A i \in Slots : filled_len'[i] = IF i = wIndex THEN Count ELSE filled_len[i]
    BY ONLY <2>1, <2>2, <2>3
  <2>7. SlotInv'
    BY ONLY <2>3, <2>4, <2>5, <2>6 DEF SlotInv
  <2> QED BY ONLY <1>01, <1>02, <2>1, <2>2, <2>7 DEF IInv, history
<1>6. CASE IncrementWr
  <2>1. /\ UNCHANGED <<rd_index, filled_len, fifo_buf, wIndex, readerVars, taken, torn>>
        /\ wPc = "increment" /\ wr_index' = wr_index + 1
        /\ pushed' = pushed + Count /\ data_len' = data_len - Count
        /\ wPc' = IF wr_index' = max_wr_counter THEN "wrap" ELSE NextBlock(data_len')
    BY ONLY <1>6 DEF IncrementWr
  <2>2. wPc' \in {"idle", "test", "wrap"} /\ (wr_index' = max_wr_counter => wPc' = "wrap")
    BY ONLY <2>1 DEF NextBlock
  <2>3. WriterInv'
    BY <1>0, <1>00, <2>1, <2>2 DEF WriterInv
  <2> QED BY ONLY <1>01, <1>02, <1>03, <2>1, <2>3 DEF IInv
<1>7. CASE WrapWr
  <2>1. /\ UNCHANGED <<rd_index, filled_len, fifo_buf, data_len, wIndex, readerVars, pushed, taken, torn>>
        /\ wr_index' = 0 /\ wPc' = NextBlock(data_len)
    BY ONLY <1>7 DEF WrapWr
  <2>2. wPc' \in {"idle", "test"}
    BY ONLY <2>1 DEF NextBlock
  <2>3. WriterInv'
    BY <1>0, <2>1, <2>2 DEF WriterInv
  <2> QED BY ONLY <1>01, <1>02, <1>03, <2>1, <2>3 DEF IInv
<1> QED BY <1>1, <1>2, <1>3, <1>4, <1>5, <1>6, <1>7 DEF UsbWrite, PushStep
-------------------------------------------------------------------------------
(* The reading side. *)
LEMMA ReaderStep == ASSUME IInv, ReadStep PROVE IInv'
<1> USE FifoAssumption DEF FifoAssumption
<1>0. WriterInv /\ ReaderInv /\ SlotInv /\ TakenInv /\ ~torn
  BY DEF IInv, ReadStep
<1>01. ASSUME UNCHANGED <<wr_index, writerVars, pushed>> PROVE WriterInv'
  BY ONLY <1>0, <1>01 DEF WriterInv, writerVars
<1>02. ASSUME UNCHANGED <<taken, copied>> PROVE TakenInv'
  BY ONLY <1>0, <1>02 DEF TakenInv
<1>03. ASSUME UNCHANGED <<filled_len, fifo_buf>> PROVE SlotInv'
  BY ONLY <1>0, <1>03 DEF SlotInv
<1>1. /\ rIndex \in Slots /\ filled_len[rIndex] \in 0 .. fifo_size
      /\ filled_len[rIndex] \in 0 .. UINT32 - 1
      /\ fifo_buf[rIndex] \in [1 .. fifo_size -> Byte]
      /\ cnt \in 0 .. UINT32 - 1 /\ cnt <= max_wir_len
  BY <1>0 DEF ReaderInv, SlotInv
<1>2. ASSUME Read \/ CompareIndices \/ CompareLength \/ Handover PROVE IInv'
  <2>1. UNCHANGED <<slotVars, copied, writerVars, pushed, taken, torn>>
    BY ONLY <1>2 DEF Read, CompareIndices, CompareLength, Handover, history
  <2>2. ReaderInv'
    <3>1. CASE Read
      BY <1>0, <2>1, <3>1 DEF Read, ReaderInv, slotVars
    <3>2. CASE CompareIndices
      BY <1>0, <2>1, <3>2 DEF CompareIndices, ReaderInv, Slots, slotVars
    <3>3. CASE CompareLength
      BY <1>0, <1>1, <2>1, <3>3 DEF CompareLength, ReaderInv, slotVars
    <3>4. CASE Handover
      BY <1>0, <2>1, <3>4 DEF Handover, ReaderInv, slotVars
    <3> QED BY ONLY <1>2, <3>1, <3>2, <3>3, <3>4
  <2> QED BY ONLY <1>01, <1>02, <1>03, <2>1, <2>2 DEF slotVars, IInv
<1>3. CASE CopyBlock
  <2>1. /\ UNCHANGED <<slotVars, cnt, rIndex, writerVars, pushed, taken>> /\ rPc = "block" /\ rPc' = "advance"
        /\ copied' = SubSeq(fifo_buf[rIndex], 1, filled_len[rIndex])
        /\ torn' = (filled_len[rIndex] > cnt)
    BY ONLY <1>3 DEF CopyBlock
  <2>2. copied' \in Seq(Byte) /\ Len(copied') = filled_len[rIndex]
    BY ONLY <1>1, <2>1, Beginning
  <2>3. ReaderInv'
    <3>1. ~torn' => ~(filled_len[rIndex] > cnt)
      BY ONLY <2>1, Zenon
    <3>2. ~(filled_len[rIndex] > cnt) => Len(copied') <= cnt
      BY ONLY <1>1, <2>2, FifoAssumption DEF FifoAssumption
    <3>3. /\ rPc' = "advance" /\ UNCHANGED <<rd_index, cnt, rIndex>> /\ cnt <= max_wir_len
          /\ (~torn' => Len(copied') <= cnt) /\ rd_index # max_wr_counter
      BY ONLY <1>0, <1>1, <2>1, <3>1, <3>2 DEF ReaderInv, slotVars
    <3> QED BY ONLY <1>0, <3>3 DEF ReaderInv
  <2>4. TakenInv'
    BY ONLY <1>0, <2>1, <2>2 DEF TakenInv
  <2> QED BY ONLY <1>01, <1>03, <2>1, <2>3, <2>4 DEF slotVars, IInv
<1>4. CASE TakeBlock
  <2>1. /\ UNCHANGED <<slotVars, copied, rIndex, writerVars, pushed>> /\ rPc = "advance" /\ rPc' = "increment"
        /\ taken' = taken \o copied
        /\ cnt' = (cnt - filled_len[rIndex]) % UINT32
        /\ torn' = (filled_len[rIndex] # Len(copied))
    BY ONLY <1>4 DEF TakeBlock
  <2>2. cnt' \in 0 .. UINT32 - 1 /\ (~torn' => cnt' <= max_wir_len)
    <3>1. ~torn' => filled_len[rIndex] <= cnt
      BY ONLY <1>0, <2>1 DEF ReaderInv
    <3>2. filled_len[rIndex] <= cnt => (cnt - filled_len[rIndex]) % UINT32 = cnt - filled_len[rIndex]
      BY ONLY <1>1, Difference
    <3>3. cnt' \in 0 .. UINT32 - 1
      BY ONLY <1>1, <2>1, Difference
    <3> QED BY <1>1, <2>1, <3>1, <3>2, <3>3
  <2>3. ReaderInv'
    BY <1>0, <2>1, <2>2 DEF ReaderInv, slotVars
  <2>4. TakenInv'
    BY ONLY <1>0, <2>1, ConcatProperties DEF TakenInv
  <2> QED BY ONLY <1>01, <1>03, <2>1, <2>3, <2>4 DEF slotVars, IInv
<1>5. CASE CopyPart
  <2>1. /\ UNCHANGED <<slotVars, cnt, rIndex, writerVars, pushed, taken, torn>>
        /\ rPc = "part" /\ rPc' = "subtract"
        /\ copied' = SubSeq(fifo_buf[rIndex], 1, cnt)
    BY ONLY <1>5 DEF CopyPart, history
  <2>2. cnt \in 0 .. fifo_size
    BY <1>0, <1>1, <2>1 DEF ReaderInv
  <2>3. copied' \in Seq(Byte)
    BY ONLY <1>1, <2>1, <2>2, Beginning
  <2>4. ReaderInv'
    BY <1>0, <2>1 DEF ReaderInv, slotVars
  <2>5. TakenInv'
    BY ONLY <1>0, <2>1, <2>3 DEF TakenInv
  <2> QED BY ONLY <1>01, <1>03, <2>1, <2>4, <2>5 DEF slotVars, IInv
<1>6. CASE SubtractPart
  <2> DEFINE d == (filled_len[rIndex] - cnt) % UINT32
  <2>1. /\ UNCHANGED <<wr_index, rd_index, fifo_buf, cnt, rIndex, copied, writerVars, pushed, taken>>
        /\ rPc = "subtract" /\ rPc' = "shift"
        /\ filled_len' = [filled_len EXCEPT ![rIndex] = d]
        /\ torn' = (filled_len[rIndex] < cnt)
    BY ONLY <1>6 DEF SubtractPart
  <2>2. d \in 0 .. UINT32 - 1 /\ (cnt <= filled_len[rIndex] => d = filled_len[rIndex] - cnt)
    BY ONLY <1>1, Difference
  <2> HIDE DEF d
  <2>3. filled_len' \in [Slots -> 0 .. UINT32 - 1]
    BY ONLY <1>0, <1>1, <2>1, <2>2 DEF SlotInv
  <2>4. ~torn' => \A i \in Slots : filled_len'[i] <= fifo_size
    <3>1. ~torn' => d <= fifo_size
      <4>1. ~torn' => ~(filled_len[rIndex] < cnt)
        BY ONLY <2>1, Zenon
      <4>2. ~(filled_len[rIndex] < cnt) => cnt <= filled_len[rIndex] /\ filled_len[rIndex] - cnt <= fifo_size
        BY <1>1
      <4> QED BY ONLY <2>2, <4>1, <4>2
    <3>2. \A i \in Slots : filled_len'[i] = IF i = rIndex THEN d ELSE filled_len[i]
      BY ONLY <1>0, <1>1, <2>1 DEF SlotInv
    <3> QED BY ONLY <1>0, <3>1, <3>2 DEF SlotInv
  <2>5. SlotInv'
    BY ONLY <1>0, <2>1, <2>3, <2>4 DEF SlotInv
  <2>6. ReaderInv'
    BY <1>0, <2>1 DEF ReaderInv
  <2> QED BY ONLY <1>01, <1>02, <2>1, <2>5, <2>6 DEF IInv
<1>7. CASE TakePart
  <2> DEFINE b == [j \in 1 .. fifo_size |-> IF j <= filled_len[rIndex] THEN ByteAt(rIndex, j + cnt)
                                            ELSE fifo_buf[rIndex][j]]
  <2>1. /\ UNCHANGED <<wr_index, rd_index, filled_len, rIndex, copied, writerVars, pushed, torn>>
        /\ taken' = taken \o copied
        /\ fifo_buf' = [fifo_buf EXCEPT ![rIndex] = b]
        /\ cnt' = 0 /\ rPc = "shift" /\ rPc' = "compare"
    BY ONLY <1>7 DEF TakePart
  <2>2. cnt \in 0 .. fifo_size
    BY <1>0, <1>1, <2>1 DEF ReaderInv
  <2>3. \A j \in 1 .. fifo_size : ByteAt(rIndex, j + cnt) \in Byte
    <3> SUFFICES ASSUME NEW j \in 1 .. fifo_size PROVE ByteAt(rIndex, j + cnt) \in Byte
      OBVIOUS
    <3>1. CASE j + cnt <= fifo_size
      <4>1. j + cnt \in 1 .. fifo_size
        BY <2>2, <3>1
      <4> QED BY ONLY <1>1, <3>1, <4>1 DEF ByteAt
    <3>2. CASE ~(j + cnt <= fifo_size) /\ rIndex + 1 \in Slots
      <4>1. (j + cnt) - fifo_size \in 1 .. fifo_size
        BY <2>2, <3>2
      <4>2. fifo_buf[rIndex + 1][(j + cnt) - fifo_size] \in Byte
        BY ONLY <1>0, <3>2, <4>1 DEF SlotInv
      <4> QED BY ONLY <3>2, <4>2 DEF ByteAt
    <3>3. CASE ~(j + cnt <= fifo_size) /\ rIndex + 1 \notin Slots
      <4>1. 0 \in Byte
        BY DEF Byte
      <4> QED BY ONLY <3>3, <4>1 DEF ByteAt
    <3> QED BY ONLY <3>1, <3>2, <3>3
  <2>4. b \in [1 .. fifo_size -> Byte]
    <3>1. \A j \in 1 .. fifo_size : b[j] \in Byte
      BY ONLY <1>1, <2>3
    <3> QED BY ONLY <3>1
  <2> HIDE DEF b
  <2>5. fifo_buf' \in [Slots -> [1 .. fifo_size -> Byte]]
    BY ONLY <1>0, <1>1, <2>1, <2>4 DEF SlotInv
  <2>6. SlotInv'
    BY ONLY <1>0, <2>1, <2>5 DEF SlotInv
  <2>7. ReaderInv'
    BY <1>0, <2>1 DEF ReaderInv
  <2>8. TakenInv'
    BY ONLY <1>0, <2>1, ConcatProperties DEF TakenInv
  <2> QED BY ONLY <1>01, <2>1, <2>6, <2>7, <2>8 DEF IInv
<1>8. CASE IncrementRd
  <2>1. UNCHANGED <<wr_index, filled_len, fifo_buf, cnt, rIndex, copied, writerVars, history>>
    BY ONLY <1>8 DEF IncrementRd
  <2>2. ReaderInv'
    BY <1>0, <1>8 DEF IncrementRd, ReaderInv, history
  <2> QED BY ONLY <1>01, <1>02, <1>03, <2>1, <2>2 DEF history, IInv
<1>9. CASE WrapRd
  <2>1. UNCHANGED <<wr_index, filled_len, fifo_buf, cnt, rIndex, copied, writerVars, history>>
    BY ONLY <1>9 DEF WrapRd
  <2>2. ReaderInv'
    BY <1>0, <1>9 DEF WrapRd, ReaderInv, history
  <2> QED BY ONLY <1>01, <1>02, <1>03, <2>1, <2>2 DEF history, IInv
<1> QED BY <1>2, <1>3, <1>4, <1>5, <1>6, <1>7, <1>8, <1>9 DEF ReadStep
-------------------------------------------------------------------------------
LEMMA Initially == Init => IInv
<1> SUFFICES ASSUME Init PROVE IInv
  OBVIOUS
<1> USE FifoAssumption DEF FifoAssumption, Init
<1>1. 0 \in Slots /\ 0 \in Byte
  BY DEF Slots, Byte
<1>2. WriterInv /\ ReaderInv
  BY <1>1 DEF WriterInv, ReaderInv
<1>3. SlotInv
  <2>1. fifo_buf \in [Slots -> [1 .. fifo_size -> Byte]]
    BY <1>1
  <2>2. filled_len \in [Slots -> 0 .. UINT32 - 1] /\ \A i \in Slots : filled_len[i] <= fifo_size
    OBVIOUS
  <2> QED BY ONLY <2>1, <2>2 DEF SlotInv
<1>4. TakenInv
  BY DEF TakenInv
<1> QED BY <1>2, <1>3, <1>4 DEF IInv

LEMMA Inductive == IInv /\ [Next]_vars => IInv'
<1> SUFFICES ASSUME IInv, [Next]_vars PROVE IInv'
  OBVIOUS
<1>1. CASE UNCHANGED vars
  BY <1>1 DEF vars, slotVars, writerVars, readerVars, history, IInv,
              WriterInv, ReaderInv, SlotInv, TakenInv
<1> QED BY <1>1, WriterStep, ReaderStep DEF Next

(* The state of both sides and of the slots, between any two accesses to   *)
(* the indices, for every geometry of the FIFO.                            *)
THEOREM Invariance == Spec => []IInv
  BY Initially, Inductive, PTL DEF Spec

(* Each index stays on the slots, or one past the last one before it       *)
(* wraps, whichever side has passed the other; and until a length changes  *)
(* under the reader, no slot is said to hold more than its size and the    *)
(* reader wants no more than it asked for.                                 *)
THEOREM TypeCorrect == Spec => []TypeOK
<1>1. IInv => TypeOK
  <2> SUFFICES ASSUME IInv PROVE TypeOK
    OBVIOUS
  <2>1. WriterInv /\ ReaderInv /\ SlotInv /\ TakenInv
    BY DEF IInv
  <2>2. pushed \in 0 .. MaxBytes
    BY <2>1, FifoAssumption DEF FifoAssumption, WriterInv
  <2> QED BY ONLY <2>1, <2>2 DEF TypeOK, WriterInv, ReaderInv, SlotInv, TakenInv, Byte
<1> QED BY <1>1, Invariance, PTL
-------------------------------------------------------------------------------
(* As long as no index has passed the other one, the used slots hold the   *)
(* bytes from the first that was not taken to the last that was pushed.    *)
(* The first used slot is the reader's or, when that one is taken, the one *)
(* after it; an index may be one past the end.                             *)
First == IF rPc = "increment" THEN rd_index + 1 ELSE rd_index

(* Both indices are at the end, but only the reader's has wrapped: the     *)
(* slots look full and are empty.                                          *)
Hollow == First = 0 /\ wr_index = max_wr_counter /\ Len(taken) = pushed

Used(i) == /\ ~Hollow
           /\ IF First <= wr_index THEN First <= i /\ i < wr_index
              ELSE First <= i \/ i < wr_index

Empty == First = wr_index \/ (First = max_wr_counter /\ wr_index = 0) \/ Hollow

IsFirst(i) == i = First \/ (First = max_wr_counter /\ i = 0)
IsLast(i) == i + 1 = wr_index \/ (wr_index = 0 /\ i + 1 = max_wr_counter)
After(i) == IF i + 1 = max_wr_counter THEN 0 ELSE i + 1

(* How many bytes lie in a slot: its length, and those that the reader has *)
(* subtracted from it but not yet shifted out.                             *)
Filled(i) == IF rPc = "shift" /\ i = rIndex THEN filled_len[i] + cnt ELSE filled_len[i]

(* A slot's first byte, its length, and the bytes in between. *)
Block(i) == /\ Filled(i) >= 1
            /\ \A j \in 1 .. Filled(i) : fifo_buf[i][j] = fifo_buf[i][1] + j - 1
            /\ fifo_buf[i][1] + Filled(i) <= pushed + 1

(* From a slot to the writer, no slot holds more than its size. *)
SlotsAhead(i) == IF i < wr_index THEN wr_index - i ELSE wr_index + max_wr_counter - i
Fits(i) == pushed + 1 <= fifo_buf[i][1] + SlotsAhead(i) * fifo_size

ChainInv ==
    /\ \A i \in Slots : Used(i) => Block(i)
    /\ \A i \in Slots : Used(i) => Fits(i)
    /\ \A i \in Slots : Used(i) /\ IsFirst(i) => fifo_buf[i][1] = Len(taken) + 1
    /\ \A i \in Slots : Used(i) /\ IsLast(i) => fifo_buf[i][1] + Filled(i) = pushed + 1
    /\ \A i \in Slots : Used(i) /\ ~IsLast(i) =>
           fifo_buf[After(i)][1] = fifo_buf[i][1] + Filled(i)
    /\ Empty => Len(taken) = pushed
    /\ \A k \in 1 .. Len(taken) : taken[k] = k

(* The writer keeps its distance, and what it has stored so far. *)
StoringInv ==
    /\ wPc = "wrap" => wr_index = max_wr_counter
    /\ wPc \notin {"idle", "wrap"} => data_len >= 1
    /\ wPc \in {"store", "length", "increment"} => rd_index <= wr_index \/ rd_index >= wr_index + 2
    /\ wPc \in {"length", "increment"} =>
           wIndex = wr_index /\ \A j \in 1 .. Count : fifo_buf[wr_index][j] = pushed + j
    /\ wPc = "increment" => filled_len[wr_index] = Count

(* Where the reader is; the slot it takes from is in use.                  *)
Taking == {"take", "block", "advance", "part", "subtract", "shift"}
TakingInv ==
    /\ rPc = "wrap" => rd_index = max_wr_counter
    /\ rPc \in Taking => rIndex = rd_index /\ Used(rd_index)
    /\ rPc = "increment" => rd_index # wr_index

(* What the reader has seen of a slot still holds.                         *)
HoldingInv ==
    /\ rPc \in {"block", "advance"} => filled_len[rIndex] <= cnt
    /\ rPc \in {"part", "subtract"} => cnt < filled_len[rIndex]
    /\ rPc = "shift" => filled_len[rIndex] >= 1 /\ filled_len[rIndex] + cnt <= fifo_size
    /\ rPc = "advance" => copied = SubSeq(fifo_buf[rIndex], 1, filled_len[rIndex])
    /\ rPc \in {"subtract", "shift"} => copied = SubSeq(fifo_buf[rIndex], 1, cnt)

SoundInv == ~torn /\ ChainInv /\ StoringInv /\ TakingInv /\ HoldingInv

(* What the invariant above says of the types, as the steps below use it. *)
Typed == /\ max_wr_counter \in Nat /\ max_wr_counter >= 3 /\ Slots = 0 .. max_wr_counter - 1
         /\ wr_index \in 0 .. max_wr_counter /\ rd_index \in 0 .. max_wr_counter
         /\ wr_index = max_wr_counter => wPc = "wrap"
         /\ rd_index = max_wr_counter => rPc = "wrap"
         /\ wIndex \in Slots /\ rIndex \in Slots
         /\ filled_len \in [Slots -> 0 .. fifo_size] /\ \A i \in Slots : Filled(i) \in 0 .. fifo_size
         /\ fifo_buf \in [Slots -> [1 .. fifo_size -> Byte]]
         /\ fifo_size \in Nat /\ fifo_size >= 1 /\ Byte \subseteq Nat
         /\ pushed \in Nat /\ data_len \in Nat /\ cnt \in Nat /\ Len(taken) \in Nat

LEMMA IsTyped == ASSUME IInv, SoundInv PROVE Typed
<1> USE FifoAssumption DEF FifoAssumption
<1>1. WriterInv /\ ReaderInv /\ SlotInv /\ TakenInv
  BY DEF IInv
<1>2. Len(taken) \in Nat
  BY ONLY <1>1, LenProperties DEF TakenInv
<1>3. Byte \subseteq Nat
  BY DEF Byte
<1>4. max_wr_counter \in Nat /\ max_wr_counter >= 3 /\ Slots = 0 .. max_wr_counter - 1
  BY DEF Slots
<1>5. fifo_size \in Nat /\ fifo_size >= 1
  OBVIOUS
<1>6. /\ wr_index \in 0 .. max_wr_counter /\ rd_index \in 0 .. max_wr_counter
      /\ wr_index = max_wr_counter => wPc = "wrap"
      /\ rd_index = max_wr_counter => rPc = "wrap"
      /\ wIndex \in Slots /\ rIndex \in Slots
      /\ pushed \in Nat /\ data_len \in Nat /\ cnt \in Nat
  BY ONLY <1>1, FifoAssumption DEF WriterInv, ReaderInv, FifoAssumption
<1>7. /\ filled_len \in [Slots -> 0 .. UINT32 - 1] /\ \A i \in Slots : filled_len[i] <= fifo_size
      /\ fifo_buf \in [Slots -> [1 .. fifo_size -> Byte]]
  BY ONLY <1>1, SoundInv DEF SlotInv, SoundInv
<1>8. \A i \in Slots : filled_len[i] \in 0 .. fifo_size
  BY ONLY <1>7, FifoAssumption DEF FifoAssumption
<1>9. filled_len \in [Slots -> 0 .. fifo_size]
  BY ONLY <1>7, <1>8
<1>10. \A i \in Slots : Filled(i) \in 0 .. fifo_size
  <2>1. rPc = "shift" => filled_len[rIndex] + cnt <= fifo_size
    BY ONLY SoundInv DEF SoundInv, HoldingInv
  <2> QED BY ONLY <1>5, <1>6, <1>8, <2>1 DEF Filled
<1> QED BY ONLY <1>2, <1>3, <1>4, <1>5, <1>6, <1>7, <1>9, <1>10 DEF Typed

(* Reading n bytes of a slot that continues what was taken. *)
LEMMA Appended ==
    ASSUME TakenInv, NEW b \in [1 .. fifo_size -> Byte], NEW n \in 0 .. fifo_size,
           \A j \in 1 .. n : b[j] = Len(taken) + j,
           \A k \in 1 .. Len(taken) : taken[k] = k
    PROVE  /\ Len(taken \o SubSeq(b, 1, n)) = Len(taken) + n
           /\ \A k \in 1 .. Len(taken) + n : (taken \o SubSeq(b, 1, n))[k] = k
<1>2. n \in Nat
  BY FifoAssumption DEF FifoAssumption
<1> DEFINE s == SubSeq(b, 1, n)
<1>3. s \in Seq(Byte) /\ Len(s) = n /\ \A i \in 1 .. n : s[i] = b[i]
  BY Beginning
<1>4. taken \in Seq(Byte)
  BY DEF TakenInv
<1> HIDE DEF s
<1>5. Len(taken \o s) = Len(taken) + Len(s) /\ Len(taken) \in Nat
      /\ \A k \in 1 .. Len(taken) + Len(s) :
             (taken \o s)[k] = IF k <= Len(taken) THEN taken[k] ELSE s[k - Len(taken)]
  BY ONLY <1>3, <1>4, ConcatProperties, LenProperties
<1>6. ASSUME NEW k \in 1 .. Len(taken) + n PROVE (taken \o s)[k] = k
  <2>1. CASE k <= Len(taken)
    BY <1>2, <1>3, <1>5, <2>1
  <2>2. CASE ~(k <= Len(taken))
    <3>1. k - Len(taken) \in 1 .. n
      BY <1>2, <1>5, <2>2
    <3> QED BY <1>2, <1>3, <1>5, <2>2, <3>1
  <2> QED BY <2>1, <2>2
<1> QED BY <1>3, <1>5, <1>6 DEF s
-------------------------------------------------------------------------------
(* A step that moves no byte and no index. *)
LEMMA ChainSame ==
    ASSUME ChainInv, First' = First, UNCHANGED <<wr_index, fifo_buf, pushed, taken>>,
           \A i \in Slots : Filled(i)' = Filled(i)
    PROVE  ChainInv' /\ (\A i : Used(i)' <=> Used(i))
<1>1. Hollow' <=> Hollow
  BY DEF Hollow
<1>2. \A i : Used(i)' <=> Used(i)
  BY <1>1 DEF Used
<1>3. Empty' <=> Empty
  BY <1>1 DEF Empty
<1>4. \A i \in Slots : (IsFirst(i)' <=> IsFirst(i)) /\ (IsLast(i)' <=> IsLast(i))
             /\ (Block(i)' <=> Block(i)) /\ (Fits(i)' <=> Fits(i))
  BY DEF IsFirst, IsLast, Block, Fits, SlotsAhead
<1> QED BY <1>2, <1>3, <1>4 DEF ChainInv, After

LEMMA Entries ==
    ASSUME Typed, NEW i \in Slots
    PROVE  /\ fifo_buf[i][1] \in Nat /\ Filled(i) \in 0 .. fifo_size /\ Filled(i) \in Nat
           /\ pushed \in Nat /\ Len(taken) \in Nat
<1>1. /\ fifo_buf \in [Slots -> [1 .. fifo_size -> Byte]] /\ Byte \subseteq Nat
      /\ fifo_size \in Nat /\ fifo_size >= 1 /\ \A k \in Slots : Filled(k) \in 0 .. fifo_size
      /\ pushed \in Nat /\ Len(taken) \in Nat
  BY DEF Typed
<1>2. 1 \in 1 .. fifo_size /\ fifo_buf[i] \in [1 .. fifo_size -> Byte]
  BY ONLY <1>1, i \in Slots
<1>3. fifo_buf[i][1] \in Byte
  BY ONLY <1>2
<1>4. Filled(i) \in 0 .. fifo_size
  BY ONLY <1>1, i \in Slots
<1>5. fifo_buf[i][1] \in Nat
  BY <1>3 DEF Byte
<1>6. Filled(i) \in Nat
  BY ONLY <1>1, <1>4
<1> QED BY ONLY <1>1, <1>4, <1>5, <1>6

(* The slot that the writer is about to fill is not in use. *)
LEMMA FreeSlot ==
    ASSUME Typed, wr_index \in Slots
    PROVE  ~Used(wr_index) /\ \A i \in Slots : Used(i) /\ ~IsLast(i) => After(i) # wr_index
<1>1. First \in Int
  BY DEF First, Typed
<1> QED BY <1>1 DEF Typed, Used, IsLast, After

(* A used slot at the front holds a byte that is not taken yet. *)
LEMMA FrontPending ==
    ASSUME Typed, ChainInv, NEW i \in Slots, Used(i), IsFirst(i)
    PROVE  Len(taken) + Filled(i) <= pushed /\ Filled(i) >= 1
<1>1. Block(i) /\ fifo_buf[i][1] = Len(taken) + 1
  BY DEF ChainInv
<1>2. Filled(i) \in Nat
  BY Entries
<1> QED BY <1>1, <1>2 DEF Block, Typed

(* A reader that stands at a slot and sees another index before it: the    *)
(* slot is used, or the FIFO is hollow.                                     *)
LEMMA FrontUsed ==
    ASSUME Typed, First \in Slots, First # wr_index, ~Hollow
    PROVE  Used(First) /\ IsFirst(First)
<1>1. First \in Int /\ wr_index \in Int
  BY DEF Typed
<1> QED BY <1>1 DEF Used, IsFirst

LEMMA HoldingSame ==
    ASSUME HoldingInv, UNCHANGED readerVars,
           rPc \in Taking => filled_len'[rIndex] = filled_len[rIndex] /\ fifo_buf'[rIndex] = fifo_buf[rIndex]
    PROVE  HoldingInv'
<1>1. UNCHANGED <<rPc, cnt, rIndex, copied>>
  BY DEF readerVars
<1>2. rPc \in {"block", "advance", "part", "subtract", "shift"} => rPc \in Taking
  BY DEF Taking
<1> QED BY ONLY HoldingInv, <1>1, <1>2,
           rPc \in Taking => filled_len'[rIndex] = filled_len[rIndex] /\ fifo_buf'[rIndex] = fifo_buf[rIndex]
        DEF HoldingInv

LEMMA NotAhead == ASSUME Typed, ChainInv PROVE Len(taken) <= pushed
<1>0. First \in 0 .. max_wr_counter /\ wr_index \in Nat /\ max_wr_counter \in Nat
      /\ wr_index <= max_wr_counter /\ max_wr_counter >= 3 /\ Slots = 0 .. max_wr_counter - 1
  BY DEF Typed, First
<1>1. CASE Empty
  BY <1>1 DEF ChainInv, Typed
<1>2. ASSUME NEW i \in Slots, Used(i), IsFirst(i) PROVE Len(taken) <= pushed
  <2>1. Len(taken) + Filled(i) <= pushed /\ Filled(i) >= 1
    BY <1>2, FrontPending
  <2>2. Filled(i) \in Nat /\ pushed \in Nat /\ Len(taken) \in Nat
    BY <1>2, Entries
  <2> QED BY ONLY <2>1, <2>2
<1>3. CASE ~Empty /\ First = max_wr_counter
  <2>1. ~Hollow /\ wr_index # 0 /\ wr_index # max_wr_counter
    BY ONLY <1>3 DEF Empty
  <2>2. 0 \in Slots /\ Used(0) /\ IsFirst(0)
    BY ONLY <1>0, <1>3, <2>1 DEF Used, IsFirst
  <2> QED BY ONLY <1>2, <2>2
<1>4. CASE ~Empty /\ First # max_wr_counter
  <2>1. First \in Slots /\ First # wr_index /\ ~Hollow
    BY ONLY <1>0, <1>4 DEF Empty
  <2> QED BY <1>2, <2>1, FrontUsed
<1> QED BY <1>1, <1>3, <1>4
-------------------------------------------------------------------------------
(* The writing side while no index has passed the other one. *)
LEMMA WriterSound ==
    ASSUME IInv, SoundInv, Sound', UsbWrite \/ PushStep
    PROVE  SoundInv'
<1>0. Typed /\ ChainInv /\ StoringInv /\ TakingInv /\ HoldingInv /\ ~torn
  BY ONLY IInv, SoundInv, IsTyped DEF SoundInv
<1>00. Count \in 0 .. fifo_size /\ Count <= data_len
  BY ONLY <1>0, CountBounds DEF Typed
<1>01. ASSUME UNCHANGED <<slotVars, readerVars, history>> PROVE ~torn' /\ ChainInv' /\ TakingInv' /\ HoldingInv'
  <2>1. First' = First /\ UNCHANGED <<wr_index, filled_len, fifo_buf, pushed, taken>>
    BY ONLY <1>01 DEF slotVars, readerVars, history, First
  <2>2. \A i \in Slots : Filled(i)' = Filled(i)
    BY ONLY <1>01 DEF slotVars, readerVars, Filled
  <2>3. ChainInv' /\ \A i : Used(i)' <=> Used(i)
    BY ONLY <1>0, <2>1, <2>2, ChainSame
  <2>4. UNCHANGED <<rPc, rIndex, rd_index, wr_index, torn>>
    BY ONLY <1>01 DEF slotVars, readerVars, history
  <2>5. TakingInv'
    BY ONLY <1>0, <2>3, <2>4 DEF TakingInv
  <2>6. HoldingInv'
    BY ONLY <1>0, <1>01, <2>1, HoldingSame
  <2> QED BY ONLY <1>0, <2>3, <2>4, <2>5, <2>6
<1>02. ASSUME UNCHANGED <<readerVars, torn>>, wr_index \in Slots, ~Used(wr_index),
              \A i \in Slots : i # wr_index => filled_len'[i] = filled_len[i] /\ fifo_buf'[i] = fifo_buf[i]
       PROVE  ~torn' /\ HoldingInv'
  <2>1. rPc \in Taking => rIndex \in Slots /\ rIndex # wr_index
    BY ONLY <1>0, <1>02 DEF Typed, TakingInv
  <2>2. HoldingInv'
    BY ONLY <1>0, <1>02, <2>1, HoldingSame
  <2> QED BY ONLY <1>0, <1>02, <2>2
<1>1. ASSUME NEW n \in MsgLens, Write(n) PROVE SoundInv'
  <2>1. UNCHANGED <<slotVars, readerVars, history>> /\ wPc' = "test" /\ data_len' = n
    BY ONLY <1>1 DEF Write
  <2>2. n >= 1
    BY FifoAssumption DEF FifoAssumption
  <2>3. StoringInv'
    BY ONLY <2>1, <2>2 DEF StoringInv
  <2> QED BY ONLY <1>01, <2>1, <2>3 DEF SoundInv
<1>2. CASE TestGap
  <2>1. /\ UNCHANGED <<slotVars, readerVars, history, data_len>> /\ wPc = "test"
        /\ wPc' = IF rd_index < wr_index + Gap THEN "again" ELSE "store"
    BY ONLY <1>2 DEF TestGap
  <2>2. wPc' = "store" => rd_index >= wr_index + 2
    BY <1>0, <2>1, FifoAssumption DEF Typed, FifoAssumption
  <2>3. wPc' \in {"again", "store"} /\ data_len' >= 1 /\ UNCHANGED <<rd_index, wr_index>>
    BY ONLY <1>0, <2>1 DEF StoringInv, slotVars
  <2>4. StoringInv'
    BY ONLY <2>2, <2>3 DEF StoringInv
  <2> QED BY ONLY <1>01, <2>1, <2>4 DEF SoundInv
<1>3. CASE TestSide
  <2>1. UNCHANGED <<slotVars, readerVars, history>> /\ wPc = "again"
    BY ONLY <1>3 DEF TestSide
  <2>2. UNCHANGED <<rd_index, wr_index>> /\ data_len >= 1
    BY ONLY <1>0, <2>1 DEF StoringInv, slotVars
  <2>3. ASSUME rd_index > wr_index PROVE StoringInv'
    <3>1. data_len' = data_len - Count /\ wPc' = NextBlock(data_len')
      BY ONLY <1>3, <2>3 DEF TestSide
    <3>2. data_len' \in Nat
      BY <1>0, <1>00, <3>1, FifoAssumption DEF Typed, FifoAssumption
    <3>3. wPc' = "idle" \/ (wPc' = "test" /\ data_len' >= 1)
      BY <3>1, <3>2 DEF NextBlock
    <3>4. wPc' \in {"idle", "test"} /\ (wPc' # "idle" => data_len' >= 1)
      BY ONLY <3>3
    <3> QED BY ONLY <3>4 DEF StoringInv
  <2>4. ASSUME ~(rd_index > wr_index) PROVE StoringInv'
    <3>1. data_len' = data_len /\ wPc' = "store"
      BY ONLY <1>3, <2>4 DEF TestSide
    <3>2. rd_index' <= wr_index'
      BY ONLY <1>0, <2>2, <2>4 DEF Typed
    <3>3. data_len' >= 1
      BY ONLY <2>2, <3>1
    <3> QED BY ONLY <3>1, <3>2, <3>3 DEF StoringInv
  <2> QED BY ONLY <1>01, <2>1, <2>3, <2>4 DEF SoundInv
<1>4. CASE StoreBlock
  <2>1. /\ UNCHANGED <<wr_index, rd_index, filled_len, data_len, readerVars, history>>
        /\ wPc = "store" /\ wPc' = "length" /\ wIndex' = wr_index
        /\ fifo_buf' = [fifo_buf EXCEPT ![wr_index] =
               [j \in 1 .. fifo_size |-> IF j <= Count THEN pushed + j ELSE fifo_buf[wr_index][j]]]
    BY ONLY <1>4 DEF StoreBlock
  <2>2. wr_index \in Slots
    BY ONLY <1>0, <2>1 DEF Typed
  <2>3. /\ ~Used(wr_index)
        /\ \A i \in Slots : Used(i) /\ ~IsLast(i) => After(i) # wr_index
    BY ONLY <1>0, <2>2, FreeSlot
  <2>4. \A i \in Slots : i # wr_index => fifo_buf'[i] = fifo_buf[i]
    BY ONLY <1>0, <2>1 DEF Typed
  <2>5. \A j \in 1 .. Count : fifo_buf'[wr_index][j] = pushed + j
    BY ONLY <1>0, <1>00, <2>1, <2>2 DEF Typed
  <2>6. \A i \in Slots : After(i) \in Slots
    BY ONLY <1>0 DEF Typed, After
  <2>7. UNCHANGED <<rPc, rIndex, rd_index, wr_index, filled_len, pushed, taken, data_len>> /\ First' = First
    BY ONLY <2>1 DEF readerVars, history, First
  <2>8. /\ \A i : Used(i)' <=> Used(i)
        /\ \A i : (IsFirst(i)' <=> IsFirst(i)) /\ (IsLast(i)' <=> IsLast(i))
        /\ Empty' <=> Empty
        /\ \A i : Filled(i)' = Filled(i)
    BY ONLY <2>7, <2>1 DEF Used, Hollow, IsFirst, IsLast, Empty, Filled, readerVars
  <2>9. \A i \in Slots : Used(i) => fifo_buf'[i] = fifo_buf[i]
    BY ONLY <2>3, <2>4
  <2>10. \A i \in Slots : Used(i) => Block(i)' /\ Fits(i)'
    <3>1. \A i \in Slots : Used(i) => Block(i)'
      BY ONLY <1>0, <2>7, <2>8, <2>9 DEF ChainInv, Block
    <3>2. \A i \in Slots : Used(i) => Fits(i)'
      BY ONLY <1>0, <2>7, <2>9 DEF ChainInv, Fits, SlotsAhead
    <3> QED BY ONLY <3>1, <3>2
  <2>11. \A i \in Slots : Used(i) /\ ~IsLast(i) => fifo_buf'[After(i)] = fifo_buf[After(i)]
    BY ONLY <2>3, <2>4, <2>6
  <2>12. ChainInv'
    <3>1. \A i : After(i)' = After(i)
      BY DEF After
    <3> QED BY ONLY <1>0, <2>7, <2>8, <2>9, <2>10, <2>11, <3>1 DEF ChainInv
  <2>13. TakingInv'
    BY ONLY <1>0, <2>7, <2>8 DEF TakingInv
  <2>14. Count' = Count
    BY ONLY <2>7 DEF Count
  <2>15. StoringInv'
    BY ONLY <1>0, <2>1, <2>5, <2>7, <2>14 DEF StoringInv
  <2>16. ~torn' /\ HoldingInv'
    BY ONLY <1>02, <2>1, <2>2, <2>3, <2>4 DEF history
  <2> QED BY ONLY <2>12, <2>13, <2>15, <2>16 DEF SoundInv
<1>5. CASE StoreLength
  <2>1. /\ UNCHANGED <<wr_index, rd_index, fifo_buf, data_len, wIndex, readerVars, history>>
        /\ wPc = "length" /\ wPc' = "increment"
        /\ filled_len' = [filled_len EXCEPT ![wIndex] = Count]
    BY ONLY <1>5 DEF StoreLength
  <2>2. wIndex = wr_index /\ wr_index \in Slots
    BY ONLY <1>0, <2>1 DEF Typed, StoringInv
  <2>3. ~Used(wr_index)
    BY ONLY <1>0, <2>2, FreeSlot
  <2>4. /\ \A i \in Slots : i # wr_index => filled_len'[i] = filled_len[i]
        /\ filled_len'[wr_index] = Count
    BY ONLY <1>0, <2>1, <2>2 DEF Typed
  <2>5. UNCHANGED <<rPc, rIndex, rd_index, wr_index, wIndex, fifo_buf, pushed, taken, data_len>> /\ First' = First
    BY ONLY <2>1 DEF readerVars, history, First
  <2>6. /\ \A i : Used(i)' <=> Used(i)
        /\ \A i : (IsFirst(i)' <=> IsFirst(i)) /\ (IsLast(i)' <=> IsLast(i))
        /\ Empty' <=> Empty
    BY ONLY <2>5 DEF Used, Hollow, IsFirst, IsLast, Empty
  <2>7. \A i \in Slots : Used(i) => Filled(i)' = Filled(i)
    <3>1. UNCHANGED <<rPc, rIndex, cnt>>
      BY ONLY <2>1 DEF readerVars
    <3> QED BY ONLY <2>3, <2>4, <3>1 DEF Filled
  <2>8. \A i \in Slots : Used(i) => Block(i)' /\ Fits(i)'
    <3>1. \A i \in Slots : Used(i) => Block(i)'
      BY ONLY <1>0, <2>5, <2>7 DEF ChainInv, Block
    <3>2. \A i \in Slots : Used(i) => Fits(i)'
      BY ONLY <1>0, <2>5 DEF ChainInv, Fits, SlotsAhead
    <3> QED BY ONLY <3>1, <3>2
  <2>9. ChainInv'
    <3>1. \A i : After(i)' = After(i)
      BY DEF After
    <3> QED BY ONLY <1>0, <2>5, <2>6, <2>7, <2>8, <3>1 DEF ChainInv
  <2>10. TakingInv'
    BY ONLY <1>0, <2>5, <2>6 DEF TakingInv
  <2>11. Count' = Count
    BY ONLY <2>5 DEF Count
  <2>12. StoringInv'
    BY ONLY <1>0, <2>1, <2>4, <2>5, <2>11 DEF StoringInv
  <2>13. ~torn' /\ HoldingInv'
    BY ONLY <1>02, <2>1, <2>2, <2>3, <2>4 DEF history
  <2> QED BY ONLY <2>9, <2>10, <2>12, <2>13 DEF SoundInv
<1>6. CASE IncrementWr
  <2>1. /\ UNCHANGED <<rd_index, filled_len, fifo_buf, wIndex, readerVars, taken, torn>>
        /\ wPc = "increment" /\ wr_index' = wr_index + 1
        /\ pushed' = pushed + Count /\ data_len' = data_len - Count
        /\ wPc' = IF wr_index' = max_wr_counter THEN "wrap" ELSE NextBlock(data_len')
    BY ONLY <1>6 DEF IncrementWr
  <2>2. /\ wr_index \in Slots /\ data_len >= 1 /\ filled_len[wr_index] = Count
        /\ \A j \in 1 .. Count : fifo_buf[wr_index][j] = pushed + j
        /\ rd_index <= wr_index \/ rd_index >= wr_index + 2
    BY ONLY <1>0, <2>1 DEF Typed, StoringInv
  <2>3. Count >= 1 /\ Count \in Nat
    BY <1>0, <2>2 DEF Count, Typed
  <2>4. /\ First' = First /\ First \in Int /\ UNCHANGED <<rPc, rIndex, rd_index, filled_len, fifo_buf, taken>>
        /\ \A i : Filled(i)' = Filled(i)
    BY ONLY <1>0, <2>1 DEF readerVars, First, Typed, Filled
  <2>40. ~Used(wr_index) /\ Filled(wr_index) = Count
    <3>1. ~Used(wr_index)
      BY ONLY <1>0, <2>2, FreeSlot
    <3>2. rPc = "shift" => rIndex # wr_index
      BY ONLY <1>0, <3>1 DEF TakingInv, Taking
    <3> QED BY ONLY <2>2, <3>1, <3>2 DEF Filled
  <2>5. First <= wr_index \/ First >= wr_index + 2
    BY ONLY <1>0, <2>1, <2>2 DEF First, Typed, TakingInv
  <2>6. Len(taken) <= pushed
    BY ONLY <1>0, NotAhead
  <2>7. ~Hollow /\ ~Hollow'
    BY ONLY <1>0, <2>1, <2>2, <2>3, <2>6 DEF Hollow, Typed
  <2>41. /\ wr_index \in Slots /\ Slots = 0 .. max_wr_counter - 1 /\ max_wr_counter \in Nat
         /\ wr_index' = wr_index + 1 /\ First' = First /\ First \in Int
    BY ONLY <1>0, <2>1, <2>2, <2>4 DEF Typed
  <2>8. \A i \in Slots : Used(i)' <=> Used(i) \/ i = wr_index
    BY ONLY <2>41, <2>5, <2>7 DEF Used
  <2>9. ~Empty'
    BY ONLY <2>41, <2>5, <2>7 DEF Empty
  <2>10. \A i \in Slots : IsLast(i)' <=> i = wr_index
    BY ONLY <2>41 DEF IsLast
  <2>11. \A i : (IsFirst(i)' <=> IsFirst(i)) /\ After(i)' = After(i)
    BY ONLY <2>4 DEF IsFirst, After
  <2>12. fifo_buf[wr_index][1] = pushed + 1
    BY ONLY <1>0, <2>2, <2>3 DEF Typed
  <2>13. ASSUME NEW i \in Slots, Used(i) PROVE Block(i)'
    <3>1. fifo_buf[i][1] \in Nat /\ Filled(i) \in Nat /\ pushed \in Nat
      BY ONLY <1>0, Entries
    <3>2. Block(i)
      BY ONLY <1>0, <2>13 DEF ChainInv
    <3> QED BY ONLY <2>1, <2>3, <2>4, <3>1, <3>2 DEF Block
  <2>14. ASSUME NEW i \in Slots, i = wr_index PROVE Block(i)'
    <3>1. Filled(i)' = Count /\ fifo_buf'[i][1] = pushed + 1
      BY ONLY <2>4, <2>40, <2>12, <2>14
    <3>2. \A j \in 1 .. Count : fifo_buf'[i][j] = pushed + j
      BY ONLY <2>2, <2>4, <2>14
    <3>3. pushed \in Nat /\ pushed' = pushed + Count
      BY ONLY <1>0, <2>1 DEF Typed
    <3> QED BY ONLY <2>3, <3>1, <3>2, <3>3 DEF Block
  <2>15. IsFirst(wr_index) => Len(taken) = pushed
    <3>1. IsFirst(wr_index) => Empty
      BY ONLY <1>0, <2>2 DEF IsFirst, Empty, Typed
    <3> QED BY ONLY <1>0, <3>1 DEF ChainInv
  <2>16. \A i \in Slots : Used(i) => fifo_buf[After(i)][1] = fifo_buf[i][1] + Filled(i)
    <3> TAKE i \in Slots
    <3>1. CASE IsLast(i)
      <4>1. After(i) = wr_index
        BY ONLY <1>0, <2>2, <3>1 DEF IsLast, After, Typed
      <4> QED BY ONLY <1>0, <2>12, <3>1, <4>1 DEF ChainInv
    <3>2. CASE ~IsLast(i)
      BY ONLY <1>0, <3>2 DEF ChainInv
    <3> QED BY ONLY <3>1, <3>2
  <2>17. ChainInv'
    <3>1. \A i \in Slots : Used(i)' => Block(i)'
      <4>1. ASSUME NEW i \in Slots, Used(i)' PROVE Block(i)'
        <5>1. CASE i = wr_index
          BY ONLY <2>14, <4>1, <5>1
        <5>2. CASE i # wr_index
          BY ONLY <2>8, <2>13, <4>1, <5>2
        <5> QED BY ONLY <5>1, <5>2
      <4> QED BY ONLY <4>1
    <3>2. \A i \in Slots : Used(i)' /\ IsFirst(i)' => fifo_buf'[i][1] = Len(taken') + 1
      BY ONLY <1>0, <2>4, <2>8, <2>11, <2>12, <2>15 DEF ChainInv
    <3>3. \A i \in Slots : Used(i)' /\ IsLast(i)' => fifo_buf'[i][1] + Filled(i)' = pushed' + 1
      <4>1. \A i \in Slots : i = wr_index => Filled(i)' = Count /\ fifo_buf'[i][1] = pushed + 1
        BY ONLY <2>4, <2>40, <2>12
      <4>2. pushed \in Nat /\ pushed' = pushed + Count
        BY ONLY <1>0, <2>1 DEF Typed
      <4> QED BY ONLY <2>3, <2>10, <4>1, <4>2
    <3>4. \A i \in Slots : Used(i)' /\ ~IsLast(i)' => fifo_buf'[After(i)'][1] = fifo_buf'[i][1] + Filled(i)'
      BY ONLY <2>4, <2>8, <2>10, <2>11, <2>16
    <3>5. \A k \in 1 .. Len(taken') : taken'[k] = k
      BY ONLY <1>0, <2>4 DEF ChainInv
    <3>6. \A i \in Slots : Used(i)' => Fits(i)'
      <4>1. Used(wr_index) => FALSE
        BY ONLY <2>40
      <4>2. /\ wr_index \in Nat /\ max_wr_counter \in Nat /\ fifo_size \in Nat
            /\ \A i \in Slots : i \in Nat
            /\ Count <= fifo_size /\ pushed \in Nat /\ Slots = 0 .. max_wr_counter - 1
        BY ONLY <1>0, <1>00, <2>2, <2>3 DEF Typed
      <4>3. ASSUME NEW i \in Slots, Used(i) PROVE Fits(i)'
        <5> DEFINE a == SlotsAhead(i)
        <5>1. Fits(i) /\ i # wr_index /\ fifo_buf[i][1] \in Nat
          BY ONLY <1>0, <4>1, <4>3, Entries DEF ChainInv
        <5>2. SlotsAhead(i)' = a + 1 /\ a \in Int
          BY ONLY <2>1, <4>2, <4>3, <5>1 DEF SlotsAhead
        <5>3. pushed + 1 <= fifo_buf[i][1] + a * fifo_size
          BY ONLY <5>1 DEF Fits
        <5> HIDE DEF a
        <5>4. (a + 1) * fifo_size = a * fifo_size + fifo_size /\ a * fifo_size \in Int
          BY ONLY <4>2, <5>2
        <5>5. pushed' + 1 <= fifo_buf[i][1] + (a + 1) * fifo_size
          BY ONLY <2>1, <2>3, <4>2, <5>1, <5>3, <5>4
        <5> QED BY ONLY <2>4, <5>2, <5>5 DEF Fits
      <4>4. ASSUME NEW i \in Slots, i = wr_index PROVE Fits(i)'
        <5>1. SlotsAhead(i)' = 1 /\ 1 * fifo_size = fifo_size
          BY ONLY <2>1, <4>2, <4>4 DEF SlotsAhead
        <5>2. pushed' + 1 <= fifo_buf'[i][1] + fifo_size
          BY ONLY <2>1, <2>3, <2>4, <2>12, <4>2, <4>4
        <5> QED BY ONLY <5>1, <5>2 DEF Fits
      <4>5. ASSUME NEW i \in Slots, Used(i)' PROVE Fits(i)'
        <5>1. CASE i = wr_index
          BY ONLY <4>4, <4>5, <5>1
        <5>2. CASE i # wr_index
          BY ONLY <2>8, <4>3, <4>5, <5>2
        <5> QED BY ONLY <5>1, <5>2
      <4> QED BY ONLY <4>5
    <3> QED BY ONLY <2>9, <3>1, <3>2, <3>3, <3>4, <3>5, <3>6 DEF ChainInv
  <2>18. TakingInv'
    <3>1. rPc = "increment" => rd_index # wr_index'
      BY ONLY <1>0, <2>1, <2>2 DEF Typed
    <3>2. rPc \in Taking => rd_index \in Slots
      BY ONLY <1>0 DEF Typed, Taking
    <3> QED BY ONLY <1>0, <2>4, <2>8, <3>1, <3>2 DEF TakingInv
  <2>19. StoringInv'
    <3>1. data_len' \in Nat
      BY ONLY <1>0, <1>00, <2>1 DEF Typed
    <3>2. \/ wPc' = "wrap" /\ wr_index' = max_wr_counter
          \/ wPc' = "idle"
          \/ wPc' = "test" /\ data_len' >= 1
      BY ONLY <2>1, <3>1 DEF NextBlock
    <3> QED BY ONLY <3>2 DEF StoringInv
  <2>20. ~torn' /\ HoldingInv'
    <3>1. HoldingInv'
      BY ONLY <1>0, <2>1, HoldingSame
    <3> QED BY ONLY <1>0, <2>1, <3>1
  <2> QED BY ONLY <2>17, <2>18, <2>19, <2>20 DEF SoundInv
<1>7. CASE WrapWr
  <2>1. /\ UNCHANGED <<rd_index, filled_len, fifo_buf, data_len, wIndex, readerVars, pushed, taken, torn>>
        /\ wPc = "wrap" /\ wr_index' = 0 /\ wPc' = NextBlock(data_len)
    BY ONLY <1>7 DEF WrapWr
  <2>2. wr_index = max_wr_counter
    BY ONLY <1>0, <2>1 DEF StoringInv
  <2>3. ~(rd_index = 0 /\ Pending > 0)
    <3>1. lapped' = (lapped \/ (rd_index = 0 /\ Pending > 0))
      BY ONLY <1>7 DEF WrapWr
    <3>2. ~lapped'
      BY ONLY Sound' DEF Sound
    <3> QED BY ONLY <3>1, <3>2, Zenon
  <2>4. /\ First' = First /\ First \in 0 .. max_wr_counter
        /\ UNCHANGED <<rPc, rIndex, rd_index, filled_len, fifo_buf, taken, pushed>>
        /\ \A i : Filled(i)' = Filled(i)
    BY ONLY <1>0, <2>1 DEF readerVars, First, Typed, Filled
  <2>5. rd_index = 0 => Hollow
    <3> SUFFICES ASSUME rd_index = 0, ~Hollow PROVE FALSE
      OBVIOUS
    <3>1. First \in {0, 1} /\ First \in Slots
      BY ONLY <1>0, rd_index = 0 DEF First, Typed
    <3>2. Used(First) /\ IsFirst(First)
      BY ONLY <1>0, <2>2, <3>1, ~Hollow DEF Used, IsFirst, Typed
    <3>3. Len(taken) + Filled(First) <= pushed /\ Filled(First) >= 1
      BY ONLY <1>0, <3>1, <3>2, FrontPending
    <3>4. Filled(First) \in Nat
      BY ONLY <1>0, <3>1, Entries
    <3> QED BY ONLY <1>0, <2>3, <3>3, <3>4, rd_index = 0 DEF Pending, Typed
  <2>6. First = 0 <=> Hollow
    BY ONLY <1>0, <2>5 DEF First, Hollow, Typed
  <2>7. ~Hollow'
    BY ONLY <1>0, <2>1 DEF Hollow, Typed
  <2>8. \A i \in Slots : Used(i)' <=> Used(i)
    BY ONLY <1>0, <2>1, <2>2, <2>4, <2>6, <2>7 DEF Used, Typed
  <2>9. \A i \in Slots : (IsFirst(i)' <=> IsFirst(i)) /\ (IsLast(i)' <=> IsLast(i))
    BY ONLY <1>0, <2>1, <2>2, <2>4 DEF IsFirst, IsLast, Typed
  <2>10. Empty' => Empty
    BY ONLY <1>0, <2>1, <2>2, <2>4, <2>6, <2>7 DEF Empty, Typed
  <2>11. \A i : (Block(i)' <=> Block(i)) /\ After(i)' = After(i)
    BY ONLY <2>4 DEF Block, After
  <2>12. ChainInv'
    <3>1. \A i \in Slots : Fits(i)' <=> Fits(i)
      <4>1. \A i \in Slots : SlotsAhead(i)' = SlotsAhead(i)
        BY ONLY <1>0, <2>1, <2>2 DEF SlotsAhead, Typed
      <4> QED BY ONLY <2>4, <4>1 DEF Fits
    <3> QED BY ONLY <1>0, <2>4, <2>8, <2>9, <2>10, <2>11, <3>1 DEF ChainInv
  <2>13. TakingInv'
    <3>1. rPc = "increment" => rd_index # wr_index'
      <4>1. ASSUME rPc = "increment", rd_index = 0 PROVE FALSE
        <5>1. First = 0
          BY ONLY <2>5, <4>1 DEF Hollow
        <5> QED BY ONLY <4>1, <5>1 DEF First
      <4> QED BY ONLY <2>1, <4>1
    <3>2. rPc \in Taking => rd_index \in Slots
      BY ONLY <1>0 DEF Typed, Taking
    <3> QED BY ONLY <1>0, <2>4, <2>8, <3>1, <3>2 DEF TakingInv
  <2>14. StoringInv'
    <3>1. wPc' = "idle" \/ (wPc' = "test" /\ data_len' >= 1)
      BY ONLY <1>0, <2>1 DEF NextBlock, Typed
    <3> QED BY ONLY <3>1 DEF StoringInv
  <2>15. ~torn' /\ HoldingInv'
    <3>1. HoldingInv'
      BY ONLY <1>0, <2>1, HoldingSame
    <3> QED BY ONLY <1>0, <2>1, <3>1
  <2> QED BY ONLY <2>12, <2>13, <2>14, <2>15 DEF SoundInv
<1> QED BY <1>1, <1>2, <1>3, <1>4, <1>5, <1>6, <1>7 DEF UsbWrite, PushStep
-------------------------------------------------------------------------------
(* The reading side while no index has passed the other one. *)
LEMMA ReaderSound ==
    ASSUME IInv, SoundInv, Sound', ReadStep
    PROVE  SoundInv'
<1>0. Typed /\ ChainInv /\ StoringInv /\ TakingInv /\ HoldingInv /\ ~torn
  BY ONLY IInv, SoundInv, IsTyped DEF SoundInv
<1>00. /\ max_wr_counter \in Nat /\ max_wr_counter >= 3 /\ Slots = 0 .. max_wr_counter - 1
       /\ wr_index \in 0 .. max_wr_counter /\ rd_index \in 0 .. max_wr_counter
       /\ rPc # "wrap" => rd_index \in Slots
       /\ Len(taken) \in Nat /\ pushed \in Nat /\ cnt \in Nat /\ fifo_size \in Nat
  BY ONLY <1>0 DEF Typed
<1>01. ASSUME UNCHANGED <<slotVars, writerVars, pushed>> PROVE StoringInv'
  <2>1. UNCHANGED <<wr_index, rd_index, filled_len, fifo_buf, wPc, data_len, wIndex, pushed>>
    BY ONLY <1>01 DEF slotVars, writerVars
  <2>2. Count' = Count
    BY ONLY <2>1 DEF Count
  <2> QED BY ONLY <1>0, <2>1, <2>2 DEF StoringInv
<1>02. ASSUME UNCHANGED <<wr_index, rd_index, fifo_buf, pushed, taken, rIndex>>,
              rPc \in Taking, rPc' \in Taking, \A i \in Slots : Filled(i)' = Filled(i)
       PROVE  ChainInv' /\ TakingInv'
  <2>1. First' = First /\ Taking' = Taking /\ rPc' # "wrap" /\ rPc' # "increment"
    BY ONLY <1>02 DEF First, Taking
  <2>2. ChainInv' /\ \A i : Used(i)' <=> Used(i)
    BY ONLY <1>0, <1>02, <2>1, ChainSame
  <2> QED BY ONLY <1>0, <1>02, <2>1, <2>2 DEF TakingInv
<1>1. ASSUME Read \/ Handover PROVE SoundInv'
  <2>1. /\ UNCHANGED <<slotVars, writerVars, history>> /\ rPc # "increment" /\ rPc # "shift"
        /\ rPc' \in {"idle", "compare"}
    BY ONLY <1>1 DEF Read, Handover
  <2>2. /\ First' = First /\ UNCHANGED <<wr_index, filled_len, fifo_buf, pushed, taken, torn>>
        /\ \A i \in Slots : Filled(i)' = Filled(i)
    BY ONLY <2>1 DEF slotVars, history, First, Filled
  <2>3. ChainInv'
    BY ONLY <1>0, <2>2, ChainSame
  <2>4. TakingInv' /\ HoldingInv'
    BY ONLY <2>1 DEF TakingInv, HoldingInv, Taking
  <2> QED BY ONLY <1>0, <1>01, <2>1, <2>2, <2>3, <2>4 DEF SoundInv
<1>2. CASE CompareIndices
  <2>1. /\ UNCHANGED <<slotVars, cnt, writerVars, pushed, taken, lapped, torn>>
        /\ rPc = "compare"
        /\ \/ rPc' = "handover"
           \/ rPc' = "take" /\ rIndex' = rd_index /\ rd_index # wr_index
              /\ ranAhead' = (ranAhead \/ Pending = 0)
    BY ONLY <1>2 DEF CompareIndices
  <2>2. /\ First' = First /\ First = rd_index
        /\ UNCHANGED <<wr_index, rd_index, filled_len, fifo_buf, pushed, taken>>
        /\ \A i \in Slots : Filled(i)' = Filled(i)
    BY ONLY <2>1 DEF slotVars, First, Filled
  <2>3. ChainInv' /\ \A i : Used(i)' <=> Used(i)
    BY ONLY <1>0, <2>2, ChainSame
  <2>4. ASSUME rPc' = "take" PROVE rIndex' = rd_index' /\ Used(rd_index)
    <3>1. rIndex' = rd_index /\ rd_index # wr_index
      BY ONLY <2>1, <2>4
    <3>2. ranAhead' = (ranAhead \/ Pending = 0)
      BY ONLY <2>1, <2>4
    <3>3. ~ranAhead'
      BY ONLY Sound' DEF Sound
    <3>4. Pending # 0
      BY ONLY <3>2, <3>3, Zenon
    <3>5. ~Hollow
      BY ONLY <1>00, <3>4 DEF Hollow, Pending
    <3>6. First \in Slots /\ First # wr_index
      BY ONLY <1>00, <2>1, <2>2, <3>1
    <3>7. Used(First)
      BY ONLY <1>0, <3>5, <3>6, FrontUsed
    <3> QED BY ONLY <2>2, <3>1, <3>7
  <2>5. TakingInv'
    <3>1. rPc' # "wrap" /\ rPc' # "increment"
      BY ONLY <2>1
    <3>2. rPc' = "take" => Used(rd_index)'
      <4>1. \A i : i = rd_index => (Used(i) => Used(i)')
        BY ONLY <2>3
      <4>2. rd_index' = rd_index /\ UNCHANGED wr_index /\ Hollow' = Hollow /\ First' = First
        BY ONLY <2>2 DEF Hollow
      <4> QED BY ONLY <2>4, <4>2 DEF Used
    <3>3. rPc' \in Taking => rPc' = "take"
      BY ONLY <2>1 DEF Taking
    <3> QED BY ONLY <2>4, <3>1, <3>2, <3>3 DEF TakingInv, Taking
  <2>6. HoldingInv'
    BY ONLY <2>1 DEF HoldingInv
  <2> QED BY ONLY <1>0, <1>01, <2>1, <2>3, <2>5, <2>6 DEF SoundInv
<1>3. ASSUME rPc \in Taking
      PROVE  /\ rIndex = rd_index /\ rd_index \in Slots /\ First = rd_index /\ rd_index # wr_index
             /\ Used(rd_index) /\ ~Hollow
             /\ \A j \in 1 .. Filled(rd_index) : fifo_buf[rd_index][j] = Len(taken) + j
             /\ Filled(rd_index) \in 0 .. fifo_size /\ Filled(rd_index) >= 1
             /\ fifo_buf[rd_index] \in [1 .. fifo_size -> Byte] /\ filled_len[rd_index] \in 0 .. fifo_size
             /\ Len(taken) + Filled(rd_index) <= pushed
  <2>1. rIndex = rd_index /\ Used(rd_index) /\ rd_index \in Slots /\ First = rd_index
    BY ONLY <1>0, <1>00, <1>3 DEF TakingInv, First, Taking
  <2>2. ~Hollow /\ rd_index # wr_index
    BY ONLY <1>00, <2>1 DEF Used
  <2>3. IsFirst(rd_index)
    BY ONLY <2>1 DEF IsFirst
  <2>4. Block(rd_index) /\ fifo_buf[rd_index][1] = Len(taken) + 1
    BY ONLY <1>0, <2>1, <2>3 DEF ChainInv
  <2>5. /\ Filled(rd_index) \in 0 .. fifo_size
        /\ Len(taken) + Filled(rd_index) <= pushed /\ Filled(rd_index) >= 1
    BY ONLY <1>0, <2>1, <2>3, FrontPending, Entries
  <2>6. \A j \in 1 .. Filled(rd_index) : fifo_buf[rd_index][j] = Len(taken) + j
    BY ONLY <1>00, <2>4, <2>5 DEF Block
  <2>7. fifo_buf[rd_index] \in [1 .. fifo_size -> Byte] /\ filled_len[rd_index] \in 0 .. fifo_size
    BY ONLY <1>0, <2>1 DEF Typed
  <2> QED BY ONLY <2>1, <2>2, <2>5, <2>6, <2>7
<1>4. ASSUME rPc \in Taking, NEW n \in 0 .. Filled(rd_index)
      PROVE  LET t == taken \o SubSeq(fifo_buf[rd_index], 1, n)
             IN  Len(t) = Len(taken) + n /\ \A k \in 1 .. Len(taken) + n : t[k] = k
  <2>1. /\ fifo_buf[rd_index] \in [1 .. fifo_size -> Byte] /\ n \in 0 .. fifo_size
        /\ \A j \in 1 .. n : fifo_buf[rd_index][j] = Len(taken) + j
    <3>1. /\ fifo_buf[rd_index] \in [1 .. fifo_size -> Byte]
          /\ Filled(rd_index) \in 0 .. fifo_size
          /\ \A j \in 1 .. Filled(rd_index) : fifo_buf[rd_index][j] = Len(taken) + j
      BY ONLY <1>3, <1>4
    <3>2. n \in 0 .. fifo_size /\ \A j \in 1 .. n : j \in 1 .. Filled(rd_index)
      BY ONLY <1>00, <1>4, <3>1
    <3> QED BY ONLY <3>1, <3>2
  <2>2. TakenInv /\ \A k \in 1 .. Len(taken) : taken[k] = k
    BY ONLY <1>0, IInv DEF IInv, ChainInv
  <2> QED BY ONLY <2>1, <2>2, Appended
<1>9. CASE CompareLength
  <2>1. /\ UNCHANGED <<slotVars, cnt, rIndex, copied, writerVars, history>> /\ rPc = "take"
        /\ \/ rPc' = "block" /\ cnt >= filled_len[rIndex]
           \/ rPc' = "part" /\ ~(cnt >= filled_len[rIndex])
    BY ONLY <1>9 DEF CompareLength
  <2>2. /\ rPc \in Taking /\ rPc' \in Taking
        /\ UNCHANGED <<wr_index, rd_index, filled_len, fifo_buf, pushed, taken, torn>>
        /\ \A i \in Slots : Filled(i)' = Filled(i)
    BY ONLY <2>1 DEF Taking, slotVars, history, Filled
  <2>3. ChainInv' /\ TakingInv'
    BY ONLY <1>02, <2>1, <2>2
  <2>4. filled_len[rIndex] \in Nat
    BY ONLY <1>00, <1>3, <2>2
  <2>5. \/ rPc' = "block" /\ filled_len[rIndex] <= cnt
        \/ rPc' = "part" /\ cnt < filled_len[rIndex]
    BY ONLY <1>00, <2>1, <2>4
  <2>6. HoldingInv'
    BY ONLY <2>1, <2>2, <2>5 DEF HoldingInv
  <2> QED BY ONLY <1>0, <1>01, <2>1, <2>2, <2>3, <2>6 DEF SoundInv, history
<1>10. CASE CopyBlock
  <2>1. /\ UNCHANGED <<slotVars, cnt, rIndex, writerVars, pushed, taken>> /\ rPc = "block" /\ rPc' = "advance"
        /\ copied' = SubSeq(fifo_buf[rIndex], 1, filled_len[rIndex])
        /\ torn' = (filled_len[rIndex] > cnt)
    BY ONLY <1>10 DEF CopyBlock
  <2>2. /\ rPc \in Taking /\ rPc' \in Taking
        /\ UNCHANGED <<wr_index, rd_index, filled_len, fifo_buf>>
        /\ \A i \in Slots : Filled(i)' = Filled(i)
    BY ONLY <2>1 DEF Taking, slotVars, Filled
  <2>3. ChainInv' /\ TakingInv'
    BY ONLY <1>02, <2>1, <2>2
  <2>4. filled_len[rIndex] <= cnt
    BY ONLY <1>0, <2>1 DEF HoldingInv
  <2>5. ~torn'
    <3>1. ~(filled_len[rIndex] > cnt)
      BY ONLY <1>00, <1>3, <2>2, <2>4
    <3> QED BY ONLY <2>1, <3>1, Zenon
  <2>6. HoldingInv'
    BY ONLY <2>1, <2>2, <2>4 DEF HoldingInv
  <2> QED BY ONLY <1>01, <2>1, <2>3, <2>5, <2>6 DEF SoundInv
<1>11. CASE CopyPart
  <2>1. /\ UNCHANGED <<slotVars, cnt, rIndex, writerVars, pushed, taken, torn>>
        /\ rPc = "part" /\ rPc' = "subtract"
        /\ copied' = SubSeq(fifo_buf[rIndex], 1, cnt)
    BY ONLY <1>11 DEF CopyPart, history
  <2>2. /\ rPc \in Taking /\ rPc' \in Taking
        /\ UNCHANGED <<wr_index, rd_index, filled_len, fifo_buf>>
        /\ \A i \in Slots : Filled(i)' = Filled(i)
    BY ONLY <2>1 DEF Taking, slotVars, Filled
  <2>3. ChainInv' /\ TakingInv'
    BY ONLY <1>02, <2>1, <2>2
  <2>4. HoldingInv'
    BY ONLY <1>0, <2>1, <2>2 DEF HoldingInv
  <2> QED BY ONLY <1>0, <1>01, <2>1, <2>3, <2>4 DEF SoundInv
<1>12. CASE SubtractPart
  <2> DEFINE f == filled_len[rIndex]
             d == (f - cnt) % UINT32
  <2>1. /\ UNCHANGED <<wr_index, rd_index, fifo_buf, cnt, rIndex, copied, writerVars, pushed, taken>>
        /\ rPc = "subtract" /\ rPc' = "shift"
        /\ filled_len' = [filled_len EXCEPT ![rIndex] = d]
        /\ torn' = (f < cnt)
    BY ONLY <1>12 DEF SubtractPart
  <2>2. rPc \in Taking /\ rPc' \in Taking
    BY ONLY <2>1 DEF Taking
  <2>3. /\ cnt < f /\ f \in 0 .. fifo_size /\ rIndex \in Slots /\ rIndex = rd_index
        /\ copied = SubSeq(fifo_buf[rIndex], 1, cnt)
    BY ONLY <1>0, <1>3, <2>1, <2>2 DEF HoldingInv
  <2>4. d = f - cnt
    <3> HIDE DEF f
    <3>1. f \in 0 .. UINT32 - 1 /\ cnt \in 0 .. UINT32 - 1 /\ cnt <= f
      BY ONLY <1>00, <2>3, FifoAssumption DEF FifoAssumption
    <3> QED BY ONLY <3>1, Difference
  <2> HIDE DEF d
  <2>5. filled_len' = [filled_len EXCEPT ![rIndex] = f - cnt]
    BY ONLY <2>1, <2>4
  <2>6. \A i \in Slots : filled_len'[i] = IF i = rIndex THEN f - cnt ELSE filled_len[i]
    BY ONLY <1>0, <2>3, <2>5 DEF Typed
  <2>7. (f - cnt) + cnt = f /\ f - cnt >= 1
    <3> HIDE DEF f
    <3> QED BY ONLY <1>00, <2>3
  <2>8. \A i \in Slots : Filled(i)' = Filled(i)
    BY ONLY <2>1, <2>6, <2>7 DEF Filled
  <2>9. ChainInv' /\ TakingInv'
    BY ONLY <1>02, <2>1, <2>2, <2>8
  <2>10. ~torn'
    <3> HIDE DEF f
    <3>1. ~(f < cnt)
      BY ONLY <1>00, <2>3
    <3> QED BY ONLY <2>1, <3>1, Zenon
  <2>11. HoldingInv'
    <3>1. filled_len'[rIndex] = f - cnt
      BY ONLY <2>3, <2>6
    <3>2. filled_len'[rIndex] >= 1 /\ filled_len'[rIndex] + cnt <= fifo_size
      <4> HIDE DEF f
      <4> QED BY ONLY <1>00, <2>3, <2>7, <3>1
    <3> QED BY ONLY <2>1, <2>3, <3>2 DEF HoldingInv
  <2>12. StoringInv'
    <3>1. UNCHANGED <<wr_index, rd_index, fifo_buf, wPc, data_len, wIndex, pushed>>
      BY ONLY <2>1 DEF writerVars
    <3>2. Count' = Count
      BY ONLY <3>1 DEF Count
    <3>3. wPc = "increment" => wr_index \in Slots /\ wr_index # rIndex
      BY ONLY <1>0, <1>3, <2>2 DEF Typed
    <3>4. wPc = "increment" => filled_len'[wr_index] = filled_len[wr_index]
      BY ONLY <2>6, <3>3
    <3> QED BY ONLY <1>0, <3>1, <3>2, <3>4 DEF StoringInv
  <2> QED BY ONLY <2>9, <2>10, <2>11, <2>12 DEF SoundInv
<1>5. CASE TakeBlock
  <2> DEFINE n == Filled(rd_index)
  <2>0. rPc = "advance" /\ rPc \in Taking /\ n = filled_len[rd_index]
    BY ONLY <1>5 DEF TakeBlock, Taking, Filled
  <2>1. /\ rIndex = rd_index /\ rd_index \in Slots /\ First = rd_index /\ rd_index # wr_index
        /\ Used(rd_index) /\ ~Hollow
        /\ \A j \in 1 .. n : fifo_buf[rd_index][j] = Len(taken) + j
        /\ n \in 0 .. fifo_size /\ n \in Nat /\ n >= 1
        /\ fifo_buf[rd_index] \in [1 .. fifo_size -> Byte]
    BY ONLY <1>00, <1>3, <2>0
  <2>14. copied = SubSeq(fifo_buf[rd_index], 1, n)
    BY ONLY <1>0, <2>0, <2>1 DEF HoldingInv
  <2>2. /\ UNCHANGED <<slotVars, writerVars, pushed, rIndex>> /\ rPc' = "increment"
        /\ taken' = taken \o SubSeq(fifo_buf[rd_index], 1, n)
        /\ torn' = (n # Len(copied))
    BY ONLY <1>5, <2>0, <2>1, <2>14 DEF TakeBlock
  <2>15. ~torn'
    <3>1. Len(copied) = n
      BY ONLY <2>1, <2>14, Beginning
    <3> QED BY ONLY <2>2, <3>1
  <2>3. Len(taken') = Len(taken) + n /\ \A k \in 1 .. Len(taken) + n : taken'[k] = k
    <3>1. n \in 0 .. n
      BY ONLY <2>1
    <3> QED BY ONLY <1>4, <2>0, <2>2, <3>1
  <2>16. \A i \in Slots : Filled(i)' = Filled(i)
    BY ONLY <2>0, <2>2 DEF Filled, slotVars
  <2> HIDE DEF n
  <2>4. First' = rd_index + 1 /\ UNCHANGED <<wr_index, rd_index, filled_len, fifo_buf, pushed>>
    BY ONLY <2>2 DEF slotVars, First
  <2>5. ~Hollow'
    BY ONLY <1>00, <2>1, <2>4 DEF Hollow
  <2>6. \A i \in Slots : Used(i)' <=> Used(i) /\ i # rd_index
    BY ONLY <1>00, <2>1, <2>4, <2>5 DEF Used
  <2>7. \A i \in Slots : IsFirst(i)' <=> i = After(rd_index)
    BY ONLY <1>00, <2>1, <2>4 DEF IsFirst, After
  <2>8. \A i \in Slots : (IsLast(i)' <=> IsLast(i)) /\ (Block(i)' <=> Block(i)) /\ (Fits(i)' <=> Fits(i))
    BY ONLY <2>4, <2>16 DEF IsLast, Block, Fits, SlotsAhead
  <2>9. fifo_buf[rd_index][1] = Len(taken) + 1
    BY ONLY <1>00, <2>1
  <2>10. \A i \in Slots : Used(i)' /\ IsFirst(i)' => fifo_buf'[i][1] = Len(taken') + 1
    <3> SUFFICES ASSUME NEW i \in Slots, Used(i)', IsFirst(i)' PROVE fifo_buf'[i][1] = Len(taken') + 1
      OBVIOUS
    <3>1. i = After(rd_index)
      BY ONLY i \in Slots, IsFirst(i)', <2>7
    <3>2. ~IsLast(rd_index)
      BY ONLY <1>00, <2>1, <2>4, <2>5, <3>1, Used(i)' DEF Used, IsLast, After
    <3>3. fifo_buf[i][1] = fifo_buf[rd_index][1] + n
      BY ONLY <1>0, <2>1, <3>1, <3>2 DEF ChainInv, n
    <3> QED BY ONLY <1>00, <2>1, <2>3, <2>4, <2>9, <3>3
  <2>11. Empty' => Len(taken') = pushed'
    <3>1. Empty' => IsLast(rd_index)
      BY ONLY <1>00, <2>1, <2>4, <2>5 DEF Empty, IsLast
    <3>2. IsLast(rd_index) => fifo_buf[rd_index][1] + n = pushed + 1
      BY ONLY <1>0, <2>1 DEF ChainInv, n
    <3>3. Len(taken) \in Nat /\ pushed \in Nat /\ n \in Nat
      BY ONLY <1>00, <2>1
    <3>4. Len(taken') = Len(taken) + n /\ pushed' = pushed
      BY ONLY <2>3, <2>4
    <3> QED BY ONLY <2>9, <3>1, <3>2, <3>3, <3>4
  <2>12. ChainInv'
    <3>1. \A i : After(i)' = After(i)
      BY DEF After
    <3>2. \A i \in Slots : Used(i)' => Block(i)' /\ Fits(i)'
      BY ONLY <1>0, <2>6, <2>8 DEF ChainInv
    <3>3. \A i \in Slots : Used(i)' /\ IsLast(i)' => fifo_buf'[i][1] + Filled(i)' = pushed' + 1
      BY ONLY <1>0, <2>4, <2>6, <2>8, <2>16 DEF ChainInv
    <3>4. \A i \in Slots : Used(i)' /\ ~IsLast(i)' => fifo_buf'[After(i)'][1] = fifo_buf'[i][1] + Filled(i)'
      BY ONLY <1>0, <2>4, <2>6, <2>8, <2>16, <3>1 DEF ChainInv
    <3>5. \A k \in 1 .. Len(taken') : taken'[k] = k
      BY ONLY <2>3
    <3> QED BY ONLY <2>10, <2>11, <3>2, <3>3, <3>4, <3>5 DEF ChainInv
  <2>13. TakingInv'
    BY ONLY <2>1, <2>2, <2>4 DEF TakingInv, Taking
  <2>17. HoldingInv'
    BY ONLY <2>2 DEF HoldingInv
  <2> QED BY ONLY <1>01, <2>2, <2>12, <2>13, <2>15, <2>17 DEF SoundInv
<1>6. CASE TakePart
  <2> DEFINE n == Filled(rd_index)
  <2>0. rPc = "shift" /\ rPc \in Taking /\ rPc' = "compare"
    BY ONLY <1>6 DEF TakePart, Taking
  <2>1. /\ rIndex = rd_index /\ rd_index \in Slots /\ First = rd_index /\ rd_index # wr_index
        /\ Used(rd_index) /\ ~Hollow
        /\ \A j \in 1 .. n : fifo_buf[rd_index][j] = Len(taken) + j
        /\ n \in 0 .. fifo_size /\ n \in Nat /\ n >= 1 /\ Len(taken) + n <= pushed
    BY ONLY <1>00, <1>3, <2>0
  <2>19. n = filled_len[rd_index] + cnt /\ filled_len[rd_index] \in 0 .. fifo_size
    BY ONLY <1>3, <2>0, <2>1 DEF Filled
  <2>20. copied = SubSeq(fifo_buf[rd_index], 1, cnt) /\ filled_len[rd_index] >= 1
    BY ONLY <1>0, <2>0, <2>1 DEF HoldingInv
  <2>21. filled_len[rd_index] = n - cnt /\ cnt < n
    <3> HIDE DEF n
    <3> QED BY ONLY <1>00, <2>19, <2>20
  <2>2. /\ UNCHANGED <<wr_index, rd_index, filled_len, writerVars, pushed, torn>>
        /\ taken' = taken \o SubSeq(fifo_buf[rd_index], 1, cnt)
        /\ fifo_buf' = [fifo_buf EXCEPT ![rd_index] =
               [j \in 1 .. fifo_size |-> IF j <= n - cnt THEN ByteAt(rd_index, j + cnt)
                                         ELSE fifo_buf[rd_index][j]]]
    BY ONLY <1>6, <2>1, <2>20, <2>21 DEF TakePart
  <2>3. Len(taken') = Len(taken) + cnt /\ \A k \in 1 .. Len(taken) + cnt : taken'[k] = k
    <3>1. cnt \in 0 .. n
      BY ONLY <1>00, <2>1, <2>21
    <3> QED BY ONLY <1>4, <2>0, <2>2, <3>1
  <2>4. /\ Filled(rd_index)' = n - cnt
        /\ \A i \in Slots : i # rd_index => Filled(i)' = Filled(i) /\ fifo_buf'[i] = fifo_buf[i]
    <3>1. \A i \in Slots : i # rd_index => fifo_buf'[i] = fifo_buf[i]
      BY ONLY <1>0, <2>1, <2>2 DEF Typed
    <3>2. Filled(rd_index)' = filled_len[rd_index]
      BY ONLY <2>0, <2>2 DEF Filled
    <3>3. \A i \in Slots : i # rd_index => Filled(i)' = Filled(i)
      BY ONLY <2>0, <2>1, <2>2 DEF Filled
    <3> QED BY ONLY <2>21, <3>1, <3>2, <3>3
  <2>5. ASSUME NEW j \in 1 .. n - cnt PROVE fifo_buf'[rd_index][j] = Len(taken) + cnt + j
    <3>1. j \in 1 .. fifo_size /\ j + cnt \in 1 .. n /\ j <= n - cnt /\ j + cnt <= fifo_size
      BY ONLY <1>00, <2>1, <2>21, <2>5, SMTT(20)
    <3>2. fifo_buf'[rd_index][j] = ByteAt(rd_index, j + cnt)
      <4> DEFINE b == [k \in 1 .. fifo_size |-> IF k <= n - cnt THEN ByteAt(rd_index, k + cnt)
                                                ELSE fifo_buf[rd_index][k]]
      <4>1. b[j] = ByteAt(rd_index, j + cnt)
        BY ONLY <3>1
      <4> HIDE DEF b
      <4>2. fifo_buf' = [fifo_buf EXCEPT ![rd_index] = b]
        BY ONLY <2>2 DEF b
      <4>3. fifo_buf'[rd_index] = b
        BY ONLY <1>0, <2>1, <4>2 DEF Typed
      <4> QED BY ONLY <4>1, <4>3
    <3>3. fifo_buf[rd_index][j + cnt] = Len(taken) + (j + cnt)
      BY ONLY <2>1, <3>1
    <3>4. ByteAt(rd_index, j + cnt) = fifo_buf[rd_index][j + cnt]
      BY ONLY <3>1 DEF ByteAt
    <3> QED BY ONLY <1>00, <2>5, <3>2, <3>3, <3>4
  <2> HIDE DEF n
  <2>6. First' = First /\ UNCHANGED <<wr_index, rd_index, pushed>>
    BY ONLY <2>0, <2>2 DEF First
  <2>7. ~Hollow'
    BY ONLY <1>00, <2>1, <2>2, <2>21, <2>3 DEF Hollow
  <2>8. \A i : (Used(i)' <=> Used(i)) /\ (IsFirst(i)' <=> IsFirst(i)) /\ (IsLast(i)' <=> IsLast(i))
    BY ONLY <2>1, <2>6, <2>7 DEF Used, IsFirst, IsLast
  <2>9. ~Empty'
    BY ONLY <1>00, <2>1, <2>6, <2>7 DEF Empty
  <2>10. /\ n - cnt \in Nat /\ n - cnt >= 1 /\ fifo_buf'[rd_index][1] = Len(taken) + cnt + 1
         /\ fifo_buf[rd_index][1] = Len(taken) + 1
    <3>1. n - cnt \in Nat /\ n - cnt >= 1 /\ 1 \in 1 .. n
      BY ONLY <1>00, <2>1, <2>21
    <3> QED BY ONLY <2>1, <2>5, <3>1
  <2>11. \A i \in Slots : Used(i) => Block(i)'
    <3>1. ASSUME NEW i \in Slots, Used(i), i = rd_index PROVE Block(i)'
      <4>1. Filled(i)' = n - cnt /\ fifo_buf'[i][1] = Len(taken) + cnt + 1
        <5>1. fifo_buf'[i][1] = Len(taken) + cnt + 1
          BY ONLY <2>10, <3>1
        <5>2. \A k \in Slots : k = rd_index => Filled(k)' = n - cnt
          BY ONLY <2>4, <2>6
        <5> QED BY ONLY <3>1, <5>1, <5>2
      <4>2. \A j \in 1 .. n - cnt : fifo_buf'[i][j] = Len(taken) + cnt + j
        BY ONLY <2>5, <3>1
      <4> QED BY ONLY <1>00, <2>1, <2>6, <2>10, <4>1, <4>2 DEF Block
    <3>2. ASSUME NEW i \in Slots, Used(i), i # rd_index PROVE Block(i)'
      BY ONLY <1>0, <2>4, <2>6, <3>2 DEF ChainInv, Block
    <3> QED BY ONLY <3>1, <3>2
  <2>12. \A i \in Slots : fifo_buf'[i][1] + Filled(i)' = fifo_buf[i][1] + Filled(i)
    <3>1. fifo_buf'[rd_index][1] + Filled(rd_index)' = fifo_buf[rd_index][1] + Filled(rd_index)
      <4>1. (Len(taken) + cnt + 1) + (n - cnt) = (Len(taken) + 1) + n
        <5>1. Len(taken) \in Nat /\ cnt \in Nat /\ n \in Nat
          BY ONLY <1>00, <2>1
        <5> QED BY ONLY <5>1
      <4>2. Filled(rd_index) = n
        BY DEF n
      <4> QED BY ONLY <2>4, <2>10, <4>1, <4>2
    <3>2. \A i \in Slots : i = rd_index => fifo_buf'[i][1] + Filled(i)' = fifo_buf[i][1] + Filled(i)
      BY ONLY <2>6, <3>1
    <3> QED BY ONLY <2>4, <3>2
  <2>13. \A i \in Slots : Used(i) /\ ~IsLast(i) => After(i) \in Slots /\ After(i) # rd_index
    BY ONLY <1>00, <2>1 DEF Used, IsLast, After
  <2>14. \A i \in Slots : IsFirst(i) => i = rd_index
    BY ONLY <1>00, <2>1 DEF IsFirst
  <2>15. ChainInv'
    <3>1. \A i : After(i)' = After(i)
      BY DEF After
    <3>2. \A i \in Slots : Used(i)' => Block(i)' /\ Fits(i)'
      <4>1. ASSUME NEW i \in Slots, Used(i) PROVE Fits(i)'
        <5>1. Fits(i) /\ fifo_buf[i][1] \in Nat /\ pushed \in Nat
          BY ONLY <1>0, <4>1, Entries DEF ChainInv
        <5>2. fifo_buf'[i][1] = fifo_buf[i][1] \/ fifo_buf'[i][1] = fifo_buf[i][1] + cnt
          <6>1. i # rd_index => fifo_buf'[i] = fifo_buf[i]
            BY ONLY <2>4, <4>1
          <6>2. fifo_buf'[rd_index][1] = fifo_buf[rd_index][1] + cnt
            <7>1. Len(taken) \in Nat /\ cnt \in Nat
              BY ONLY <1>00
            <7> QED BY ONLY <2>10, <7>1
          <6> QED BY ONLY <6>1, <6>2
        <5>3. SlotsAhead(i)' = SlotsAhead(i) /\ SlotsAhead(i) * fifo_size \in Int
          BY ONLY <1>00, <2>6 DEF SlotsAhead
        <5>4. pushed + 1 <= fifo_buf'[i][1] + SlotsAhead(i) * fifo_size
          <6> DEFINE room == SlotsAhead(i) * fifo_size
          <6>1. pushed + 1 <= fifo_buf[i][1] + room /\ room \in Int
            BY ONLY <5>1, <5>3 DEF Fits
          <6> HIDE DEF room
          <6>2. pushed + 1 <= fifo_buf'[i][1] + room
            BY ONLY <1>00, <5>1, <5>2, <6>1
          <6> QED BY ONLY <6>2 DEF room
        <5> QED BY ONLY <2>6, <5>3, <5>4 DEF Fits
      <4> QED BY ONLY <2>8, <2>11, <4>1
    <3>3. \A i \in Slots : Used(i)' /\ IsFirst(i)' => fifo_buf'[i][1] = Len(taken') + 1
      BY ONLY <2>3, <2>8, <2>10, <2>14
    <3>4. \A i \in Slots : Used(i)' /\ IsLast(i)' => fifo_buf'[i][1] + Filled(i)' = pushed' + 1
      BY ONLY <1>0, <2>6, <2>8, <2>12 DEF ChainInv
    <3>5. \A i \in Slots : Used(i)' /\ ~IsLast(i)' => fifo_buf'[After(i)'][1] = fifo_buf'[i][1] + Filled(i)'
      BY ONLY <1>0, <2>4, <2>8, <2>12, <2>13, <3>1 DEF ChainInv
    <3>6. \A k \in 1 .. Len(taken') : taken'[k] = k
      BY ONLY <2>3
    <3> QED BY ONLY <2>9, <3>2, <3>3, <3>4, <3>5, <3>6 DEF ChainInv
  <2>16. TakingInv' /\ HoldingInv' /\ ~torn'
    BY ONLY <1>0, <2>0, <2>2 DEF TakingInv, HoldingInv, Taking
  <2>17. StoringInv'
    <3>1. UNCHANGED <<wr_index, rd_index, wPc, data_len, wIndex, pushed>>
      BY ONLY <2>2 DEF writerVars
    <3>2. Count' = Count
      BY ONLY <3>1 DEF Count
    <3>3. wPc \in {"length", "increment"} => wr_index \in Slots
      BY ONLY <1>0 DEF Typed
    <3>4. wr_index \in Slots => filled_len'[wr_index] = filled_len[wr_index] /\ fifo_buf'[wr_index] = fifo_buf[wr_index]
      BY ONLY <2>1, <2>2, <2>4
    <3> QED BY ONLY <1>0, <3>1, <3>2, <3>3, <3>4 DEF StoringInv
  <2> QED BY ONLY <2>15, <2>16, <2>17 DEF SoundInv
<1>7. CASE IncrementRd
  <2>1. /\ UNCHANGED <<wr_index, filled_len, fifo_buf, writerVars, history>>
        /\ rPc = "increment" /\ rd_index' = rd_index + 1
        /\ rPc' = IF rd_index' = max_wr_counter THEN "wrap" ELSE "compare"
    BY ONLY <1>7 DEF IncrementRd
  <2>2. /\ First' = First /\ UNCHANGED <<wr_index, filled_len, fifo_buf, pushed, taken, torn>>
        /\ \A i \in Slots : Filled(i)' = Filled(i)
    BY ONLY <2>1 DEF history, First, Filled
  <2>3. ChainInv'
    BY ONLY <1>0, <2>2, ChainSame
  <2>4. TakingInv' /\ HoldingInv' /\ ~torn'
    BY ONLY <1>0, <2>1, <2>2 DEF TakingInv, HoldingInv, Taking
  <2>5. rd_index # wr_index
    BY ONLY <1>0, <2>1 DEF TakingInv
  <2>6. UNCHANGED <<wr_index, filled_len, fifo_buf, wPc, data_len, wIndex, pushed>>
    BY ONLY <2>1 DEF writerVars, history
  <2>7. Count' = Count
    BY ONLY <2>6 DEF Count
  <2>8. rd_index <= wr_index \/ rd_index >= wr_index + 2 => rd_index' <= wr_index \/ rd_index' >= wr_index + 2
    BY ONLY <1>00, <2>1, <2>5
  <2>9. StoringInv'
    BY ONLY <1>0, <2>6, <2>7, <2>8 DEF StoringInv
  <2> QED BY ONLY <2>3, <2>4, <2>9 DEF SoundInv
<1>8. CASE WrapRd
  <2>1. /\ UNCHANGED <<wr_index, filled_len, fifo_buf, writerVars, history>>
        /\ rPc = "wrap" /\ rPc' = "compare" /\ rd_index' = 0 /\ rd_index = max_wr_counter
    BY ONLY <1>0, <1>8 DEF WrapRd, TakingInv
  <2>2. /\ First' = 0 /\ First = max_wr_counter
        /\ UNCHANGED <<wr_index, filled_len, fifo_buf, wPc, data_len, wIndex, pushed, taken, torn>>
        /\ \A i : Filled(i)' = Filled(i)
    BY ONLY <2>1 DEF history, First, writerVars, Filled
  <2>7. TakingInv' /\ HoldingInv' /\ ~torn'
    BY ONLY <1>0, <2>1, <2>2 DEF TakingInv, HoldingInv, Taking
  <2>3. ~Hollow /\ \A i : (IsLast(i)' <=> IsLast(i)) /\ (Block(i)' <=> Block(i)) /\ After(i)' = After(i)
                         /\ (Fits(i)' <=> Fits(i))
    BY ONLY <1>00, <2>2 DEF Hollow, IsLast, Block, After, Fits, SlotsAhead
  <2>4. \A i \in Slots : (IsFirst(i)' <=> IsFirst(i))
    BY ONLY <1>00, <2>2 DEF IsFirst
  <2>5. CASE wr_index = max_wr_counter
    <3>1. Empty
      BY ONLY <2>2, <2>5 DEF Empty
    <3>2. Len(taken) = pushed
      BY ONLY <1>0, <3>1 DEF ChainInv
    <3>3. Hollow'
      BY ONLY <2>2, <2>5, <3>2 DEF Hollow
    <3>4. \A i : ~Used(i)'
      BY ONLY <3>3 DEF Used
    <3>5. ChainInv'
      BY ONLY <1>0, <2>2, <3>2, <3>4 DEF ChainInv
    <3>6. StoringInv'
      <4>1. wPc = "wrap"
        BY ONLY <1>0, <2>5 DEF Typed
      <4> QED BY ONLY <2>2, <2>5, <4>1 DEF StoringInv
    <3> QED BY ONLY <2>7, <3>5, <3>6 DEF SoundInv
  <2>6. CASE wr_index # max_wr_counter
    <3>1. ~Hollow'
      BY ONLY <2>2, <2>6 DEF Hollow
    <3>2. \A i \in Slots : Used(i)' <=> Used(i)
      BY ONLY <1>00, <2>2, <2>3, <2>6, <3>1 DEF Used
    <3>3. Empty' => Empty
      BY ONLY <1>00, <2>2, <2>3, <2>6, <3>1 DEF Empty
    <3>4. ChainInv'
      BY ONLY <1>0, <2>2, <2>3, <2>4, <3>2, <3>3 DEF ChainInv
    <3>6. rd_index' <= wr_index
      BY ONLY <1>00, <2>1
    <3>7. Count' = Count
      BY ONLY <2>2 DEF Count
    <3>8. StoringInv'
      BY ONLY <1>0, <2>2, <3>6, <3>7 DEF StoringInv
    <3> QED BY ONLY <2>7, <3>4, <3>8 DEF SoundInv
  <2> QED BY ONLY <2>5, <2>6
<1> QED BY ONLY ReadStep, <1>1, <1>2, <1>5, <1>6, <1>7, <1>8, <1>9, <1>10, <1>11, <1>12 DEF ReadStep
-------------------------------------------------------------------------------
Chained == IInv /\ (Sound => SoundInv)

(* An index that has passed the other one stays known to have. *)
LEMMA StaysUnsound == ASSUME [Next]_vars, Sound' PROVE Sound
<1>1. UNCHANGED lapped \/ \E p \in BOOLEAN : lapped' = (lapped \/ p)
  BY DEF Next, UsbWrite, Write, PushStep, TestGap, TestSide, StoreBlock, StoreLength, IncrementWr, WrapWr,
         ReadStep, Read, CompareIndices, CompareLength, CopyBlock,
         TakeBlock, CopyPart, SubtractPart, TakePart, IncrementRd, WrapRd, Handover,
         vars, history
<1>2. UNCHANGED ranAhead \/ \E p \in BOOLEAN : ranAhead' = (ranAhead \/ p)
  BY DEF Next, UsbWrite, Write, PushStep, TestGap, TestSide, StoreBlock, StoreLength, IncrementWr, WrapWr,
         ReadStep, Read, CompareIndices, CompareLength, CopyBlock,
         TakeBlock, CopyPart, SubtractPart, TakePart, IncrementRd, WrapRd, Handover,
         vars, history
<1>3. ~lapped' /\ ~ranAhead'
  BY ONLY Sound' DEF Sound
<1>4. ~lapped
  <2>1. ASSUME NEW p \in BOOLEAN, lapped' = (lapped \/ p) PROVE ~lapped
    BY ONLY <1>3, <2>1, Zenon
  <2>2. ASSUME lapped' = lapped PROVE ~lapped
    BY ONLY <1>3, <2>2
  <2> QED BY ONLY <1>1, <2>1, <2>2
<1>5. ~ranAhead
  <2>1. ASSUME NEW p \in BOOLEAN, ranAhead' = (ranAhead \/ p) PROVE ~ranAhead
    BY ONLY <1>3, <2>1, Zenon
  <2>2. ASSUME ranAhead' = ranAhead PROVE ~ranAhead
    BY ONLY <1>3, <2>2
  <2> QED BY ONLY <1>2, <2>1, <2>2
<1> QED BY ONLY <1>4, <1>5 DEF Sound

LEMMA ChainInitially == Init => SoundInv
<1> SUFFICES ASSUME Init PROVE SoundInv
  OBVIOUS
<1>0. Slots = 0 .. max_wr_counter - 1 /\ max_wr_counter \in Nat
  BY FifoAssumption DEF Slots, FifoAssumption
<1>1. /\ ~torn /\ wr_index = 0 /\ rd_index = 0 /\ First = 0 /\ wPc = "idle" /\ rPc = "idle"
      /\ pushed = 0 /\ taken = <<>>
  BY DEF Init, First
<1>2. \A i \in Slots : ~Used(i)
  BY ONLY <1>0, <1>1 DEF Used
<1>3. Len(taken) = 0
  BY ONLY <1>1
<1>4. ChainInv
  BY ONLY <1>1, <1>2, <1>3 DEF ChainInv
<1> QED BY ONLY <1>1, <1>4 DEF SoundInv, StoringInv, TakingInv, HoldingInv, Taking

LEMMA ChainStep == ASSUME Chained, [Next]_vars PROVE Chained'
<1>1. IInv'
  BY Inductive DEF Chained
<1>2. ASSUME Sound' PROVE SoundInv'
  <2>1. IInv /\ SoundInv
    BY <1>2, StaysUnsound DEF Chained
  <2>2. CASE UNCHANGED vars
    <3>1. UNCHANGED <<wr_index, rd_index, filled_len, fifo_buf, wPc, data_len, wIndex,
                      rPc, cnt, rIndex, copied, pushed, taken, torn>>
      BY ONLY <2>2 DEF vars, slotVars, writerVars, readerVars, history
    <3>2. First' = First /\ \A i \in Slots : Filled(i)' = Filled(i)
      BY ONLY <3>1 DEF First, Filled
    <3>3. ChainInv' /\ \A i : Used(i)' <=> Used(i)
      BY ONLY <2>1, <3>1, <3>2, ChainSame DEF SoundInv
    <3>4. Hollow' = Hollow /\ Count' = Count
      BY ONLY <3>1, <3>2 DEF Hollow, Count
    <3>5. StoringInv' /\ TakingInv' /\ HoldingInv' /\ ~torn'
      BY ONLY <2>1, <3>1, <3>2, <3>4 DEF SoundInv, StoringInv, TakingInv, HoldingInv, Used
    <3> QED BY ONLY <3>3, <3>5 DEF SoundInv
  <2>3. CASE UsbWrite \/ PushStep
    BY <1>2, <2>1, <2>3, WriterSound
  <2>4. CASE ReadStep
    BY <1>2, <2>1, <2>4, ReaderSound
  <2> QED BY <2>2, <2>3, <2>4 DEF Next
<1> QED BY <1>1, <1>2 DEF Chained

THEOREM Chain == Spec => []Chained
<1>1. Init => Chained
  BY Initially, ChainInitially DEF Chained
<1>2. Chained /\ [Next]_vars => Chained'
  BY ChainStep
<1> QED BY <1>1, <1>2, PTL DEF Spec

(* Until an index passes the other one, no length changes between the      *)
(* reader's uses of it, so that no copy is longer than its buffer and no   *)
(* difference wraps, for every geometry of the FIFO and every message.     *)
THEOREM Held == Spec => []LengthsHeld
<1>1. Chained => LengthsHeld
  BY DEF Chained, SoundInv, LengthsHeld
<1> QED BY <1>1, Chain, PTL

InOrderWhileSound == Sound => /\ Len(taken) <= pushed
                              /\ \A k \in 1 .. Len(taken) : taken[k] = k

(* Until an index passes the other one, the reader gets exactly the        *)
(* accepted bytes, once and in order, for every number of slots, every     *)
(* size of a slot and every length of the messages and of the reads.       *)
THEOREM InOrder == Spec => []InOrderWhileSound
<1>1. Chained => InOrderWhileSound
  <2> SUFFICES ASSUME Chained, Sound PROVE Len(taken) <= pushed /\ \A k \in 1 .. Len(taken) : taken[k] = k
    BY DEF InOrderWhileSound
  <2>1. Typed /\ ChainInv
    BY IsTyped DEF Chained, SoundInv
  <2> QED BY <2>1, NotAhead DEF ChainInv
<1> QED BY <1>1, Chain, PTL

(* The step in which an index passes the other one for the first time. *)
LEMMA FirstPassing ==
    ASSUME Chained, Next, Sound
    PROVE  /\ lapped' => rd_index = 0 /\ wPc = "wrap" /\ WrapWr
           /\ ranAhead' => wPc = "wrap" /\ wr_index = max_wr_counter /\ CompareIndices
<1>0. Typed /\ ChainInv /\ StoringInv /\ TakingInv
  BY Chained, Sound, IsTyped DEF Chained, SoundInv
<1>00. ~lapped /\ ~ranAhead
  BY ONLY Sound DEF Sound
<1>1. ASSUME lapped' PROVE rd_index = 0 /\ wPc = "wrap" /\ WrapWr
  <2>1. IncrementWr \/ WrapWr
    <3> SUFFICES ASSUME ~IncrementWr, ~WrapWr PROVE UNCHANGED lapped
      BY <1>00, <1>1
    <3> QED BY Next DEF Next, UsbWrite, Write, PushStep, TestGap, TestSide, StoreBlock, StoreLength,
              ReadStep, Read, CompareIndices, CompareLength, CopyBlock,
         TakeBlock, CopyPart, SubtractPart, TakePart, IncrementRd, WrapRd, Handover,
              history
  <2>2. CASE IncrementWr
    <3>1. lapped' = (lapped \/ (wr_index' = rd_index /\ Pending > 0))
      BY ONLY <2>2 DEF IncrementWr, Pending
    <3>2. wr_index' = rd_index
      BY ONLY <1>00, <1>1, <3>1, Zenon
    <3>3. wPc = "increment" /\ wr_index' = wr_index + 1
      BY ONLY <2>2 DEF IncrementWr
    <3>4. rd_index <= wr_index \/ rd_index >= wr_index + 2
      BY ONLY <1>0, <3>3 DEF StoringInv
    <3> QED BY ONLY <1>0, <3>2, <3>3, <3>4 DEF Typed
  <2>3. CASE WrapWr
    <3>1. wPc = "wrap" /\ lapped' = (lapped \/ (rd_index = 0 /\ Pending > 0))
      BY ONLY <2>3 DEF WrapWr
    <3> QED BY ONLY <1>00, <1>1, <2>3, <3>1, Zenon
  <2> QED BY ONLY <2>1, <2>2, <2>3
<1>2. ASSUME ranAhead' PROVE wPc = "wrap" /\ wr_index = max_wr_counter /\ CompareIndices
  <2>1. CompareIndices
    <3> SUFFICES ASSUME ~CompareIndices PROVE UNCHANGED ranAhead
      BY <1>00, <1>2
    <3> QED BY Next DEF Next, UsbWrite, Write, PushStep, TestGap, TestSide, StoreBlock, StoreLength,
              IncrementWr, WrapWr, ReadStep, Read, CompareLength, CopyBlock,
              TakeBlock, CopyPart, SubtractPart, TakePart, IncrementRd, WrapRd,
              Handover, history
  <2>2. rPc = "compare" /\ (UNCHANGED ranAhead \/ (rd_index # wr_index /\ ranAhead' = (ranAhead \/ Pending = 0)))
    BY ONLY <2>1 DEF CompareIndices
  <2>3. rd_index # wr_index /\ Pending = 0
    BY ONLY <1>00, <1>2, <2>2, Zenon
  <2>4. First \in Slots /\ First # wr_index
    BY ONLY <1>0, <2>2, <2>3 DEF First, Typed
  <2>5. CASE Hollow
    BY ONLY <1>0, <2>1, <2>5 DEF Hollow, Typed
  <2>6. CASE ~Hollow
    <3>1. Used(First) /\ IsFirst(First)
      BY ONLY <1>0, <2>4, <2>6, FrontUsed
    <3>2. Len(taken) + Filled(First) <= pushed /\ Filled(First) >= 1
      BY ONLY <1>0, <2>4, <3>1, FrontPending
    <3>3. Filled(First) \in Nat /\ pushed \in Nat /\ Len(taken) \in Nat
      BY ONLY <1>0, <2>4, Entries
    <3> QED BY ONLY <2>3, <3>2, <3>3 DEF Pending
  <2> QED BY ONLY <2>1, <2>5, <2>6
<1> QED BY ONLY <1>1, <1>2

(* The first time an index passes the other one, either the writer wraps   *)
(* onto a reader that stands at slot 0, or the reader has seen the         *)
(* writer's index before it wraps.                                         *)
THEOREM PassesAtWrap == Spec => PassesOnlyAtWrap
<1> DEFINE Step == /\ (lapped' /\ Sound) => rd_index = 0 /\ wPc = "wrap"
                   /\ (ranAhead' /\ Sound) => wPc = "wrap" /\ wr_index = max_wr_counter
<1>1. ASSUME Chained, [Next]_vars PROVE [Step]_vars
  <2>1. CASE ~Sound
    BY <2>1
  <2>2. CASE Sound /\ Next
    BY <1>1, <2>2, FirstPassing
  <2>3. CASE UNCHANGED vars
    BY <2>3
  <2> QED BY <1>1, <2>1, <2>2, <2>3
<1> HIDE DEF Step
<1>2. Spec => [][Step]_vars
  BY <1>1, Chain, PTL DEF Spec
<1> QED BY <1>2 DEF PassesOnlyAtWrap, Step
-------------------------------------------------------------------------------
(* The pending bytes fit into the slots. *)
LEMMA PendingFits ==
    ASSUME Typed, ChainInv
    PROVE  pushed <= Len(taken) + max_wr_counter * fifo_size
<1> DEFINE room == max_wr_counter * fifo_size
<1>0. /\ First \in 0 .. max_wr_counter /\ wr_index \in 0 .. max_wr_counter
      /\ max_wr_counter \in Nat /\ max_wr_counter >= 3 /\ Slots = 0 .. max_wr_counter - 1
      /\ pushed \in Nat /\ Len(taken) \in Nat /\ fifo_size \in Nat
  BY DEF Typed, First
<1>00. room \in Nat
  BY ONLY <1>0
<1>1. CASE Empty
  <2>1. pushed = Len(taken)
    BY ONLY ChainInv, <1>1 DEF ChainInv
  <2> HIDE DEF room
  <2>2. pushed <= Len(taken) + room
    BY ONLY <1>0, <1>00, <2>1
  <2> QED BY ONLY <2>2 DEF room
<1>2. ASSUME NEW i \in Slots, Used(i), IsFirst(i) PROVE pushed <= Len(taken) + room
  <2> DEFINE a == SlotsAhead(i)
             part == a * fifo_size
  <2>1. fifo_buf[i][1] = Len(taken) + 1 /\ Fits(i)
    BY ONLY ChainInv, <1>2 DEF ChainInv
  <2>2. a \in Nat /\ a <= max_wr_counter
    BY ONLY <1>0, <1>2 DEF SlotsAhead, Used, IsFirst
  <2>3. pushed + 1 <= Len(taken) + 1 + part
    BY ONLY <2>1 DEF Fits
  <2> HIDE DEF a
  <2>4. part \in Nat /\ part <= room
    <3>1. ASSUME NEW m \in Nat, NEW n \in Nat, NEW f \in Nat, m <= n PROVE m * f <= n * f
      <4>1. n * f = m * f + (n - m) * f /\ n - m \in Nat
        BY ONLY <3>1
      <4>2. (n - m) * f \in Nat /\ m * f \in Nat /\ n * f \in Nat
        BY ONLY <4>1
      <4> QED BY ONLY <4>1, <4>2
    <3> QED BY ONLY <1>0, <2>2, <3>1
  <2> HIDE DEF part, room
  <2> QED BY ONLY <1>0, <1>00, <2>3, <2>4
<1>3. CASE ~Empty /\ First = max_wr_counter
  <2>1. ~Hollow /\ wr_index # 0 /\ wr_index # max_wr_counter
    BY ONLY <1>3 DEF Empty
  <2>2. 0 \in Slots /\ Used(0) /\ IsFirst(0)
    BY ONLY <1>0, <1>3, <2>1 DEF Used, IsFirst
  <2> QED BY ONLY <1>2, <2>2
<1>4. CASE ~Empty /\ First # max_wr_counter
  <2>1. First \in Slots /\ First # wr_index /\ ~Hollow
    BY ONLY <1>0, <1>4 DEF Empty
  <2>2. Used(First) /\ IsFirst(First)
    BY ONLY Typed, <2>1, FrontUsed
  <2> QED BY ONLY <1>2, <2>1, <2>2
<1> QED BY <1>1, <1>3, <1>4

(* Every slot filled. *)
RoomInv == Sound => pushed <= Len(taken) + max_wr_counter * fifo_size

LEMMA RoomBounds == /\ max_wr_counter * fifo_size \in Nat
                    /\ \A n \in 0 .. fifo_size : n \in 0 .. max_wr_counter * fifo_size
<1>1. max_wr_counter \in Nat /\ max_wr_counter - 1 \in Nat /\ fifo_size \in Nat
  BY FifoAssumption DEF FifoAssumption
<1>2. (max_wr_counter - 1) * fifo_size \in Nat /\ max_wr_counter * fifo_size \in Nat
      /\ max_wr_counter * fifo_size = fifo_size + (max_wr_counter - 1) * fifo_size
  BY ONLY <1>1
<1>3. fifo_size <= max_wr_counter * fifo_size
  BY ONLY <1>1, <1>2
<1> QED BY ONLY <1>1, <1>2, <1>3

(* What a read of n bytes appends is what the queue hands over. *)
LEMMA Handed ==
    ASSUME TakenInv, NEW b \in [1 .. fifo_size -> Byte], NEW n \in 0 .. fifo_size,
           taken' = taken \o SubSeq(b, 1, n),
           \A k \in 1 .. Len(taken') : taken'[k] = k
    PROVE  /\ Len(taken') = Len(taken) + n
           /\ taken' = taken \o [k \in 1 .. n |-> Len(taken) + k]
<1>2. n \in Nat
  BY FifoAssumption DEF FifoAssumption
<1> DEFINE s == SubSeq(b, 1, n)
<1>3. s \in Seq(Byte) /\ Len(s) = n
  BY Beginning
<1>4. taken \in Seq(Byte)
  BY DEF TakenInv
<1>5. taken' = taken \o s
  OBVIOUS
<1> HIDE DEF s
<1>6. /\ Len(taken') = Len(taken) + n /\ Len(taken) \in Nat
      /\ s = [k \in 1 .. n |-> s[k]]
      /\ \A k \in 1 .. Len(taken) + n :
             taken'[k] = IF k <= Len(taken) THEN taken[k] ELSE s[k - Len(taken)]
  BY ONLY <1>3, <1>4, <1>5, ConcatProperties, LenProperties
<1>7. \A k \in 1 .. n : s[k] = Len(taken) + k
  <2> TAKE k \in 1 .. n
  <2>1. Len(taken) + k \in 1 .. Len(taken) + n /\ ~(Len(taken) + k <= Len(taken))
        /\ Len(taken) + k - Len(taken) = k
    BY ONLY <1>2, <1>6
  <2>2. taken'[Len(taken) + k] = IF Len(taken) + k <= Len(taken) THEN taken[Len(taken) + k]
                                 ELSE s[Len(taken) + k - Len(taken)]
    <3> DEFINE x == Len(taken) + k
    <3>1. x \in 1 .. Len(taken) + n
      BY ONLY <2>1
    <3> HIDE DEF x
    <3>2. taken'[x] = IF x <= Len(taken) THEN taken[x] ELSE s[x - Len(taken)]
      BY ONLY <1>6, <3>1
    <3> QED BY ONLY <3>2 DEF x
  <2>3. taken'[Len(taken) + k] = s[k]
    BY ONLY <2>1, <2>2
  <2> QED BY ONLY <1>6, <2>1, <2>3, \A j \in 1 .. Len(taken') : taken'[j] = j
<1>8. s = [k \in 1 .. n |-> Len(taken) + k]
  BY ONLY <1>6, <1>7
<1> QED BY ONLY <1>5, <1>6, <1>8

(* Until an index passes the other one, the FIFO implements the queue of   *)
(* bytes, of as many bytes as its slots hold: pushes and reads are the     *)
(* queue's Put and Get, and the first passing breaks it without a byte     *)
(* being put in or taken.                                                  *)
THEOREM Refinement == Spec => ImplementsQueue
<1>1. Init => Queue!QueueInit
  BY DEF Init, Sound, Queue!QueueInit
<1>2. Chained => RoomInv
  BY IsTyped, PendingFits DEF Chained, SoundInv, RoomInv
<1>3. ASSUME Chained, Chained', RoomInv', InOrderWhileSound', [Next]_vars
      PROVE  [Queue!QueueNext]_(Queue!queueVars)
  <2>1. CASE ~Sound
    <3>1. ~Sound'
      BY <1>3, <2>1, StaysUnsound
    <3> QED BY ONLY <2>1, <3>1 DEF Queue!QueueNext
  <2>2. CASE Sound /\ ~Sound'
    <3>1. Next
      <4> SUFFICES ASSUME UNCHANGED vars PROVE FALSE
        BY <1>3
      <4> QED BY <2>2 DEF vars, history, Sound
    <3>2. WrapWr \/ CompareIndices
      BY <1>3, <2>2, <3>1, FirstPassing DEF Sound
    <3>3. UNCHANGED <<pushed, taken>>
      BY ONLY <3>2 DEF WrapWr, CompareIndices
    <3>4. Queue!Break
      BY ONLY <2>2, <3>3 DEF Queue!Break
    <3> QED BY ONLY <3>4 DEF Queue!QueueNext
  <2>3. CASE Sound /\ Sound'
    <3>0. /\ Typed /\ IInv /\ TakenInv /\ ChainInv /\ TakingInv /\ HoldingInv
          /\ UNCHANGED Sound
      BY <1>3, <2>3, IsTyped DEF Chained, SoundInv, IInv
    <3>1. /\ pushed' <= Len(taken') + max_wr_counter * fifo_size /\ Len(taken') <= pushed'
          /\ \A k \in 1 .. Len(taken') : taken'[k] = k
      BY ONLY <1>3, <2>3 DEF RoomInv, InOrderWhileSound
    <3>2. CASE IncrementWr
      <4>1. Count \in 0 .. max_wr_counter * fifo_size
        BY ONLY <3>0, CountBounds, RoomBounds DEF Typed
      <4>2. pushed' = pushed + Count /\ UNCHANGED taken
        BY ONLY <3>2 DEF IncrementWr
      <4>3. pushed + Count - Len(taken) <= max_wr_counter * fifo_size
        <5> DEFINE room == max_wr_counter * fifo_size
        <5>1. pushed' <= Len(taken) + room /\ room \in Nat /\ Count \in 0 .. room
          BY ONLY <3>1, <4>1, <4>2, RoomBounds
        <5> HIDE DEF room
        <5>2. pushed + Count - Len(taken) <= room
          BY ONLY <3>0, <4>2, <5>1 DEF Typed
        <5> QED BY ONLY <5>2 DEF room
      <4>4. Queue!Put(Count)
        BY ONLY <2>3, <3>0, <4>2, <4>3 DEF Queue!Put
      <4> QED BY ONLY <4>1, <4>4 DEF Queue!QueueNext
    <3>3. ASSUME NEW n \in 0 .. fifo_size, UNCHANGED pushed,
                 taken' = taken \o copied, copied = SubSeq(fifo_buf[rIndex], 1, n)
          PROVE  Queue!QueueNext
      <4>1. rIndex \in Slots /\ fifo_buf[rIndex] \in [1 .. fifo_size -> Byte]
        BY ONLY <3>0 DEF Typed
      <4>2. Len(taken') = Len(taken) + n /\ taken' = taken \o [k \in 1 .. n |-> Len(taken) + k]
        BY ONLY <3>0, <3>1, <3>3, <4>1, Handed
      <4>3. Queue!Get(n)
        BY ONLY <2>3, <3>0, <3>1, <3>3, <4>2 DEF Queue!Get
      <4> QED BY ONLY <3>3, <4>3, RoomBounds DEF Queue!QueueNext
    <3>4. CASE TakeBlock
      <4>1. rPc = "advance" /\ UNCHANGED pushed /\ taken' = taken \o copied
        BY ONLY <3>4 DEF TakeBlock
      <4>2. filled_len[rIndex] \in 0 .. fifo_size
        BY ONLY <3>0 DEF Typed
      <4>3. copied = SubSeq(fifo_buf[rIndex], 1, filled_len[rIndex])
        BY ONLY <3>0, <4>1 DEF HoldingInv
      <4> QED BY ONLY <3>3, <4>1, <4>2, <4>3
    <3>5. CASE TakePart
      <4>1. rPc = "shift" /\ UNCHANGED pushed /\ taken' = taken \o copied
        BY ONLY <3>5 DEF TakePart
      <4>2. cnt \in 0 .. fifo_size
        BY ONLY <3>0, <4>1, FifoAssumption DEF Typed, IInv, ReaderInv, FifoAssumption
      <4>3. copied = SubSeq(fifo_buf[rIndex], 1, cnt)
        BY ONLY <3>0, <4>1 DEF HoldingInv
      <4> QED BY ONLY <3>3, <4>1, <4>2, <4>3
    <3>6. ASSUME ~IncrementWr, ~TakeBlock, ~TakePart
          PROVE  UNCHANGED Queue!queueVars
      <4>1. UNCHANGED <<pushed, taken>>
        BY ONLY <1>3, <3>6 DEF Next, UsbWrite, Write, PushStep, TestGap, TestSide, StoreBlock, StoreLength,
             WrapWr, ReadStep, Read, CompareIndices, CompareLength, CopyBlock, CopyPart, SubtractPart,
             IncrementRd, WrapRd, Handover, vars, history
      <4> QED BY ONLY <3>0, <4>1 DEF Queue!queueVars
    <3> QED BY ONLY <3>2, <3>4, <3>5, <3>6
  <2> QED BY ONLY <2>1, <2>2, <2>3
<1>4. Chained /\ Chained' /\ RoomInv' /\ InOrderWhileSound' /\ [Next]_vars
         => [Queue!QueueNext]_(Queue!queueVars)
  BY <1>3
<1> QED BY <1>1, <1>2, <1>4, Chain, InOrder, PTL DEF Spec, ImplementsQueue, Queue!QueueSpec
===============================================================================
