------------------------------ MODULE UartBypass ------------------------------
(***************************************************************************)
(* Example/usr_uart3_task.c over Example/ringbuf.c: the byte ring between  *)
(* an interrupt or event handler that receives (the UART's, or that of the *)
(* baseband session) and the task that sends what it received (over the    *)
(* baseband, or to the UART).  There is no lock: the handler moves head,   *)
(* the task moves tail, each reads the pointer of the other.  A pointer is *)
(* advanced first and wrapped afterwards, so that for a moment it stands   *)
(* one past the end.                                                       *)
(*                                                                         *)
(* Pointers are offsets from the start of the buffer.  A byte is the       *)
(* number of its turn: the received bytes are numbered 1, 2, 3...  The USB *)
(* commands that read or write the rings as well are not modelled: they    *)
(* add a second reader or writer, which a ring does not support.           *)
(***************************************************************************)
EXTENDS Integers, Sequences

CONSTANTS RB_LEN,        \* bytes that the ring can hold (1024 in the code)
          ChunkLens,     \* lengths of what the handler receives at a time
          max_send_len,  \* bytes that the task sends at a time
          MaxBytes       \* bound of the model: bytes received in all

ASSUME RingAssumption == /\ RB_LEN \in Nat \ {0}
                         /\ ChunkLens \subseteq 1 .. RB_LEN
                         /\ max_send_len \in 1 .. RB_LEN
                         /\ MaxBytes \in Nat

VARIABLES head, tail, buf,          \* the ring
          hPc, count, overflow,     \* the handler: what is left of its bytes,
                                    \* and whether "overflow" was ever logged
          tPc, len, left, buffer,   \* the task: the bytes of a message, those
                                    \* still to copy, and its local buffer
          caught,                   \* the task caught the handler before a wrap
          received, published,      \* history: bytes received, bytes that head passed
          popped,                   \* history: bytes that tail passed
          offered                   \* history: the bytes of the messages sent

ringVars == <<head, tail, buf>>
handlerVars == <<hPc, count, overflow, received, published>>
taskVars == <<tPc, len, left, buffer, caught, popped, offered>>
vars == <<ringVars, handlerVars, taskVars>>

Size == RB_LEN + 1
Offsets == 0 .. Size - 1
Least(m, n) == IF m <= n THEN m ELSE n

Init == /\ head = 0 /\ tail = 0 /\ buf = [k \in Offsets |-> 0]
        /\ hPc = "idle" /\ count = 0 /\ overflow = FALSE
        /\ tPc = "poll" /\ len = 0 /\ left = 0
        /\ buffer = [k \in 1 .. max_send_len |-> 0] /\ caught = FALSE
        /\ received = 0 /\ published = 0 /\ popped = 0 /\ offered = <<>>
-------------------------------------------------------------------------------
FreeOneMore(h, t) == IF h >= t THEN RB_LEN - (h - t) ELSE t - h

ringbuf_bytes_free(h, t) == IF h >= t THEN RB_LEN - (h - t) ELSE t - h - 1

ringbuf_bytes_used(h, t) == RB_LEN - ringbuf_bytes_free(h, t)
-------------------------------------------------------------------------------
(* The handler: ringbuf_memcpy_into.  A chunk that does not fit is only    *)
(* logged: it overwrites bytes that were not read, and tail stays.         *)

Receive(n) == /\ hPc = "idle"
              /\ received + n <= MaxBytes
              /\ count' = n
              /\ overflow' = (overflow \/ n > ringbuf_bytes_free(head, tail))
              /\ hPc' = "copy"
              /\ UNCHANGED <<ringVars, received, published, taskVars>>

CopyInUncut == /\ hPc = "copy"
               /\ buf' = [k \in Offsets |->
                      IF k \in head .. head + count - 1 THEN received + 1 + (k - head) ELSE buf[k]]
               /\ received' = received + count
               /\ hPc' = "advance"
               /\ UNCHANGED <<head, tail, count, overflow, published, taskVars>>

CopyIn == /\ hPc = "copy"
          /\ LET n == Least(Size - head, count)
             IN /\ buf' = [k \in Offsets |->
                       IF k \in head .. head + n - 1 THEN received + 1 + (k - head) ELSE buf[k]]
                /\ received' = received + n
          /\ hPc' = "advance"
          /\ UNCHANGED <<head, tail, count, overflow, published, taskVars>>

AfterIn == IF count' = 0 THEN "idle" ELSE "copy"

AdvanceHeadPastEnd == /\ hPc = "advance"
                      /\ LET n == Least(Size - head, count)
                         IN head' = head + n /\ count' = count - n /\ published' = published + n
                      /\ hPc' = IF head' > Size THEN "wrap" ELSE AfterIn
                      /\ UNCHANGED <<tail, buf, overflow, received, taskVars>>

AdvanceHead == /\ hPc = "advance"
               /\ LET n == Least(Size - head, count)
                  IN head' = head + n /\ count' = count - n /\ published' = published + n
               /\ hPc' = IF head' >= Size THEN "wrap" ELSE AfterIn
               /\ UNCHANGED <<tail, buf, overflow, received, taskVars>>

WrapHead == /\ hPc = "wrap"
            /\ head' = 0
            /\ UNCHANGED count
            /\ caught' = FALSE
            /\ hPc' = AfterIn
            /\ UNCHANGED <<tail, buf, overflow, received, published,
                           tPc, len, left, buffer, popped, offered>>
-------------------------------------------------------------------------------
(* The task: hal_uart_tx2bb_task or bb_uart_tx2hal_task. *)

PollUnlimited == /\ tPc = "poll"
                 /\ ringbuf_bytes_used(head, tail) # 0
                 /\ len' = max_send_len
                 /\ tPc' = "check"
                 /\ UNCHANGED <<ringVars, handlerVars, caught, left, buffer, popped, offered>>

Poll == /\ tPc = "poll"
        /\ ringbuf_bytes_used(head, tail) # 0
        /\ len' = Least(ringbuf_bytes_used(head, tail), max_send_len)
        /\ tPc' = "check"
        /\ UNCHANGED <<ringVars, handlerVars, caught, left, buffer, popped, offered>>

(* ringbuf_memcpy_from refuses to read more than the ring holds.  The task *)
(* does not look at the answer: it sends what its buffer held before.      *)
Check == /\ tPc = "check"
         /\ IF len > ringbuf_bytes_used(head, tail)
            THEN left' = 0 /\ tPc' = "send"
            ELSE left' = len /\ tPc' = "copy"
         /\ UNCHANGED <<ringVars, handlerVars, caught, len, buffer, popped, offered>>

CopyOut == /\ tPc = "copy"
           /\ LET n == Least(Size - tail, left)
                  done == len - left
              IN buffer' = [k \in 1 .. max_send_len |->
                     IF k \in done + 1 .. done + n THEN buf[tail + (k - done - 1)] ELSE buffer[k]]
           /\ tPc' = "advance"
           /\ UNCHANGED <<ringVars, handlerVars, caught, len, left, popped, offered>>

AfterOut == IF left' = 0 THEN "send" ELSE "copy"

AdvanceTail == /\ tPc = "advance"
               /\ LET n == Least(Size - tail, left)
                  IN tail' = tail + n /\ left' = left - n /\ popped' = popped + n
               /\ tPc' = IF tail' >= Size THEN "wrap" ELSE AfterOut
               /\ UNCHANGED <<head, buf, handlerVars, caught, len, buffer, offered>>

WrapTailTwice == /\ tPc = "wrap"
                 /\ tail' = 1
                 /\ UNCHANGED left
                 /\ tPc' = AfterOut
                 /\ UNCHANGED <<head, buf, handlerVars, caught, len, buffer, popped, offered>>

WrapTail == /\ tPc = "wrap"
            /\ tail' = 0
            /\ UNCHANGED left
            /\ tPc' = AfterOut
            /\ UNCHANGED <<head, buf, handlerVars, caught, len, buffer, popped, offered>>

(* A message that the link or the UART refuses is only logged. *)
Send == /\ tPc = "send"
        /\ offered' = offered \o SubSeq(buffer, 1, len)
        /\ caught' = (hPc = "wrap")
        /\ tPc' = "delay"
        /\ UNCHANGED <<ringVars, handlerVars, len, left, buffer, popped>>

(* HAL_Delay(4).  Timing assumption: a handler that the task interrupted   *)
(* between the advance and the wrap of head gets that far meanwhile.       *)
Wake == /\ tPc = "delay" /\ ~caught
        /\ tPc' = "poll"
        /\ UNCHANGED <<ringVars, handlerVars, caught, len, left, buffer, popped, offered>>
-------------------------------------------------------------------------------
Handler == CopyIn \/ AdvanceHead \/ WrapHead
Task == Poll \/ Check \/ CopyOut \/ AdvanceTail \/ WrapTail \/ Send \/ Wake

Next == (\E n \in ChunkLens : Receive(n)) \/ Handler \/ Task

Spec == Init /\ [][Next]_vars

(* A handler that started runs to its end, and the scheduler runs the task. *)
FairSpec == Spec /\ WF_vars(Handler) /\ WF_vars(Task)
-------------------------------------------------------------------------------
TypeOK == /\ head \in 0 .. Size /\ tail \in 0 .. Size
          /\ head = Size => hPc = "wrap"
          /\ tail = Size => tPc = "wrap"
          /\ buf \in [Offsets -> Nat]
          /\ hPc \in {"idle", "copy", "advance", "wrap"}
          /\ count \in 0 .. RB_LEN
          /\ overflow \in BOOLEAN
          /\ tPc \in {"poll", "check", "copy", "advance", "wrap", "send", "delay"}
          /\ caught \in BOOLEAN
          /\ len \in 0 .. max_send_len /\ left \in 0 .. len
          /\ buffer \in [1 .. max_send_len -> Nat]
          /\ received \in Nat /\ published \in Nat /\ popped \in Nat

(* Until the code logs an overflow, the number of bytes that either side   *)
(* computes from the two pointers is exact whenever it computes it, also   *)
(* while the other side's pointer stands one past the end.                 *)
CountsExactly ==
    ~overflow /\ (hPc = "idle" \/ tPc \in {"poll", "check"})
        => ringbuf_bytes_used(head, tail) = published - popped

(* Until the code logs an overflow, the messages sent are the received     *)
(* bytes, each once and in order: no stale buffer is sent because          *)
(* ringbuf_memcpy_from refused, no byte is overwritten before it is read,  *)
(* and the ring loses nothing where it wraps.                              *)
InOrderUntilOverflow ==
    ~overflow => /\ Len(offered) <= received
                 /\ \A k \in 1 .. Len(offered) : offered[k] = k

(* The ring, its handler and its task are a queue of bytes until the code  *)
(* logs an overflow: what is in the ring and in the task's buffer comes    *)
(* out in order, each byte once, and is never more than both can hold.     *)
Queue == INSTANCE ByteQueue WITH put <- published, got <- offered, broken <- overflow,
                                 Capacity <- RB_LEN + max_send_len
ImplementsQueue == Queue!QueueSpec

(* Every received byte is sent in the end, unless an overflow is logged.   *)
Drains == received > Len(offered) ~> received = Len(offered) \/ overflow

(* ringbuf.h: after an overflow the ring is consistent and holds the       *)
(* newest bytes, "old data will simply be overwritten in FIFO fashion":    *)
(* with no byte read yet, it is full.                                      *)
OverflowKeepsNewest ==
    overflow /\ hPc = "idle" /\ popped = 0 => ringbuf_bytes_used(head, tail) = RB_LEN
===============================================================================
