--------------------------- MODULE UartBypassProofs ---------------------------
(***************************************************************************)
(* Proofs about UartBypass for every size of the ring, every length of a   *)
(* received chunk and of a message: until the code logs an overflow, the   *)
(* lock-free ring with its handler and its task is a queue of bytes.       *)
(***************************************************************************)
EXTENDS UartBypass, TLAPS

(* The place of the byte that an offset stands for, before it is wrapped. *)
Place(x) == IF x < Size THEN x ELSE x - Size

Unread == published - popped

(* How many bytes of the message are in the task's buffer. *)
Copied == (len - left) + (IF tPc = "advance" THEN Least(Size - tail, left) ELSE 0)

(* The pointers are as far apart as there are unread bytes.  The exception *)
(* is an empty ring whose tail was wrapped before its head: the task is    *)
(* about to wait until the handler has wrapped head too.                   *)
PointersInv ==
    \/ head >= tail /\ head - tail = Unread
    \/ head < tail /\ head - tail + Size = Unread
    \/ /\ head = Size /\ tail = 0 /\ Unread = 0
       /\ hPc = "wrap" /\ (tPc = "send" \/ (tPc = "delay" /\ caught))

(* What the handler still has to publish fits into the ring. *)
HandlerInv ==
    /\ hPc = "idle" => count = 0
    /\ hPc = "wrap" => head = Size
    /\ received = published + (IF hPc = "advance" THEN Least(Size - head, count) ELSE 0)
    /\ Unread + count <= RB_LEN

TaskInv ==
    /\ 0 <= Unread
    /\ tPc \in {"poll", "check", "delay"} => popped = Len(offered)
    /\ tPc = "check" => len <= Unread
    /\ tPc \in {"copy", "advance", "wrap", "send"} => /\ popped = Len(offered) + (len - left)
                                                      /\ left <= Unread
    /\ tPc = "wrap" => tail = Size

(* The bytes behind tail are the unread ones, in order; the task's buffer  *)
(* begins with the bytes that follow those already sent.                   *)
DataInv ==
    /\ \A i \in 0 .. received - popped - 1 : buf[Place(tail + i)] = popped + i + 1
    /\ tPc \in {"copy", "advance", "wrap", "send"} =>
           \A k \in 1 .. Copied : buffer[k] = Len(offered) + k
    /\ \A k \in 1 .. Len(offered) : offered[k] = k

TypeInv == /\ TypeOK /\ offered \in Seq(Nat)
           /\ tPc \in {"poll", "send", "delay"} => left = 0
RingInv == PointersInv /\ HandlerInv /\ TaskInv /\ DataInv
IInv == TypeInv /\ (~overflow => RingInv)
-------------------------------------------------------------------------------
LEMMA LeastFacts ==
    ASSUME NEW m \in Nat, NEW n \in Nat
    PROVE  Least(m, n) \in Nat /\ Least(m, n) <= m /\ Least(m, n) <= n
  BY DEF Least

(* Type correctness, which needs nothing of what the bytes are. *)
LEMMA TypeInductive == ASSUME TypeInv, [Next]_vars PROVE TypeInv'
<1> USE RingAssumption DEF RingAssumption, TypeInv, TypeOK, Size, Offsets, ringVars, handlerVars, taskVars
<1>1. ASSUME NEW n \in ChunkLens, Receive(n) PROVE TypeInv'
  BY <1>1, SMTT(20) DEF Receive
<1>2. CASE CopyIn
  <2> DEFINE n == Least(Size - head, count)
  <2>1. n \in Nat /\ n <= Size - head
    BY <1>2, LeastFacts DEF CopyIn
  <2>2. received' \in Nat /\ buf' \in [Offsets -> Nat]
    BY <1>2, <2>1, SMTT(20) DEF CopyIn
  <2> QED BY <1>2, <2>2 DEF CopyIn
<1>3. CASE AdvanceHead
  <2> DEFINE n == Least(Size - head, count)
  <2>1. n \in Nat /\ n <= Size - head /\ n <= count
    BY <1>3, LeastFacts DEF AdvanceHead
  <2>2. /\ head' = head + n /\ count' = count - n /\ published' = published + n
        /\ hPc' = IF head' >= Size THEN "wrap" ELSE AfterIn
        /\ UNCHANGED <<tail, buf, overflow, received, taskVars>>
    BY <1>3 DEF AdvanceHead
  <2> HIDE DEF n
  <2> QED BY <1>3, <2>1, <2>2 DEF AfterIn
<1>4. CASE WrapHead
  <2>1. head' = 0 /\ count' = count /\ caught' \in BOOLEAN /\ hPc' \in {"idle", "copy"}
    BY <1>4 DEF WrapHead, AfterIn
  <2> QED BY <1>4, <2>1 DEF WrapHead
<1>5. CASE Poll
  <2>1. ringbuf_bytes_used(head, tail) \in Nat /\ max_send_len \in Nat
    BY DEF ringbuf_bytes_used, ringbuf_bytes_free
  <2>2. Least(ringbuf_bytes_used(head, tail), max_send_len) \in 0 .. max_send_len
    BY <2>1 DEF Least
  <2>3. len' \in 0 .. max_send_len /\ left' = 0 /\ tPc' = "check"
    BY <1>5, <2>2 DEF Poll
  <2> QED BY <1>5, <2>3 DEF Poll
<1>6. CASE Check
  <2>1. \/ left' = 0 /\ tPc' = "send"
        \/ left' = len /\ tPc' = "copy"
    BY <1>6 DEF Check
  <2>2. /\ UNCHANGED <<head, tail, buf, hPc, count, overflow, received, published>>
        /\ UNCHANGED <<caught, len, buffer, popped, offered>>
        /\ tPc = "check"
    BY <1>6 DEF Check
  <2> QED BY <2>1, <2>2
<1>7. CASE CopyOut
  <2> DEFINE n == Least(Size - tail, left)
  <2>1. n \in Nat /\ n <= Size - tail
    <3>1. Size - tail \in Nat /\ left \in Nat
      OBVIOUS
    <3> QED BY <3>1, LeastFacts
  <2>2. buffer' \in [1 .. max_send_len -> Nat]
    BY <1>7, <2>1 DEF CopyOut
  <2> QED BY <1>7, <2>2 DEF CopyOut
<1>8. CASE AdvanceTail
  <2> DEFINE n == Least(Size - tail, left)
  <2>1. n \in Nat /\ n <= Size - tail /\ n <= left
    BY <1>8, LeastFacts DEF AdvanceTail
  <2>2. /\ tail' = tail + n /\ left' = left - n /\ popped' = popped + n
        /\ tPc' = IF tail' >= Size THEN "wrap" ELSE AfterOut
        /\ UNCHANGED <<head, buf, handlerVars, caught, len, buffer, offered>>
    BY <1>8 DEF AdvanceTail
  <2> HIDE DEF n
  <2> QED BY <1>8, <2>1, <2>2 DEF AfterOut
<1>9. CASE WrapTail
  BY <1>9 DEF WrapTail, AfterOut
<1>10. CASE Send
  <2>1. buffer \in Seq(Nat) /\ Len(buffer) = max_send_len
    OBVIOUS
  <2>2. SubSeq(buffer, 1, len) \in Seq(Nat)
    BY <2>1
  <2>3. offered' \in Seq(Nat)
    BY <1>10, <2>2 DEF Send
  <2> QED BY <1>10, <2>3 DEF Send
<1>11. CASE Wake
  BY <1>11 DEF Wake
<1>12. CASE UNCHANGED vars
  BY <1>12 DEF vars
<1> QED BY <1>1, <1>2, <1>3, <1>4, <1>5, <1>6, <1>7, <1>8, <1>9, <1>10, <1>11, <1>12
        DEF Next, Handler, Task

(* What either side computes from the pointers, when it computes it. *)
LEMMA UsedIsUnread ==
    ASSUME TypeInv, PointersInv, 0 <= Unread, Unread <= RB_LEN,
           hPc = "idle" \/ tPc \in {"poll", "check"}
    PROVE  ringbuf_bytes_used(head, tail) = Unread
  BY RingAssumption
  DEF RingAssumption, TypeInv, TypeOK, PointersInv, Unread, Size,
      ringbuf_bytes_used, ringbuf_bytes_free

(* Where head stands, counted from tail. *)
LEMMA HeadPlace ==
    ASSUME TypeInv, PointersInv, HandlerInv, TaskInv, head < Size
    PROVE  /\ Place(tail + Unread) = head
           /\ \A n \in Nat : Unread + n <= RB_LEN /\ head + n <= Size =>
                \A i \in 0 .. Unread + n - 1 :
                    /\ i < Unread => Place(tail + i) \notin head .. head + n - 1
                    /\ i >= Unread => Place(tail + i) = head + (i - Unread)
  <1> USE RingAssumption DEF RingAssumption, TypeInv, TypeOK, Size, Unread, Place
  <1>1. \/ head >= tail /\ head - tail = Unread
        \/ head < tail /\ head - tail + Size = Unread
    BY DEF PointersInv
  <1>2. Unread \in Nat /\ Unread <= RB_LEN
    BY DEF TaskInv, HandlerInv
  <1> QED BY <1>1, <1>2

LEMMA InitEstablishes == Init => IInv
  BY RingAssumption
  DEF RingAssumption, Init, IInv, TypeInv, TypeOK, RingInv, PointersInv, HandlerInv, TaskInv,
      DataInv, Size, Offsets, Unread
-------------------------------------------------------------------------------
(* The handler's steps. *)

LEMMA ReceivePreserves ==
    ASSUME TypeInv, RingInv, NEW n \in ChunkLens, Receive(n), ~overflow'
    PROVE  RingInv'
  <1> USE RingAssumption DEF RingAssumption, TypeInv, TypeOK, Size, Offsets, Unread
  <1>1. /\ hPc = "idle" /\ count' = n /\ hPc' = "copy" /\ n \in Nat
        /\ UNCHANGED <<head, tail, buf, received, published>>
        /\ UNCHANGED <<tPc, len, left, buffer, caught, popped, offered>>
    BY DEF Receive, ringVars, taskVars
  <1>2. ringbuf_bytes_free(head, tail) = RB_LEN - Unread
    BY <1>1 DEF RingInv, PointersInv, TaskInv, HandlerInv, ringbuf_bytes_free
  <1>0. ~(n > ringbuf_bytes_free(head, tail))
    BY Zenon DEF Receive
  <1>3. PointersInv'
    BY <1>1 DEF RingInv, PointersInv
  <1>4. HandlerInv'
    BY <1>0, <1>1, <1>2 DEF RingInv, HandlerInv
  <1>5. TaskInv'
    BY <1>1 DEF RingInv, TaskInv
  <1>6. DataInv'
    BY <1>1 DEF RingInv, DataInv, Place, Copied, Least
  <1> QED BY <1>3, <1>4, <1>5, <1>6 DEF RingInv

LEMMA CopyInPreserves ==
    ASSUME TypeInv, RingInv, CopyIn
    PROVE  RingInv'
  <1> USE RingAssumption DEF RingAssumption, TypeInv, TypeOK, Size, Offsets
  <1> DEFINE n == Least(Size - head, count)
  <1>1. /\ hPc = "copy" /\ hPc' = "advance" /\ received' = received + n
        /\ buf' = [k \in Offsets |->
               IF k \in head .. head + n - 1 THEN received + 1 + (k - head) ELSE buf[k]]
        /\ UNCHANGED <<head, tail, count, published>>
        /\ UNCHANGED <<tPc, len, left, buffer, caught, popped, offered>>
    BY DEF CopyIn, taskVars
  <1>2. n \in Nat /\ head + n <= Size /\ n <= count /\ head < Size
    <2>1. Size - head \in Nat /\ count \in Nat /\ head < Size
      BY <1>1
    <2> QED BY <2>1 DEF Least
  <1>3. n = Least(Size - head', count')
    BY <1>1
  <1> HIDE DEF n
  <1>4. received = published /\ Unread + n <= RB_LEN /\ Unread \in Nat
    BY <1>1, <1>2 DEF RingInv, HandlerInv, TaskInv, Unread
  <1>5. PointersInv'
    BY <1>1 DEF RingInv, PointersInv, Unread
  <1>6. HandlerInv'
    BY <1>1, <1>2, <1>3, <1>4 DEF RingInv, HandlerInv, Unread
  <1>7. TaskInv'
    BY <1>1 DEF RingInv, TaskInv, Unread
  <1>8. DataInv'
    <2>1. ASSUME NEW i \in 0 .. received' - popped' - 1
          PROVE  buf'[Place(tail' + i)] = popped' + i + 1
      <3>1. i \in 0 .. Unread + n - 1 /\ i \in Nat
        BY <1>1, <1>2, <1>4 DEF Unread
      <3>2. /\ i < Unread => Place(tail + i) \notin head .. head + n - 1
            /\ i >= Unread => Place(tail + i) = head + (i - Unread)
        BY <1>2, <1>4, <3>1, HeadPlace DEF RingInv
      <3>3. Place(tail + i) \in Offsets
        BY <1>2, <1>4, <3>1 DEF Place
      <3>4. CASE i < Unread
        <4>1. i \in 0 .. received - popped - 1
          BY <1>4, <3>1, <3>4 DEF Unread
        <4>2. buf[Place(tail + i)] = popped + i + 1
          BY <4>1 DEF RingInv, DataInv
        <4> QED BY <1>1, <3>2, <3>3, <3>4, <4>2
      <3>5. CASE i >= Unread
        <4>1. Place(tail + i) \in head .. head + n - 1
          BY <1>2, <1>4, <3>1, <3>2, <3>5
        <4>2. buf'[Place(tail + i)] = received + 1 + (Place(tail + i) - head)
          BY <1>1, <3>3, <4>1
        <4> QED BY <1>1, <1>2, <1>4, <3>1, <3>2, <3>5, <4>2 DEF Unread
      <3> QED BY <1>4, <3>1, <3>4, <3>5
    <2> QED BY <1>1, <2>1 DEF RingInv, DataInv, Copied, Least
  <1> QED BY <1>5, <1>6, <1>7, <1>8 DEF RingInv

LEMMA AdvanceHeadPreserves ==
    ASSUME TypeInv, RingInv, AdvanceHead
    PROVE  RingInv'
  <1> USE RingAssumption DEF RingAssumption, TypeInv, TypeOK, Size, Offsets
  <1> DEFINE n == Least(Size - head, count)
  <1>1. /\ hPc = "advance" /\ head' = head + n /\ count' = count - n
        /\ published' = published + n
        /\ hPc' = IF head' >= Size THEN "wrap" ELSE AfterIn
        /\ UNCHANGED <<tail, buf, received>>
        /\ UNCHANGED <<tPc, len, left, buffer, caught, popped, offered>>
    BY DEF AdvanceHead, taskVars
  <1>2. /\ n \in Nat /\ head + n <= Size /\ n <= count /\ head < Size
        /\ n = Size - head \/ n = count
    <2>1. Size - head \in Nat /\ count \in Nat /\ head < Size
      BY <1>1
    <2> QED BY <2>1 DEF Least
  <1>3. received = published + n
    BY <1>1 DEF RingInv, HandlerInv
  <1> HIDE DEF n
  <1>4. Unread \in Nat /\ Unread + n <= RB_LEN /\ Unread' = Unread + n
    BY <1>1, <1>2 DEF RingInv, HandlerInv, TaskInv, Unread
  <1>5. PointersInv'
    <2>1. \/ head >= tail /\ head - tail = Unread
          \/ head < tail /\ head - tail + Size = Unread
      BY <1>1 DEF RingInv, PointersInv
    <2> QED BY <1>1, <1>2, <1>4, <2>1 DEF PointersInv
  <1>6. HandlerInv'
    <2>1. hPc' \in {"wrap", "idle", "copy"}
      BY <1>1 DEF AfterIn
    <2>2. hPc' = "idle" => count' = 0
      BY <1>1 DEF AfterIn
    <2>3. hPc' = "wrap" => head' = Size
      BY <1>1, <1>2 DEF AfterIn
    <2>4. Unread' + count' <= RB_LEN
      BY <1>1, <1>2, <1>4 DEF RingInv, HandlerInv
    <2> QED BY <1>1, <1>3, <2>1, <2>2, <2>3, <2>4, SMTT(20) DEF HandlerInv
  <1>7. TaskInv'
    BY <1>1, <1>2, <1>4 DEF RingInv, TaskInv
  <1>8. DataInv'
    BY <1>1 DEF RingInv, DataInv, Place, Copied, Least
  <1> QED BY <1>5, <1>6, <1>7, <1>8 DEF RingInv

LEMMA WrapHeadPreserves ==
    ASSUME TypeInv, RingInv, WrapHead
    PROVE  RingInv'
  <1> USE RingAssumption DEF RingAssumption, TypeInv, TypeOK, Size, Offsets
  <1>1. /\ hPc = "wrap" /\ head' = 0 /\ count' = count
        /\ hPc' = IF count = 0 THEN "idle" ELSE "copy"
        /\ UNCHANGED <<tail, buf, received, published>>
        /\ UNCHANGED <<tPc, len, left, buffer, popped, offered>>
    BY DEF WrapHead, AfterIn
  <1>2. head = Size /\ Unread' = Unread /\ Unread \in Nat /\ Unread <= RB_LEN
    BY <1>1 DEF RingInv, HandlerInv, TaskInv, Unread
  <1>3. PointersInv'
    BY <1>1, <1>2 DEF RingInv, PointersInv
  <1>4. HandlerInv'
    BY <1>1, <1>2 DEF RingInv, HandlerInv
  <1>5. TaskInv'
    BY <1>1, <1>2 DEF RingInv, TaskInv
  <1>6. DataInv'
    BY <1>1 DEF RingInv, DataInv, Place, Copied, Least
  <1> QED BY <1>3, <1>4, <1>5, <1>6 DEF RingInv
-------------------------------------------------------------------------------
(* The task's steps. *)

LEMMA PollPreserves ==
    ASSUME TypeInv, RingInv, Poll
    PROVE  RingInv'
  <1> USE RingAssumption DEF RingAssumption, TypeInv, TypeOK, Size, Offsets
  <1>1. /\ tPc = "poll" /\ tPc' = "check"
        /\ len' = Least(ringbuf_bytes_used(head, tail), max_send_len)
        /\ UNCHANGED <<head, tail, buf, hPc, count, received, published>>
        /\ UNCHANGED <<left, buffer, caught, popped, offered>>
    BY DEF Poll, ringVars, handlerVars
  <1>2. ringbuf_bytes_used(head, tail) = Unread
    BY <1>1, UsedIsUnread DEF RingInv, HandlerInv, TaskInv, Unread
  <1>3. Unread \in Nat /\ Unread' = Unread /\ len' <= Unread
    BY <1>1, <1>2 DEF RingInv, TaskInv, Unread, Least
  <1>4. PointersInv'
    BY <1>1, <1>3 DEF RingInv, PointersInv
  <1>5. HandlerInv'
    BY <1>1, <1>3 DEF RingInv, HandlerInv
  <1>6. TaskInv'
    BY <1>1, <1>3 DEF RingInv, TaskInv
  <1>7. DataInv'
    BY <1>1 DEF RingInv, DataInv, Place
  <1> QED BY <1>4, <1>5, <1>6, <1>7 DEF RingInv

LEMMA CheckPreserves ==
    ASSUME TypeInv, RingInv, Check
    PROVE  RingInv'
  <1> USE RingAssumption DEF RingAssumption, TypeInv, TypeOK, Size, Offsets
  <1>1. /\ tPc = "check"
        /\ UNCHANGED <<head, tail, buf, hPc, count, received, published>>
        /\ UNCHANGED <<len, buffer, caught, popped, offered>>
    BY DEF Check, ringVars, handlerVars
  <1>2. ringbuf_bytes_used(head, tail) = Unread
    BY <1>1, UsedIsUnread DEF RingInv, HandlerInv, TaskInv, Unread
  <1>3. len <= Unread /\ Unread \in Nat /\ Unread' = Unread
    BY <1>1 DEF RingInv, TaskInv, Unread
  <1>4. left' = len /\ tPc' = "copy"
    BY <1>2, <1>3 DEF Check
  <1>5. PointersInv'
    BY <1>1, <1>3, <1>4 DEF RingInv, PointersInv
  <1>6. HandlerInv'
    BY <1>1, <1>3 DEF RingInv, HandlerInv
  <1>7. TaskInv'
    BY <1>1, <1>3, <1>4 DEF RingInv, TaskInv
  <1>8. DataInv'
    BY <1>1, <1>4 DEF RingInv, DataInv, Place, Copied
  <1> QED BY <1>5, <1>6, <1>7, <1>8 DEF RingInv

LEMMA CopyOutPreserves ==
    ASSUME TypeInv, RingInv, CopyOut
    PROVE  RingInv'
  <1> USE RingAssumption DEF RingAssumption, TypeInv, TypeOK, Size, Offsets
  <1> DEFINE n == Least(Size - tail, left)
             done == len - left
  <1>1. /\ tPc = "copy" /\ tPc' = "advance"
        /\ buffer' = [k \in 1 .. max_send_len |->
               IF k \in done + 1 .. done + n THEN buf[tail + (k - done - 1)] ELSE buffer[k]]
        /\ UNCHANGED <<head, tail, buf, hPc, count, received, published>>
        /\ UNCHANGED <<len, left, caught, popped, offered>>
    BY DEF CopyOut, ringVars, handlerVars
  <1>2. n \in Nat /\ tail + n <= Size /\ n <= left /\ tail < Size
    <2>1. Size - tail \in Nat /\ left \in Nat /\ tail < Size
      BY <1>1
    <2> QED BY <2>1 DEF Least
  <1>3. Copied = done /\ Copied' = done + n
    BY <1>1 DEF Copied
  <1> HIDE DEF n
  <1>4. /\ done \in Nat /\ done + n <= max_send_len
        /\ popped = Len(offered) + done /\ left <= Unread /\ Unread \in Nat
    BY <1>1, <1>2 DEF RingInv, TaskInv, Unread
  <1> HIDE DEF done
  <1>5. PointersInv' /\ HandlerInv' /\ TaskInv'
    BY <1>1 DEF RingInv, PointersInv, HandlerInv, TaskInv, Unread
  <1>6. DataInv'
    <2>1. ASSUME NEW k \in 1 .. done + n
          PROVE  buffer'[k] = Len(offered) + k
      <3>1. CASE k <= done
        <4>1. buffer[k] = Len(offered) + k
          BY <1>1, <1>3, <1>4, <3>1 DEF RingInv, DataInv
        <4>2. k \in 1 .. max_send_len /\ k \notin done + 1 .. done + n
          BY <1>2, <1>4, <3>1
        <4> QED BY <1>1, <4>1, <4>2
      <3>2. CASE k > done
        <4> DEFINE i == k - done - 1
        <4>1. i \in 0 .. received - popped - 1 /\ Place(tail + i) = tail + i
          <5>1. i \in Nat /\ i < n
            BY <1>2, <1>4, <3>2
          <5>2. n <= received - popped
            <6>1. received >= published
              BY DEF RingInv, HandlerInv, Least
            <6> QED BY <1>2, <1>4, <6>1 DEF Unread
          <5> QED BY <1>2, <5>1, <5>2, SMTT(20) DEF Place
        <4>2. buf[tail + i] = popped + i + 1
          BY <4>1 DEF RingInv, DataInv
        <4>3. k \in 1 .. max_send_len /\ k \in done + 1 .. done + n
          BY <1>2, <1>4, <3>2
        <4>4. buffer'[k] = buf[tail + i]
          BY <1>1, <4>3
        <4> QED BY <1>4, <4>2, <4>4
      <3> QED BY <1>2, <1>4, <3>1, <3>2
    <2> QED BY <1>1, <1>3, <2>1 DEF RingInv, DataInv, Place
  <1> QED BY <1>5, <1>6 DEF RingInv

LEMMA AdvanceTailPreserves ==
    ASSUME TypeInv, RingInv, AdvanceTail
    PROVE  RingInv'
  <1> USE RingAssumption DEF RingAssumption, TypeInv, TypeOK, Size, Offsets
  <1> DEFINE n == Least(Size - tail, left)
  <1>1. /\ tPc = "advance" /\ tail' = tail + n /\ left' = left - n /\ popped' = popped + n
        /\ tPc' = IF tail' >= Size THEN "wrap" ELSE AfterOut
        /\ UNCHANGED <<head, buf, hPc, count, received, published>>
        /\ UNCHANGED <<len, buffer, caught, offered>>
    BY DEF AdvanceTail, handlerVars
  <1>2. n \in Nat /\ tail + n <= Size /\ n <= left /\ tail < Size
    <2>1. Size - tail \in Nat /\ left \in Nat /\ tail < Size
      BY <1>1
    <2> QED BY <2>1 DEF Least
  <1>3. Copied = (len - left) + n
    BY <1>1 DEF Copied
  <1> HIDE DEF n
  <1>4. tPc' \in {"wrap", "send", "copy"} /\ (tPc' = "wrap" => tail' = Size)
    BY <1>1, <1>2 DEF AfterOut
  <1>5. /\ popped = Len(offered) + (len - left) /\ left <= Unread /\ Unread \in Nat
        /\ Unread' = Unread - n /\ Unread <= RB_LEN
    BY <1>1, <1>2 DEF RingInv, TaskInv, HandlerInv, Unread
  <1>6. PointersInv'
    <2>1. \/ head >= tail /\ head - tail = Unread
          \/ head < tail /\ head - tail + Size = Unread
      BY <1>1 DEF RingInv, PointersInv
    <2> QED BY <1>1, <1>2, <1>5, <2>1 DEF PointersInv
  <1>7. HandlerInv'
    BY <1>1, <1>2, <1>5 DEF RingInv, HandlerInv
  <1>8. TaskInv'
    BY <1>1, <1>2, <1>4, <1>5 DEF TaskInv
  <1>9. DataInv'
    <2>1. Copied' = Copied
      BY <1>1, <1>2, <1>3, <1>4 DEF Copied
    <2>2. ASSUME NEW i \in 0 .. received' - popped' - 1
          PROVE  buf'[Place(tail' + i)] = popped' + i + 1
      <3>1. n + i \in 0 .. received - popped - 1
        BY <1>1, <1>2
      <3>2. buf[Place(tail + (n + i))] = popped + (n + i) + 1
        BY <3>1 DEF RingInv, DataInv
      <3>3. tail' + i = tail + (n + i)
        BY <1>1, <1>2, <3>1
      <3> QED BY <1>1, <1>2, <3>1, <3>2, <3>3
    <2> QED BY <1>1, <2>1, <2>2 DEF RingInv, DataInv
  <1> QED BY <1>6, <1>7, <1>8, <1>9 DEF RingInv

LEMMA WrapTailPreserves ==
    ASSUME TypeInv, RingInv, WrapTail
    PROVE  RingInv'
  <1> USE RingAssumption DEF RingAssumption, TypeInv, TypeOK, Size, Offsets
  <1>1. /\ tPc = "wrap" /\ tail' = 0 /\ left' = left
        /\ tPc' = IF left = 0 THEN "send" ELSE "copy"
        /\ UNCHANGED <<head, buf, hPc, count, received, published>>
        /\ UNCHANGED <<len, buffer, caught, popped, offered>>
    BY DEF WrapTail, AfterOut, handlerVars
  <1>2. /\ tail = Size /\ Unread' = Unread /\ Unread \in Nat
        /\ popped = Len(offered) + (len - left) /\ left <= Unread
    BY <1>1 DEF RingInv, TaskInv, Unread
  <1>3. PointersInv'
    BY <1>1, <1>2 DEF RingInv, PointersInv
  <1>4. HandlerInv'
    BY <1>1, <1>2 DEF RingInv, HandlerInv
  <1>5. TaskInv'
    BY <1>1, <1>2 DEF TaskInv
  <1>6. DataInv'
    <2>1. received - popped <= RB_LEN
      BY DEF RingInv, HandlerInv, Unread, Least
    <2>2. ASSUME NEW i \in 0 .. received - popped - 1
          PROVE  Place(0 + i) = Place(Size + i)
      BY <2>1 DEF Place
    <2>3. Copied' = Copied
      BY <1>1 DEF Copied
    <2> QED BY <1>1, <1>2, <2>2, <2>3 DEF RingInv, DataInv
  <1> QED BY <1>3, <1>4, <1>5, <1>6 DEF RingInv

LEMMA SendPreserves ==
    ASSUME TypeInv, RingInv, Send
    PROVE  /\ RingInv'
           /\ offered' = offered \o [k \in 1 .. len |-> Len(offered) + k]
  <1> USE RingAssumption DEF RingAssumption, TypeInv, TypeOK, Size, Offsets
  <1>1. /\ tPc = "send" /\ tPc' = "delay" /\ caught' = (hPc = "wrap")
        /\ offered' = offered \o SubSeq(buffer, 1, len)
        /\ UNCHANGED <<head, tail, buf, hPc, count, received, published>>
        /\ UNCHANGED <<len, left, buffer, popped>>
    BY DEF Send, ringVars, handlerVars
  <1>2. /\ left = 0 /\ len \in Nat /\ len <= max_send_len
        /\ popped = Len(offered) + len /\ Unread' = Unread
    BY <1>1 DEF RingInv, TaskInv, Unread
  <1>3. SubSeq(buffer, 1, len) = [k \in 1 .. len |-> Len(offered) + k]
    <2>1. buffer \in Seq(Nat) /\ Len(buffer) = max_send_len
      OBVIOUS
    <2>2. \A k \in 1 .. len : buffer[k] = Len(offered) + k
      BY <1>1, <1>2 DEF RingInv, DataInv, Copied
    <2>3. SubSeq(buffer, 1, len) = [k \in 1 .. len |-> buffer[k]]
      BY <1>2, <2>1
    <2> QED BY <2>2, <2>3
  <1>4. /\ Len(offered') = Len(offered) + len
        /\ \A k \in 1 .. Len(offered') : offered'[k] = k
    <2> DEFINE message == [k \in 1 .. len |-> Len(offered) + k]
    <2>1. message \in Seq(Nat) /\ Len(message) = len
      BY <1>2
    <2>2. \A k \in 1 .. Len(offered) : offered[k] = k
      BY DEF RingInv, DataInv
    <2>3. \A k \in 1 .. len : message[k] = Len(offered) + k
      OBVIOUS
    <2> HIDE DEF message
    <2>4. offered' = offered \o message
      BY <1>1, <1>3 DEF message
    <2> QED BY <1>2, <2>1, <2>2, <2>3, <2>4, SMTT(20)
  <1>5. PointersInv'
    <2>1. hPc = "wrap" => caught'
      BY <1>1
    <2> QED BY <1>1, <1>2, <2>1 DEF RingInv, PointersInv
  <1>6. HandlerInv'
    BY <1>1, <1>2 DEF RingInv, HandlerInv
  <1>7. TaskInv'
    BY <1>1, <1>2, <1>4 DEF RingInv, TaskInv
  <1>8. DataInv'
    BY <1>1, <1>4 DEF RingInv, DataInv, Place
  <1> QED BY <1>1, <1>3, <1>5, <1>6, <1>7, <1>8 DEF RingInv

LEMMA WakePreserves ==
    ASSUME TypeInv, RingInv, Wake
    PROVE  RingInv'
  <1>1. /\ tPc = "delay" /\ ~caught /\ tPc' = "poll"
        /\ UNCHANGED <<head, tail, buf, hPc, count, received, published>>
        /\ UNCHANGED <<len, left, buffer, caught, popped, offered>>
    BY DEF Wake, ringVars, handlerVars
  <1> QED BY <1>1 DEF RingInv, PointersInv, HandlerInv, TaskInv, DataInv, Unread, Place

LEMMA Inductive == ASSUME IInv, [Next]_vars PROVE IInv'
  <1>1. TypeInv'
    BY TypeInductive DEF IInv
  <1>2. ASSUME ~overflow' PROVE RingInv'
    <2>1. ~overflow
      BY <1>2 DEF Next, Handler, Task, vars, handlerVars, Receive, CopyIn, AdvanceHead, WrapHead,
                  Poll, Check, CopyOut, AdvanceTail, WrapTail, Send, Wake
    <2>2. TypeInv /\ RingInv
      BY <2>1 DEF IInv
    <2>3. ASSUME NEW n \in ChunkLens, Receive(n) PROVE RingInv'
      BY <1>2, <2>2, <2>3, ReceivePreserves
    <2>4. CASE UNCHANGED vars
      BY <2>2, <2>4
      DEF vars, ringVars, handlerVars, taskVars, RingInv, PointersInv, HandlerInv, TaskInv,
          DataInv, Unread, Place, Copied
    <2> QED BY <2>2, <2>3, <2>4, CopyInPreserves, AdvanceHeadPreserves, WrapHeadPreserves,
               PollPreserves, CheckPreserves, CopyOutPreserves, AdvanceTailPreserves,
               WrapTailPreserves, SendPreserves, WakePreserves
            DEF Next, Handler, Task
  <1> QED BY <1>1, <1>2 DEF IInv

(* The invariant that the theorems below rest on. *)
THEOREM Invariance == Spec => []IInv
  <1>1. IInv /\ [Next]_vars => IInv'
    BY Inductive
  <1> QED BY InitEstablishes, <1>1, PTL DEF Spec

(* Every variable keeps its type: no pointer leaves the buffer, and no     *)
(* more is copied than the ring or the task's buffer holds, even after an  *)
(* overflow.                                                               *)
THEOREM TypeCorrect == Spec => []TypeOK
  <1>1. IInv => TypeOK
    BY DEF IInv, TypeInv
  <1> QED BY Invariance, <1>1, PTL

(* Until an overflow is logged, both sides compute the exact number of     *)
(* unread bytes from two pointers of which one may stand past the end.     *)
THEOREM Exact == Spec => []CountsExactly
  <1>1. IInv => CountsExactly
    <2> SUFFICES ASSUME IInv, ~overflow, hPc = "idle" \/ tPc \in {"poll", "check"}
                 PROVE  ringbuf_bytes_used(head, tail) = Unread
      BY DEF CountsExactly, Unread
    <2>1. TypeInv /\ RingInv /\ RB_LEN \in Nat
      BY RingAssumption DEF IInv, RingAssumption
    <2>2. 0 <= Unread /\ Unread <= RB_LEN
      BY <2>1 DEF RingInv, TaskInv, HandlerInv, Unread, TypeInv, TypeOK
    <2> QED BY <2>1, <2>2, UsedIsUnread DEF RingInv
  <1> QED BY Invariance, <1>1, PTL

(* Until an overflow is logged, the messages sent are the received bytes,  *)
(* each once and in order.                                                 *)
THEOREM InOrder == Spec => []InOrderUntilOverflow
  <1>1. IInv => InOrderUntilOverflow
    <2> SUFFICES ASSUME IInv, ~overflow
                 PROVE  /\ Len(offered) <= received
                        /\ \A k \in 1 .. Len(offered) : offered[k] = k
      BY DEF InOrderUntilOverflow
    <2>1. TypeInv /\ RingInv
      BY DEF IInv
    <2>2. Len(offered) <= popped /\ popped <= published /\ published <= received
      BY <2>1, RingAssumption
      DEF RingAssumption, RingInv, TaskInv, HandlerInv, Unread, TypeInv, TypeOK, Least, Size
    <2>3. Len(offered) \in Nat /\ popped \in Nat /\ published \in Nat /\ received \in Nat
      BY <2>1 DEF TypeInv, TypeOK
    <2> QED BY <2>1, <2>2, <2>3 DEF RingInv, DataInv
  <1> QED BY Invariance, <1>1, PTL

(* The ring, its handler and its task implement the queue of bytes: every  *)
(* step is a step of ByteQueue or leaves its state alone.                  *)
THEOREM Refinement == Spec => ImplementsQueue
  <1> USE RingAssumption DEF RingAssumption
  <1>1. Init => Queue!QueueInit
    BY DEF Init, Queue!QueueInit
  <1>2. ASSUME IInv, [Next]_vars, IInv' PROVE [Queue!QueueNext]_(Queue!queueVars)
    <2>0. TypeInv /\ (~overflow => RingInv) /\ (~overflow' => RingInv')
      BY <1>2 DEF IInv
    <2>1. CASE overflow
      <3>1. overflow'
        BY <1>2, <2>1
        DEF Next, Handler, Task, vars, handlerVars, Receive, CopyIn, AdvanceHead, WrapHead,
            Poll, Check, CopyOut, AdvanceTail, WrapTail, Send, Wake
      <3> QED BY <2>1, <3>1 DEF Queue!QueueNext
    <2>2. CASE ~overflow
      <3>1. ASSUME NEW n \in ChunkLens, Receive(n)
            PROVE  [Queue!QueueNext]_(Queue!queueVars)
        <4>1. UNCHANGED <<published, offered>>
          BY <3>1 DEF Receive, taskVars
        <4>2. CASE overflow'
          <5>1. overflow' = TRUE
            BY <1>2, <4>2 DEF IInv, TypeInv, TypeOK
          <5> QED BY <2>2, <4>1, <5>1 DEF Queue!QueueNext, Queue!Break
        <4>3. CASE ~overflow'
          <5>1. overflow' = overflow
            BY <1>2, <2>2, <4>3 DEF IInv, TypeInv, TypeOK
          <5> QED BY <4>1, <5>1 DEF Queue!queueVars
        <4> QED BY <4>2, <4>3
      <3>2. CASE AdvanceHead
        <4> DEFINE n == Least(Size - head, count)
        <4>1. /\ published' = published + n /\ UNCHANGED <<offered, overflow>>
          BY <3>2 DEF AdvanceHead, taskVars
        <4>2. n \in Nat /\ n <= count
          <5>1. Size - head \in Nat /\ count \in Nat
            BY <2>0, <3>2 DEF TypeInv, TypeOK, Size
          <5> QED BY <5>1 DEF Least
        <4> HIDE DEF n
        <4>3. /\ published - popped + count <= RB_LEN
              /\ popped <= Len(offered) + max_send_len
              /\ popped \in Nat /\ published \in Nat /\ count \in Nat /\ Len(offered) \in Nat
          BY <2>0, <2>2 DEF RingInv, HandlerInv, TaskInv, TypeInv, TypeOK, Unread
        <4>4. Len(offered) <= popped
          BY <2>0, <2>2 DEF RingInv, TaskInv, TypeInv, TypeOK
        <4>5. published + n - Len(offered) <= RB_LEN + max_send_len
          BY <4>2, <4>3
        <4>6. n \in 0 .. RB_LEN + max_send_len
          BY <2>0, <4>2, <4>3 DEF TypeInv, TypeOK
        <4> QED BY <2>2, <4>1, <4>5, <4>6 DEF Queue!QueueNext, Queue!Put, Queue!queueVars
      <3>3. CASE Send
        <4>1. offered' = offered \o [k \in 1 .. len |-> Len(offered) + k]
          BY <2>0, <2>2, <3>3, SendPreserves
        <4>2. UNCHANGED <<published, overflow>>
          BY <3>3 DEF Send, handlerVars
        <4>3. Len(offered) + len <= published
          BY <2>0, <2>2, <3>3 DEF RingInv, TaskInv, Unread, Send, TypeInv, TypeOK
        <4>4. len \in 0 .. RB_LEN + max_send_len
          BY <2>0 DEF TypeInv, TypeOK
        <4> QED BY <2>2, <4>1, <4>2, <4>3, <4>4 DEF Queue!QueueNext, Queue!Get, Queue!queueVars
      <3>4. ASSUME \/ CopyIn \/ WrapHead \/ Poll \/ Check \/ CopyOut \/ AdvanceTail \/ WrapTail
                   \/ Wake \/ UNCHANGED vars
            PROVE  UNCHANGED Queue!queueVars
        BY <3>4 DEF Queue!queueVars, CopyIn, WrapHead, Poll, Check, CopyOut, AdvanceTail, WrapTail,
                    Wake, vars, handlerVars, taskVars
      <3> QED BY <1>2, <3>1, <3>2, <3>3, <3>4 DEF Next, Handler, Task
    <2> QED BY <2>1, <2>2
  <1>3. IInv /\ IInv' /\ [Next]_vars => [Queue!QueueNext]_(Queue!queueVars)
    BY <1>2
  <1> QED BY <1>1, <1>3, Invariance, PTL DEF Spec, ImplementsQueue, Queue!QueueSpec
===============================================================================
