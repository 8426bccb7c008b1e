------------------------------ MODULE RtUartProofs ------------------------------
(***************************************************************************)
(* Proofs about RtUart for every size of the buffer, of a message and of   *)
(* what the UART hands over at a time.                                     *)
(***************************************************************************)
EXTENDS RtUart, Integers, SequenceTheorems, TLAPS

Bytes == 0 .. MaxBytes

(* What is collected for the next message. *)
Pending == SubSeq(rt_uart_buf, 1, rt_uart_cnt)

(* All that is under way between the device and the UART in the air. *)
Whole == (output \o session) \o Pending

(* The bytes that arrive with a chunk. *)
Chunk(n) == [k \in 1 .. n |-> received + k]

(* In order, each at most once, and none that was not received. *)
Sound(s, m) == /\ \A k \in 1 .. Len(s) : s[k] \in 1 .. m
               /\ \A i, j \in 1 .. Len(s) : i < j => s[i] < s[j]

(* Until it wraps, the count is that of the bytes since the last message.  *)
CountInv == /\ since <= UINT8_MAX => rt_uart_cnt = since
            /\ ~over /\ ~behind => rt_uart_cnt <= MAX_RT_BUF_LEN
            /\ BehindNeedsWrap

OrderInv == ~over /\ ~behind => Sound(Whole, received)

CompleteInv == ~over /\ ~behind /\ ~lost => Whole = [k \in 1 .. received |-> k]

IInv == TypeOK /\ CountInv /\ OrderInv /\ CompleteInv
-------------------------------------------------------------------------------
LEMMA LeastFacts ==
    ASSUME NEW m \in Nat, NEW n \in Nat
    PROVE  Least(m, n) \in Nat /\ Least(m, n) <= m /\ Least(m, n) <= n
  BY DEF Least

(* The beginning of a sequence and the rest of it. *)
LEMMA SplitSeq ==
    ASSUME NEW S, NEW s \in Seq(S), NEW n \in 0 .. Len(s)
    PROVE  /\ SubSeq(s, 1, n) \in Seq(S) /\ SubSeq(s, n + 1, Len(s)) \in Seq(S)
           /\ SubSeq(s, 1, n) \o SubSeq(s, n + 1, Len(s)) = s
<1>1. Len(s) \in Nat /\ \A i \in 1 .. Len(s) : s[i] \in S
  BY ElementOfSeq, LenProperties
<1>2. SubSeq(s, 1, n) \in Seq(S)
  BY <1>1, SubSeqProperties
<1>3. SubSeq(s, n + 1, Len(s)) \in Seq(S)
  BY <1>1, SubSeqProperties
<1>4. SubSeq(s, 1, n) \o SubSeq(s, n + 1, Len(s)) = SubSeq(s, 1, Len(s))
  <2>1. 1 \in 1 .. Len(s) + 1 /\ n \in 1 - 1 .. Len(s) /\ Len(s) \in n .. Len(s)
    BY ONLY <1>1, n \in 0 .. Len(s)
  <2> QED BY <2>1, ConcatAdjacentSubSeq
<1> QED BY <1>2, <1>3, <1>4, SubSeqFull

(* The sum of two counts of eight bits wraps at most once. *)
LEMMA uint8Sum ==
    ASSUME NEW m \in 0 .. UINT8_MAX, NEW n \in 0 .. UINT8_MAX
    PROVE  /\ uint8(m + n) \in 0 .. UINT8_MAX
           /\ m + n <= UINT8_MAX => uint8(m + n) = m + n
<1> DEFINE M == UINT8_MAX + 1
<1>1. M \in Nat \ {0} /\ m \in 0 .. M - 1 /\ n \in 0 .. M - 1
  BY RtAssumption DEF RtAssumption
<1>2. uint8(m + n) = (m + n) % M
  BY DEF uint8
<1> HIDE DEF M
<1>3. (m + n) % M \in 0 .. M - 1 /\ (m + n < M => (m + n) % M = m + n)
  BY ONLY <1>1
<1> QED BY ONLY <1>2, <1>3, RtAssumption DEF M, RtAssumption

(* A chunk is stored in the buffer exactly if it fits, unless the sum      *)
(* wraps.                                                                  *)
LEMMA Stored ==
    ASSUME TypeOK, NEW n \in ChunkLens
    PROVE  /\ n \in 1 .. UINT8_MAX /\ Counted(n) \in 0 .. UINT8_MAX
           /\ rt_uart_cnt + n <= UINT8_MAX => Counted(n) = rt_uart_cnt + n
           /\ Fits(n) /\ rt_uart_cnt + n > MAX_RT_BUF_LEN => rt_uart_cnt + n > UINT8_MAX
           /\ Fits(n) /\ ~(rt_uart_cnt + n > MAX_RT_BUF_LEN) => Counted(n) = rt_uart_cnt + n
<1>1. /\ n \in 1 .. UINT8_MAX /\ rt_uart_cnt \in 0 .. UINT8_MAX
      /\ UINT8_MAX \in Nat /\ MAX_RT_BUF_LEN \in Nat /\ MAX_RT_BUF_LEN < UINT8_MAX
  BY RtAssumption DEF RtAssumption, TypeOK
<1>2. n \in 0 .. UINT8_MAX
  BY ONLY <1>1
<1> DEFINE sum == uint8(rt_uart_cnt + n)
<1>3. sum \in 0 .. UINT8_MAX /\ (rt_uart_cnt + n <= UINT8_MAX => sum = rt_uart_cnt + n)
  BY ONLY <1>1, <1>2, uint8Sum
<1>4. Counted(n) = sum /\ (Fits(n) <=> sum <= MAX_RT_BUF_LEN)
  BY DEF Counted, Fits
<1> HIDE DEF sum
<1> QED BY ONLY <1>1, <1>3, <1>4

(* What bypass_hal_uart_irq_handler stores in the buffer. *)
LEMMA StoreTyped ==
    ASSUME TypeOK, NEW n \in ChunkLens, received + n <= MaxBytes
    PROVE  Store(n) \in [1 .. MAX_RT_BUF_LEN -> Bytes]
<1>1. /\ n \in Nat /\ rt_uart_cnt \in Nat /\ received \in Nat /\ MaxBytes \in Nat
      /\ MAX_RT_BUF_LEN \in Nat
  BY Stored, RtAssumption DEF RtAssumption, TypeOK
<1>2. \A k \in 1 .. MAX_RT_BUF_LEN : rt_uart_buf[k] \in Bytes
  BY DEF TypeOK, Bytes
<1>3. ASSUME NEW k \in 1 .. MAX_RT_BUF_LEN, k \in rt_uart_cnt + 1 .. rt_uart_cnt + n
      PROVE  received + (k - rt_uart_cnt) \in Bytes
  BY ONLY <1>1, <1>3, received + n <= MaxBytes DEF Bytes
<1> QED BY ONLY <1>2, <1>3 DEF Store

(* It comes after what was collected. *)
LEMMA StoreProperties ==
    ASSUME TypeOK, NEW n \in ChunkLens, received + n <= MaxBytes,
           rt_uart_cnt + n <= MAX_RT_BUF_LEN
    PROVE  /\ Pending \in Seq(Bytes) /\ Chunk(n) \in Seq(Bytes) /\ Len(Chunk(n)) = n
           /\ SubSeq(Store(n), 1, rt_uart_cnt + n) = Pending \o Chunk(n)
<1>1. /\ n \in Nat /\ rt_uart_cnt \in Nat /\ received \in Nat /\ MaxBytes \in Nat
      /\ MAX_RT_BUF_LEN \in Nat
  BY Stored, RtAssumption DEF RtAssumption, TypeOK
<1>2. \A k \in 1 .. rt_uart_cnt : rt_uart_buf[k] \in Bytes
  BY <1>1 DEF TypeOK, Bytes
<1>3. /\ Pending \in Seq(Bytes) /\ Len(Pending) = rt_uart_cnt
      /\ \A k \in 1 .. rt_uart_cnt : Pending[k] = rt_uart_buf[k]
  BY <1>1, <1>2, SubSeqProperties DEF Pending
<1>4. \A k \in 1 .. n : received + k \in Bytes
  BY ONLY <1>1, received + n <= MaxBytes DEF Bytes
<1>5. /\ Chunk(n) \in Seq(Bytes) /\ Len(Chunk(n)) = n
      /\ \A k \in 1 .. n : Chunk(n)[k] = received + k
  <2>1. Chunk(n) \in [1 .. n -> Bytes]
    BY ONLY <1>4 DEF Chunk
  <2> QED BY ONLY <1>1, <2>1 DEF Chunk
<1> DEFINE new == Pending \o Chunk(n)  st == Store(n)  s == SubSeq(st, 1, rt_uart_cnt + n)
<1>6. /\ new \in Seq(Bytes) /\ Len(new) = rt_uart_cnt + n
      /\ \A k \in 1 .. rt_uart_cnt + n :
            new[k] = IF k <= rt_uart_cnt THEN Pending[k] ELSE Chunk(n)[k - rt_uart_cnt]
  <2>1. /\ new \in Seq(Bytes) /\ Len(new) = Len(Pending) + Len(Chunk(n))
        /\ \A k \in 1 .. Len(Pending) + Len(Chunk(n)) :
              new[k] = IF k <= Len(Pending) THEN Pending[k] ELSE Chunk(n)[k - Len(Pending)]
    BY ONLY <1>3, <1>5, ConcatProperties
  <2> HIDE DEF new
  <2> QED BY ONLY <1>1, <1>3, <1>5, <2>1
<1>7. \A k \in 1 .. rt_uart_cnt + n :
         st[k] = IF k <= rt_uart_cnt THEN rt_uart_buf[k] ELSE received + (k - rt_uart_cnt)
  BY ONLY <1>1, rt_uart_cnt + n <= MAX_RT_BUF_LEN DEF Store
<1>8. st \in [1 .. MAX_RT_BUF_LEN -> Bytes]
  BY StoreTyped
<1> HIDE DEF new, st
<1>9. \A k \in 1 .. rt_uart_cnt + n : st[k] \in Bytes
  BY ONLY <1>1, <1>8, rt_uart_cnt + n <= MAX_RT_BUF_LEN
<1>10. s \in Seq(Bytes) /\ Len(s) = rt_uart_cnt + n /\ \A k \in 1 .. rt_uart_cnt + n : s[k] = st[k]
  BY ONLY <1>1, <1>9, SubSeqProperties
<1> HIDE DEF s
<1>11. ASSUME NEW k \in 1 .. rt_uart_cnt + n PROVE new[k] = s[k]
  <2>1. CASE k <= rt_uart_cnt
    BY ONLY <1>1, <1>3, <1>6, <1>7, <1>10, <2>1
  <2>2. CASE ~(k <= rt_uart_cnt)
    <3>1. k - rt_uart_cnt \in 1 .. n
      BY ONLY <1>1, <2>2
    <3> QED BY ONLY <1>5, <1>6, <1>7, <1>10, <2>2, <3>1
  <2> QED BY ONLY <2>1, <2>2
<1>12. s = new
  BY ONLY <1>6, <1>10, <1>11, SeqEqual
<1> QED BY <1>3, <1>5, <1>12 DEF s, st, new

(* Leaving a piece out of the middle keeps a sequence sound... *)
LEMMA SoundLeaveOut ==
    ASSUME NEW a \in Seq(Bytes), NEW b \in Seq(Bytes), NEW c \in Seq(Bytes), NEW m \in Nat,
           Sound((a \o b) \o c, m)
    PROVE  Sound(a \o c, m)
<1> DEFINE all == (a \o b) \o c  ac == a \o c  ab == a \o b
<1>1. Len(a) \in Nat /\ Len(b) \in Nat /\ Len(c) \in Nat
  OBVIOUS
<1>2. /\ ab \in Seq(Bytes) /\ Len(ab) = Len(a) + Len(b)
      /\ \A i \in 1 .. Len(a) + Len(b) : ab[i] = IF i <= Len(a) THEN a[i] ELSE b[i - Len(a)]
  BY ONLY a \in Seq(Bytes), b \in Seq(Bytes), ConcatProperties
<1>3. /\ Len(ac) = Len(a) + Len(c)
      /\ \A i \in 1 .. Len(a) + Len(c) : ac[i] = IF i <= Len(a) THEN a[i] ELSE c[i - Len(a)]
  BY ONLY a \in Seq(Bytes), c \in Seq(Bytes), ConcatProperties
<1> HIDE DEF ab
<1>4. /\ Len(all) = Len(ab) + Len(c)
      /\ \A i \in 1 .. Len(ab) + Len(c) : all[i] = IF i <= Len(ab) THEN ab[i] ELSE c[i - Len(ab)]
  BY <1>2, ConcatProperties DEF ab
<1>5. Sound(all, m)
  OBVIOUS
<1> HIDE DEF all, ac
<1> DEFINE from(i) == IF i <= Len(a) THEN i ELSE i + Len(b)
<1>6. ASSUME NEW i \in 1 .. Len(a) + Len(c)
      PROVE  from(i) \in 1 .. Len(all) /\ ac[i] = all[from(i)]
  <2>1. /\ ac[i] = IF i <= Len(a) THEN a[i] ELSE c[i - Len(a)]
        /\ from(i) \in 1 .. Len(ab) + Len(c)
    BY ONLY <1>1, <1>2, <1>3, <1>6
  <2>2. all[from(i)] = IF from(i) <= Len(ab) THEN ab[from(i)] ELSE c[from(i) - Len(ab)]
    BY ONLY <1>4, <2>1
  <2>3. CASE i <= Len(a)
    <3>1. from(i) = i /\ i <= Len(ab) /\ i \in 1 .. Len(a) + Len(b)
      BY <1>1, <1>2, <2>3
    <3>2. ab[i] = a[i]
      BY ONLY <1>2, <2>3, <3>1
    <3> QED BY ONLY <1>4, <2>1, <2>2, <2>3, <3>1, <3>2
  <2>4. CASE ~(i <= Len(a))
    <3>1. from(i) = i + Len(b) /\ ~(from(i) <= Len(ab)) /\ from(i) - Len(ab) = i - Len(a)
      BY <1>1, <1>2, <2>4
    <3> QED BY ONLY <1>4, <2>1, <2>2, <2>4, <3>1
  <2> QED BY ONLY <2>3, <2>4
<1>7. \A i, j \in 1 .. Len(a) + Len(c) : i < j => from(i) < from(j)
  BY ONLY <1>1
<1> HIDE DEF from
<1>8. \A k \in 1 .. Len(ac) : ac[k] \in 1 .. m
  BY ONLY <1>3, <1>5, <1>6 DEF Sound
<1>9. \A i, j \in 1 .. Len(ac) : i < j => ac[i] < ac[j]
  BY ONLY <1>3, <1>5, <1>6, <1>7 DEF Sound
<1> QED BY <1>8, <1>9 DEF Sound, ac

(* ... and so does the next chunk. *)
LEMMA SoundAppend ==
    ASSUME NEW s \in Seq(Bytes), received \in Nat, NEW n \in Nat, Chunk(n) \in Seq(Bytes),
           Len(Chunk(n)) = n, Sound(s, received)
    PROVE  Sound(s \o Chunk(n), received + n)
<1> DEFINE c == Chunk(n)  sc == s \o c
<1>1. Len(s) \in Nat /\ \A k \in 1 .. n : c[k] = received + k
  BY DEF Chunk
<1>2. /\ Len(sc) = Len(s) + n
      /\ \A i \in 1 .. Len(s) + n : sc[i] = IF i <= Len(s) THEN s[i] ELSE c[i - Len(s)]
  BY ConcatProperties
<1> HIDE DEF c, sc
<1>3. \A i \in 1 .. Len(s) + n : sc[i] = IF i <= Len(s) THEN s[i] ELSE received + (i - Len(s))
  BY ONLY <1>1, <1>2, n \in Nat
<1>4. \A i \in 1 .. Len(s) : s[i] \in 1 .. received
  BY DEF Sound
<1>5. \A i, j \in 1 .. Len(s) : i < j => s[i] < s[j]
  BY DEF Sound
<1>6. \A k \in 1 .. Len(sc) : sc[k] \in 1 .. received + n
  BY ONLY <1>1, <1>2, <1>3, <1>4, n \in Nat, received \in Nat
<1>7. \A i, j \in 1 .. Len(sc) : i < j => sc[i] < sc[j]
  BY ONLY <1>1, <1>2, <1>3, <1>4, <1>5, n \in Nat, received \in Nat
<1> QED BY <1>6, <1>7 DEF Sound, c, sc

(* Concatenation of bytes. *)
LEMMA Concat ==
    ASSUME NEW a \in Seq(Bytes), NEW b \in Seq(Bytes), NEW c \in Seq(Bytes)
    PROVE  a \o b \in Seq(Bytes) /\ a \o (b \o c) = (a \o b) \o c
<1>1. a \o b \in Seq(Bytes)
  BY ConcatProperties
<1>2. (a \o b) \o c = a \o (b \o c)
  BY ConcatAssociative
<1> QED BY <1>1, <1>2
-------------------------------------------------------------------------------
LEMMA WholeTyped ==
    ASSUME TypeOK, rt_uart_cnt <= MAX_RT_BUF_LEN
    PROVE  /\ Pending \in Seq(Bytes) /\ Len(Pending) = rt_uart_cnt
           /\ output \in Seq(Bytes) /\ session \in Seq(Bytes)
           /\ output \o session \in Seq(Bytes) /\ Whole \in Seq(Bytes)
<1> USE RtAssumption DEF RtAssumption, TypeOK, Bytes
<1>1. \A i \in 1 .. rt_uart_cnt : rt_uart_buf[i] \in Bytes
  OBVIOUS
<1>2. Pending \in Seq(Bytes) /\ Len(Pending) = rt_uart_cnt
  BY <1>1, SubSeqProperties DEF Pending
<1> HIDE DEF Bytes
<1>3. output \in Seq(Bytes) /\ session \in Seq(Bytes)
  BY DEF Bytes
<1>4. output \o session \in Seq(Bytes)
  BY ONLY <1>3, ConcatProperties
<1>5. Whole \in Seq(Bytes)
  BY ONLY <1>2, <1>4, ConcatProperties DEF Whole
<1> QED BY <1>2, <1>3, <1>4, <1>5

(* Type correctness, and how much is counted. *)
LEMMA TypeInductive ==
    ASSUME TypeOK, CountInv, [Next]_vars
    PROVE  TypeOK' /\ CountInv'
<1> USE RtAssumption DEF RtAssumption, TypeOK, CountInv, BehindNeedsWrap, groundVars, skyVars, deviceVars
<1>1. ASSUME NEW started \in BOOLEAN, wimax_irq(started) PROVE TypeOK' /\ CountInv'
  BY <1>1 DEF wimax_irq
<1>2. ASSUME NEW n \in ChunkLens, bypass_hal_uart_irq_handler(n) PROVE TypeOK' /\ CountInv'
  <2>1. /\ received + n <= MaxBytes
        /\ rt_uart_buf' = IF Fits(n) THEN Store(n) ELSE rt_uart_buf
        /\ rt_uart_cnt' = Counted(n)
        /\ received' = received + n /\ since' = since + n
        /\ behind' = (Fits(n) /\ rt_uart_cnt + n > MAX_RT_BUF_LEN)
        /\ over' = (over \/ ~Fits(n))
        /\ UNCHANGED <<sync, txIrq, timer, session, skyVars, lost, stuck>>
    BY <1>2 DEF bypass_hal_uart_irq_handler
  <2>2. /\ n \in 1 .. UINT8_MAX /\ rt_uart_cnt' \in 0 .. UINT8_MAX
        /\ rt_uart_cnt + n <= UINT8_MAX => rt_uart_cnt' = rt_uart_cnt + n
        /\ Fits(n) /\ rt_uart_cnt + n > MAX_RT_BUF_LEN => rt_uart_cnt + n > UINT8_MAX
        /\ Fits(n) /\ ~(rt_uart_cnt + n > MAX_RT_BUF_LEN) => rt_uart_cnt' = rt_uart_cnt + n
    BY ONLY <2>1, Stored, TypeOK, n \in ChunkLens
  <2>3. rt_uart_buf' \in [1 .. MAX_RT_BUF_LEN -> 0 .. MaxBytes]
    <3>1. CASE Fits(n)
      BY <2>1, <3>1, StoreTyped DEF Bytes
    <3>2. CASE ~Fits(n)
      BY <2>1, <3>2
    <3> QED BY <3>1, <3>2
  <2>4. over' \in BOOLEAN /\ behind' \in BOOLEAN
    BY ONLY <2>1, TypeOK, Zenon DEF TypeOK
  <2>5. /\ rt_uart_cnt \in Nat /\ since \in 0 .. received /\ received \in Nat
        /\ MAX_RT_BUF_LEN \in Nat /\ UINT8_MAX \in Nat
        /\ since <= UINT8_MAX => rt_uart_cnt = since
    OBVIOUS
  <2>6. TypeOK'
    <3>1. received' \in 0 .. MaxBytes /\ since' \in 0 .. received'
      BY ONLY <2>1, <2>2, <2>5
    <3> QED BY <2>1, <2>2, <2>3, <2>4, <3>1
  <2>7. since' <= UINT8_MAX => rt_uart_cnt' = since'
    BY ONLY <2>1, <2>2, <2>5
  <2>8. ~over' /\ ~behind' => rt_uart_cnt' <= MAX_RT_BUF_LEN
    <3>1. ~over' /\ ~behind' => Fits(n) /\ ~(rt_uart_cnt + n > MAX_RT_BUF_LEN)
      BY ONLY <2>1, Zenon
    <3> QED BY ONLY <2>2, <2>5, <3>1
  <2>9. BehindNeedsWrap'
    <3>1. behind' => rt_uart_cnt + n > UINT8_MAX
      BY ONLY <2>1, <2>2, Zenon
    <3>2. rt_uart_cnt + n > UINT8_MAX => since' > UINT8_MAX
      BY ONLY <2>1, <2>2, <2>5
    <3> QED BY ONLY <3>1, <3>2 DEF BehindNeedsWrap
  <2> QED BY <2>6, <2>7, <2>8, <2>9
<1>3. ASSUME NEW sent \in BOOLEAN, NEW stopped \in BOOLEAN, ~behind,
             sbus_delay_notice(sent, stopped)
      PROVE  TypeOK' /\ CountInv'
  <2> DEFINE n == Least(rt_uart_cnt, spi_num)
             message == SubSeq(rt_uart_buf, 1, n)
  <2>1. n \in Nat /\ n <= spi_num
    <3>1. rt_uart_cnt \in Nat /\ spi_num \in Nat
      OBVIOUS
    <3> QED BY ONLY <3>1, LeastFacts
  <2>2. message \in Seq(0 .. MaxBytes)
    <3>1. \A i \in 1 .. n : rt_uart_buf[i] \in 0 .. MaxBytes
      BY <2>1, SMTT(20)
    <3> HIDE DEF n
    <3> QED BY <2>1, <3>1, SubSeqProperties
  <2>3. session' = IF sent THEN session \o message ELSE session
    BY <1>3 DEF sbus_delay_notice, SendReceived
  <2> HIDE DEF message, n
  <2>4. session' \in Seq(0 .. MaxBytes)
    BY <2>2, <2>3, ConcatProperties
  <2>5. rt_uart_cnt' = 0 /\ since' = 0 /\ lost' \in BOOLEAN
    BY <1>3 DEF sbus_delay_notice, SendReceived, CountAfterSend
  <2>6. sync' \in BOOLEAN /\ timer' \in BOOLEAN /\ txIrq' \in BOOLEAN
    BY <1>3 DEF sbus_delay_notice, CloseWindow
  <2>7. ~behind /\ UNCHANGED <<rt_uart_buf, skyVars, received, behind, over, stuck>>
    BY <1>3 DEF sbus_delay_notice
  <2> QED BY <2>4, <2>5, <2>6, <2>7
<1>4. ASSUME NEW started \in BOOLEAN, sky_wimax_irq(started) PROVE TypeOK' /\ CountInv'
  BY <1>4 DEF sky_wimax_irq
<1>5. ASSUME NEW read \in BOOLEAN, NEW put \in BOOLEAN, NEW stopped \in BOOLEAN,
             sky_sbus_delay_notice(read, put, stopped)
      PROVE  TypeOK' /\ CountInv'
  <2> DEFINE n == IF read THEN Least(Len(session), BB_READ_MAX_LEN) ELSE 0
             begin == SubSeq(session, 1, n)
  <2>1. n \in 0 .. Len(session)
    <3>1. Len(session) \in Nat
      BY LenProperties
    <3>2. BB_READ_MAX_LEN \in Nat
      OBVIOUS
    <3>3. /\ Least(Len(session), BB_READ_MAX_LEN) \in Nat
          /\ Least(Len(session), BB_READ_MAX_LEN) <= Len(session)
      BY ONLY <3>1, <3>2, LeastFacts
    <3> QED BY ONLY <3>1, <3>3
  <2>2. PutOut(n, put)
    BY <1>5 DEF sky_sbus_delay_notice
  <2>3. /\ output' = IF put THEN output \o begin ELSE output
        /\ session' = SubSeq(session, n + 1, Len(session))
    BY <2>2 DEF PutOut
  <2>4. lost' \in BOOLEAN
    BY <2>2 DEF PutOut
  <2> HIDE DEF n
  <2>5. begin \in Seq(0 .. MaxBytes) /\ session' \in Seq(0 .. MaxBytes)
    BY <2>1, <2>3, SplitSeq
  <2> HIDE DEF begin
  <2>6. output' \in Seq(0 .. MaxBytes)
    BY <2>3, <2>5, ConcatProperties
  <2>7. skyTimer' \in BOOLEAN /\ rxIrq' \in BOOLEAN
    BY <1>5 DEF sky_sbus_delay_notice
  <2>8. UNCHANGED <<groundVars, deviceVars, stuck>>
    BY <1>5 DEF sky_sbus_delay_notice
  <2> QED BY <2>4, <2>5, <2>6, <2>7, <2>8
<1>6. CASE UNCHANGED vars
  BY <1>6 DEF vars
<1> QED BY <1>1, <1>2, <1>3, <1>4, <1>5, <1>6
        DEF Next, TxEnable, Device, GroundTimer, RxEnable, SkyTimer

(* A chunk that fits comes after all that is under way. *)
LEMMA DeviceData ==
    ASSUME IInv, ~behind, NEW n \in ChunkLens, bypass_hal_uart_irq_handler(n)
    PROVE  OrderInv' /\ CompleteInv'
<1>1. SUFFICES ASSUME ~over', ~behind' PROVE OrderInv' /\ CompleteInv'
  BY DEF OrderInv, CompleteInv
<1>2. /\ over' = (over \/ ~Fits(n))
      /\ behind' = (Fits(n) /\ rt_uart_cnt + n > MAX_RT_BUF_LEN)
      /\ rt_uart_cnt' = Counted(n) /\ received' = received + n
      /\ received + n <= MaxBytes
      /\ rt_uart_buf' = IF Fits(n) THEN Store(n) ELSE rt_uart_buf
      /\ output' = output /\ session' = session /\ lost' = lost
  BY DEF bypass_hal_uart_irq_handler, skyVars
<1>3. n \in Nat /\ rt_uart_cnt \in Nat /\ received \in Nat /\ MAX_RT_BUF_LEN \in Nat
  BY RtAssumption DEF RtAssumption, IInv, TypeOK
<1>4. ~over /\ ~behind /\ Fits(n) /\ ~(rt_uart_cnt + n > MAX_RT_BUF_LEN)
  BY <1>1, <1>2, Zenon
<1>5. rt_uart_cnt + n <= MAX_RT_BUF_LEN
  BY <1>3, <1>4
<1>6. TypeOK /\ rt_uart_cnt <= MAX_RT_BUF_LEN /\ rt_uart_cnt' = rt_uart_cnt + n
  BY <1>2, <1>4, Stored DEF IInv, CountInv
<1>7. /\ Pending \in Seq(Bytes) /\ Chunk(n) \in Seq(Bytes) /\ Len(Chunk(n)) = n
      /\ Pending' = Pending \o Chunk(n)
  <2>1. rt_uart_buf' = Store(n)
    BY <1>2, <1>4
  <2> QED BY <1>2, <1>5, <1>6, <2>1, StoreProperties DEF Pending
<1>8. output \o session \in Seq(Bytes) /\ Whole \in Seq(Bytes)
  BY <1>6, WholeTyped
<1>9. Whole' = Whole \o Chunk(n)
  <2> DEFINE before == output \o session
  <2>1. before \in Seq(Bytes)
    BY <1>8
  <2>2. Whole = before \o Pending /\ Whole' = before \o (Pending \o Chunk(n))
    BY ONLY <1>2, <1>7 DEF Whole
  <2> HIDE DEF before
  <2>3. before \o (Pending \o Chunk(n)) = (before \o Pending) \o Chunk(n)
    BY ONLY <1>7, <2>1, Concat
  <2> QED BY ONLY <2>2, <2>3
<1>10. OrderInv'
  <2>1. Sound(Whole, received)
    BY <1>4 DEF IInv, OrderInv
  <2>2. Sound(Whole \o Chunk(n), received + n)
    BY ONLY <1>3, <1>7, <1>8, <2>1, SoundAppend
  <2>3. Sound(Whole', received')
    BY <1>2, <1>9, <2>2
  <2> QED BY <2>3 DEF OrderInv
<1>11. CompleteInv'
  <2>1. SUFFICES ASSUME ~lost PROVE Whole' = [k \in 1 .. received' |-> k]
    BY <1>2 DEF CompleteInv
  <2>2. Whole = [k \in 1 .. received |-> k]
    BY <1>4, <2>1 DEF IInv, CompleteInv
  <2>3. Len(Whole) = received /\ \A k \in 1 .. received : Whole[k] = k
    BY ONLY <1>3, <2>2
  <2>4. /\ Whole' \in Seq(Bytes) /\ Len(Whole') = received + n
        /\ \A i \in 1 .. received + n :
              Whole'[i] = IF i <= received THEN Whole[i] ELSE Chunk(n)[i - received]
    BY ONLY <1>7, <1>8, <1>9, <2>3, ConcatProperties
  <2>5. \A i \in 1 .. received + n : Whole'[i] = i
    <3>1. \A k \in 1 .. n : Chunk(n)[k] = received + k
      BY ONLY <1>3 DEF Chunk
    <3>2. ASSUME NEW i \in 1 .. received + n, ~(i <= received) PROVE Whole'[i] = i
      <4>1. i - received \in 1 .. n /\ received + (i - received) = i
        BY ONLY <1>3, <3>2
      <4> QED BY ONLY <2>4, <3>1, <3>2, <4>1
    <3>3. ASSUME NEW i \in 1 .. received + n, i <= received PROVE Whole'[i] = i
      BY ONLY <1>3, <2>3, <2>4, <3>3
    <3> QED BY ONLY <3>2, <3>3
  <2>6. Whole' = [k \in 1 .. received + n |-> k]
    BY ONLY <2>4, <2>5, LenProperties
  <2> QED BY ONLY <1>2, <2>6
<1> QED BY <1>10, <1>11

(* A message takes what was collected, or its beginning, or nothing. *)
LEMMA GroundData ==
    ASSUME IInv, NEW sent \in BOOLEAN, NEW stopped \in BOOLEAN, sbus_delay_notice(sent, stopped)
    PROVE  OrderInv' /\ CompleteInv'
<1>1. SUFFICES ASSUME ~over, ~behind PROVE OrderInv' /\ CompleteInv'
  BY DEF OrderInv, CompleteInv, deviceVars, sbus_delay_notice
<1> DEFINE n == Least(rt_uart_cnt, spi_num)
           message == SubSeq(Pending, 1, n)
           rest == SubSeq(Pending, n + 1, Len(Pending))
           before == output \o session
<1>2. TypeOK /\ rt_uart_cnt <= MAX_RT_BUF_LEN /\ Sound(Whole, received)
  BY <1>1 DEF IInv, CountInv, OrderInv
<1>3. /\ Pending \in Seq(Bytes) /\ Len(Pending) = rt_uart_cnt
      /\ output \in Seq(Bytes) /\ session \in Seq(Bytes) /\ before \in Seq(Bytes)
  BY <1>2, WholeTyped
<1>4. rt_uart_cnt \in Nat /\ spi_num \in Nat /\ received \in Nat
  BY <1>2, RtAssumption DEF RtAssumption, TypeOK
<1>5. n \in 0 .. Len(Pending) /\ (rt_uart_cnt <= spi_num => n = rt_uart_cnt)
  BY ONLY <1>3, <1>4 DEF Least
<1>6. SubSeq(rt_uart_buf, 1, n) = message
  <2>1. \A i \in 1 .. n : rt_uart_buf[i] \in Bytes /\ Pending[i] = rt_uart_buf[i]
    <3>1. \A i \in 1 .. rt_uart_cnt : rt_uart_buf[i] \in Bytes
      BY <1>2, RtAssumption, SMTT(20) DEF RtAssumption, TypeOK, Bytes
    <3>2. \A i \in 1 .. rt_uart_cnt : Pending[i] = rt_uart_buf[i]
      BY ONLY <1>4, <3>1, SubSeqProperties DEF Pending
    <3> QED BY ONLY <1>3, <1>4, <1>5, <3>1, <3>2
  <2> HIDE DEF n
  <2>2. n \in Nat /\ n \in Int
    BY <1>3, <1>4, <1>5
  <2>3. /\ SubSeq(rt_uart_buf, 1, n) \in Seq(Bytes) /\ Len(SubSeq(rt_uart_buf, 1, n)) = n
        /\ \A i \in 1 .. n : SubSeq(rt_uart_buf, 1, n)[i] = rt_uart_buf[i]
    BY ONLY <2>1, <2>2, SubSeqProperties
  <2>4. /\ message \in Seq(Bytes) /\ Len(message) = n
        /\ \A i \in 1 .. n : message[i] = Pending[i]
    <3>1. \A i \in 1 .. n : Pending[i] \in Bytes
      BY <2>1
    <3> QED BY ONLY <2>2, <3>1, SubSeqProperties
  <2> HIDE DEF message
  <2> QED BY ONLY <2>1, <2>3, <2>4, SeqEqual
<1>7. message \in Seq(Bytes) /\ rest \in Seq(Bytes) /\ message \o rest = Pending
  BY ONLY <1>3, <1>5, SplitSeq
<1>8. /\ session' = IF sent THEN session \o SubSeq(rt_uart_buf, 1, n) ELSE session
      /\ lost' = (lost \/ (rt_uart_cnt > 0 /\ ~sent) \/ rt_uart_cnt > spi_num)
      /\ rt_uart_cnt' = 0 /\ rt_uart_buf' = rt_uart_buf
      /\ output' = output /\ received' = received
      /\ over' = over /\ behind' = behind
  BY DEF sbus_delay_notice, SendReceived, CountAfterSend, skyVars
<1>9. Pending' = << >>
  BY ONLY <1>8, SubSeqEmpty DEF Pending
<1> HIDE DEF n
<1>10. Whole' = IF sent THEN before \o message ELSE before
  <2>1. Whole' = output \o session'
    <3>1. session' \in Seq(Bytes)
      BY ONLY <1>3, <1>6, <1>7, <1>8, ConcatProperties
    <3>2. output \o session' \in Seq(Bytes)
      BY ONLY <1>3, <3>1, ConcatProperties
    <3> QED BY ONLY <1>8, <1>9, <3>2, ConcatEmptySeq DEF Whole
  <2> HIDE DEF message
  <2>2. output \o (session \o message) = (output \o session) \o message
    BY ONLY <1>3, <1>7, Concat, SMTT(20)
  <2> QED BY ONLY <1>6, <1>8, <2>1, <2>2
<1> HIDE DEF message, rest, before
<1>11. (before \o message) \o rest = Whole
  <2>1. before \o (message \o rest) = (before \o message) \o rest
    BY ONLY <1>3, <1>7, Concat, ZenonT(40)
  <2> QED BY ONLY <1>7, <2>1 DEF Whole, before
<1>12. OrderInv'
  <2>1. << >> \in Seq(Bytes) /\ before \o Pending = Whole
    BY DEF Whole, before
  <2>2. CASE sent
    <3>1. ((before \o message) \o rest) \o << >> = Whole
      <4>1. Whole \in Seq(Bytes)
        BY <1>2, WholeTyped
      <4> QED BY ONLY <1>11, <4>1, ConcatEmptySeq
    <3>2. before \o message \in Seq(Bytes)
      BY ONLY <1>3, <1>7, ConcatProperties
    <3>3. Sound((before \o message) \o << >>, received)
      <4>1. Sound(((before \o message) \o rest) \o << >>, received)
        BY ONLY <1>2, <3>1
      <4> QED BY ONLY <1>4, <1>7, <2>1, <3>2, <4>1, SoundLeaveOut, Zenon
    <3>4. (before \o message) \o << >> = before \o message
      BY ONLY <3>2, ConcatEmptySeq
    <3>5. Sound(Whole', received')
      BY ONLY <1>8, <1>10, <2>2, <3>3, <3>4
    <3> QED BY <3>5 DEF OrderInv
  <2>3. CASE ~sent
    <3>1. (before \o Pending) \o << >> = Whole
      <4>1. Whole \in Seq(Bytes)
        BY <1>2, WholeTyped
      <4> QED BY ONLY <2>1, <4>1, ConcatEmptySeq
    <3>2. Sound(before \o << >>, received)
      <4>1. Sound((before \o Pending) \o << >>, received)
        BY ONLY <1>2, <3>1
      <4> QED BY ONLY <1>3, <1>4, <2>1, <4>1, SoundLeaveOut, Zenon
    <3>3. before \o << >> = before
      BY ONLY <1>3, ConcatEmptySeq
    <3>4. Sound(Whole', received')
      BY ONLY <1>8, <1>10, <2>3, <3>2, <3>3
    <3> QED BY <3>4 DEF OrderInv
  <2> QED BY <2>2, <2>3
<1>13. CompleteInv'
  <2>1. SUFFICES ASSUME ~lost' PROVE Whole' = [k \in 1 .. received' |-> k]
    BY DEF CompleteInv
  <2>2. ~lost /\ ~(rt_uart_cnt > 0 /\ ~sent) /\ ~(rt_uart_cnt > spi_num)
    BY ONLY <1>8, <2>1, Zenon
  <2>3. Whole = [k \in 1 .. received |-> k]
    BY <1>1, <2>2 DEF IInv, CompleteInv
  <2>4. n = Len(Pending)
    BY ONLY <1>3, <1>4, <1>5, <2>2
  <2>5. message = Pending
    BY ONLY <1>3, <2>4, SubSeqFull DEF message
  <2>6. CASE sent
    BY ONLY <1>8, <1>10, <2>3, <2>5, <2>6 DEF Whole, before
  <2>7. CASE ~sent
    <3>1. rt_uart_cnt = 0
      BY ONLY <1>4, <2>2, <2>7
    <3>2. Pending = << >>
      BY ONLY <1>3, <3>1, EmptySeq
    <3>3. before \o << >> = before
      BY ONLY <1>3, ConcatEmptySeq
    <3>4. before = Whole
      BY ONLY <3>2, <3>3 DEF Whole, before
    <3> QED BY ONLY <1>8, <1>10, <2>3, <2>7, <3>4
  <2> QED BY <2>6, <2>7
<1> QED BY <1>12, <1>13

(* The air side puts out the beginning of the session, or drops it. *)
LEMMA SkyData ==
    ASSUME IInv, NEW read \in BOOLEAN, NEW put \in BOOLEAN, NEW stopped \in BOOLEAN,
           sky_sbus_delay_notice(read, put, stopped)
    PROVE  OrderInv' /\ CompleteInv'
<1>1. SUFFICES ASSUME ~over, ~behind PROVE OrderInv' /\ CompleteInv'
  BY DEF OrderInv, CompleteInv, deviceVars, sky_sbus_delay_notice
<1> DEFINE n == IF read THEN Least(Len(session), BB_READ_MAX_LEN) ELSE 0
           begin == SubSeq(session, 1, n)
           rest == SubSeq(session, n + 1, Len(session))
<1>2. TypeOK /\ rt_uart_cnt <= MAX_RT_BUF_LEN /\ Sound(Whole, received)
  BY <1>1 DEF IInv, CountInv, OrderInv
<1>3. /\ Pending \in Seq(Bytes) /\ output \in Seq(Bytes) /\ session \in Seq(Bytes)
      /\ Whole \in Seq(Bytes)
  BY <1>2, WholeTyped
<1>4. Len(session) \in Nat /\ BB_READ_MAX_LEN \in Nat /\ received \in Nat
  BY <1>2, <1>3, RtAssumption, LenProperties DEF RtAssumption, TypeOK
<1>5. n \in 0 .. Len(session)
  <2>1. /\ Least(Len(session), BB_READ_MAX_LEN) \in Nat
        /\ Least(Len(session), BB_READ_MAX_LEN) <= Len(session)
    BY ONLY <1>4, LeastFacts
  <2> QED BY ONLY <1>4, <2>1
<1>6. PutOut(n, put) /\ UNCHANGED <<groundVars, deviceVars, stuck>>
  BY DEF sky_sbus_delay_notice
<1>7. /\ output' = IF put THEN output \o begin ELSE output
      /\ session' = rest
      /\ lost' = (lost \/ (n > 0 /\ ~put))
      /\ rt_uart_cnt' = rt_uart_cnt /\ rt_uart_buf' = rt_uart_buf
      /\ received' = received /\ over' = over /\ behind' = behind
  BY <1>6 DEF PutOut, groundVars, deviceVars
<1> HIDE DEF n
<1>8. begin \in Seq(Bytes) /\ rest \in Seq(Bytes) /\ begin \o rest = session
  BY ONLY <1>3, <1>5, SplitSeq
<1>9. n = 0 => begin = << >>
  BY ONLY SubSeqEmpty
<1> HIDE DEF begin, rest
<1>10. Pending' = Pending
  BY ONLY <1>7 DEF Pending
<1>11. (output \o begin) \o rest = output \o session
  <2>1. output \o (begin \o rest) = (output \o begin) \o rest
    <3>1. output \in Seq(Bytes) /\ begin \in Seq(Bytes) /\ rest \in Seq(Bytes)
      BY <1>3, <1>8
    <3> QED BY ONLY <3>1, Concat
  <2> QED BY ONLY <1>8, <2>1
<1>12. put => Whole' = Whole
  BY ONLY <1>7, <1>10, <1>11 DEF Whole
<1>13. OrderInv'
  <2>1. CASE put
    BY <1>2, <1>7, <1>12, <2>1 DEF OrderInv
  <2>2. CASE ~put
    <3>1. Whole' = output \o (rest \o Pending)
      <4>1. output \o (rest \o Pending) = (output \o rest) \o Pending
        BY ONLY <1>3, <1>8, Concat, SMTT(20)
      <4> QED BY ONLY <1>7, <1>10, <2>2, <4>1 DEF Whole
    <3>2. Whole = (output \o begin) \o (rest \o Pending)
      <4> DEFINE before == output \o begin
      <4>1. before \in Seq(Bytes)
        BY ONLY <1>3, <1>8, Concat
      <4>2. Whole = (before \o rest) \o Pending
        BY ONLY <1>11 DEF Whole
      <4> HIDE DEF before
      <4>3. before \o (rest \o Pending) = (before \o rest) \o Pending
        BY ONLY <1>3, <1>8, <4>1, Concat, SMTT(20)
      <4> QED BY ONLY <4>2, <4>3 DEF before
    <3>3. rest \o Pending \in Seq(Bytes)
      BY ONLY <1>3, <1>8, Concat
    <3>4. Sound((output \o begin) \o (rest \o Pending), received)
      BY ONLY <1>2, <3>2
    <3>5. Sound(output \o (rest \o Pending), received)
      BY ONLY <1>3, <1>4, <1>8, <3>3, <3>4, SoundLeaveOut, Zenon
    <3>6. Sound(Whole', received')
      BY ONLY <1>7, <3>1, <3>5
    <3> QED BY <3>6 DEF OrderInv
  <2> QED BY <2>1, <2>2
<1>14. CompleteInv'
  <2>1. SUFFICES ASSUME ~lost' PROVE Whole' = [k \in 1 .. received' |-> k]
    BY DEF CompleteInv
  <2>2. ~lost /\ ~(n > 0 /\ ~put)
    BY ONLY <1>7, <2>1, Zenon
  <2>3. Whole = [k \in 1 .. received |-> k]
    BY <1>1, <2>2 DEF IInv, CompleteInv
  <2>4. CASE put
    BY ONLY <1>7, <1>12, <2>3, <2>4
  <2>5. CASE ~put
    <3>1. begin = << >>
      BY ONLY <1>4, <1>5, <1>9, <2>2, <2>5
    <3>2. output \o begin = output
      BY ONLY <1>3, <3>1, ConcatEmptySeq
    <3>3. Whole' = Whole
      BY ONLY <1>7, <1>10, <1>11, <2>5, <3>2 DEF Whole
    <3> QED BY ONLY <1>7, <2>3, <3>3
  <2> QED BY <2>4, <2>5
<1> QED BY <1>13, <1>14

LEMMA InitInv == Init => IInv
<1> SUFFICES ASSUME Init PROVE IInv
  OBVIOUS
<1> USE RtAssumption DEF RtAssumption, Init
<1>1. TypeOK
  <2>1. << >> \in Seq(0 .. MaxBytes)
    BY EmptySeq
  <2>2. rt_uart_buf \in [1 .. MAX_RT_BUF_LEN -> 0 .. MaxBytes]
    BY DEF Init
  <2>3. /\ received \in 0 .. MaxBytes /\ rt_uart_cnt \in 0 .. UINT8_MAX
        /\ since \in 0 .. received
    BY DEF Init
  <2> QED BY <2>1, <2>2, <2>3, Zenon DEF TypeOK
<1>2. Whole = << >>
  <2>1. Pending = << >>
    BY SubSeqEmpty DEF Pending
  <2> QED BY <2>1, ConcatEmptySeq, EmptySeq DEF Whole
<1>3. OrderInv
  BY <1>2 DEF OrderInv, Sound
<1>4. CompleteInv
  BY <1>2 DEF CompleteInv
<1> QED BY <1>1, <1>3, <1>4 DEF IInv, CountInv, BehindNeedsWrap

LEMMA Inductive == ASSUME IInv, [Next]_vars PROVE IInv'
<1>1. TypeOK' /\ CountInv'
  BY TypeInductive DEF IInv
<1>10. SUFFICES OrderInv' /\ CompleteInv'
  BY <1>1 DEF IInv
<1>2. ASSUME UNCHANGED <<output, session, rt_uart_buf, rt_uart_cnt, received,
                       behind, over, lost>>
      PROVE  OrderInv' /\ CompleteInv'
  BY <1>2 DEF IInv, OrderInv, CompleteInv, Whole, Pending
<1>3. ASSUME NEW started \in BOOLEAN, wimax_irq(started) PROVE OrderInv' /\ CompleteInv'
  BY <1>2, <1>3 DEF wimax_irq, skyVars, deviceVars
<1>4. ASSUME NEW started \in BOOLEAN, sky_wimax_irq(started) PROVE OrderInv' /\ CompleteInv'
  BY <1>2, <1>4 DEF sky_wimax_irq, groundVars, deviceVars
<1>5. CASE UNCHANGED vars
  <2>1. UNCHANGED <<output, session, rt_uart_buf, rt_uart_cnt, received,
                       behind, over, lost>>
    BY ONLY <1>5 DEF vars, groundVars, skyVars, deviceVars
  <2> QED BY ONLY <1>2, <2>1
<1>6. CASE TxEnable \/ RxEnable
  BY <1>3, <1>4, <1>6 DEF TxEnable, RxEnable
<1>7. CASE Device
  BY <1>7, DeviceData DEF Device
<1>8. CASE GroundTimer
  BY <1>8, GroundData DEF GroundTimer
<1>9. CASE \E read \in BOOLEAN : SkyTimer(read)
  BY <1>9, SkyData DEF SkyTimer
<1> QED BY <1>5, <1>6, <1>7, <1>8, <1>9 DEF Next
-------------------------------------------------------------------------------
(* Whatever the two sides have in hand between the device and the UART in  *)
(* the air is in order, and complete while nothing was lost.               *)
THEOREM Invariance == Spec => []IInv
<1>1. IInv /\ [Next]_vars => IInv'
  BY Inductive
<1> QED BY InitInv, <1>1, PTL DEF Spec

(* Type correctness. *)
THEOREM TypeCorrect == Spec => []TypeOK
<1>1. IInv => TypeOK
  BY DEF IInv
<1> QED BY Invariance, <1>1, PTL

(* The handler stores nothing behind rt_uart_buf before 2^8 bytes arrived  *)
(* since the last message.                                                 *)
THEOREM NeedsWrap == Spec => []BehindNeedsWrap
<1>1. IInv => BehindNeedsWrap
  BY DEF IInv, CountInv
<1> QED BY Invariance, <1>1, PTL

(* Until a chunk is dropped, nothing is put out twice, out of order or out *)
(* of nothing, whichever message or write was refused.                     *)
THEOREM InOrder == Spec => []InOrderUntilOver
<1>1. ASSUME IInv, ~over, ~behind
      PROVE  LET all == output \o session
             IN /\ \A k \in 1 .. Len(all) : all[k] \in 1 .. received
                /\ \A k \in 1 .. Len(all) - 1 : all[k] < all[k + 1]
  <2> DEFINE all == output \o session
  <2>1. all \in Seq(Bytes) /\ Pending \in Seq(Bytes)
    BY <1>1, WholeTyped DEF IInv, CountInv
  <2>2. Sound(Whole, received)
    BY <1>1 DEF IInv, OrderInv
  <2> HIDE DEF all
  <2>3. Len(all) \in Nat /\ Len(Pending) \in Nat
    BY ONLY <2>1, LenProperties
  <2>4. /\ Len(Whole) = Len(all) + Len(Pending)
        /\ \A i \in 1 .. Len(all) : Whole[i] = all[i]
    <3>1. Whole = all \o Pending
      BY DEF Whole, all
    <3>2. /\ Len(all \o Pending) = Len(all) + Len(Pending)
          /\ \A i \in 1 .. Len(all) + Len(Pending) :
                (all \o Pending)[i] = IF i <= Len(all) THEN all[i] ELSE Pending[i - Len(all)]
      BY ONLY <2>1, ConcatProperties
    <3>3. \A i \in 1 .. Len(all) : i \in 1 .. Len(all) + Len(Pending) /\ i <= Len(all)
      BY ONLY <2>3
    <3> QED BY ONLY <3>1, <3>2, <3>3
  <2>5. \A k \in 1 .. Len(all) : all[k] \in 1 .. received
    BY ONLY <2>2, <2>3, <2>4 DEF Sound
  <2>6. ASSUME NEW k \in 1 .. Len(all) - 1 PROVE all[k] < all[k + 1]
    <3>1. k \in 1 .. Len(Whole) /\ k + 1 \in 1 .. Len(Whole) /\ k < k + 1
      BY ONLY <2>3, <2>4, <2>6
    <3>2. k \in 1 .. Len(all) /\ k + 1 \in 1 .. Len(all)
      BY ONLY <2>3, <2>6
    <3> QED BY ONLY <2>2, <2>4, <3>1, <3>2 DEF Sound
  <2> QED BY <2>5, <2>6 DEF all
<1>2. IInv => InOrderUntilOver
  BY <1>1 DEF InOrderUntilOver
<1> QED BY Invariance, <1>2, PTL

(* Unless the code logs a loss, what is put out, on its way and collected  *)
(* are together exactly the bytes received.                                *)
THEOREM NothingLost == Spec => []NothingLostSilently
<1>1. ASSUME IInv, ~over, ~behind, ~lost
      PROVE  output \o session \o SubSeq(rt_uart_buf, 1, rt_uart_cnt) = [k \in 1 .. received |-> k]
  BY <1>1 DEF IInv, CompleteInv, Whole, Pending
<1>2. IInv => NothingLostSilently
  BY <1>1 DEF NothingLostSilently
<1> QED BY Invariance, <1>2, PTL
===============================================================================
