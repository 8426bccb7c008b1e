------------------------------ MODULE RemoteControlProofs ------------------------------
(***************************************************************************)
(* Proofs about the two state machines of the remote control: RcInput, for *)
(* every set of positions of the sticks, and SearchId, for any number of   *)
(* requests.  They share no state: each has its theorems about its own     *)
(* specification, Spec and SearchSpec.                                     *)
(***************************************************************************)
EXTENDS RcInput, SearchId, TLAPS

(* RcInput: whatever the ADC reads, the limiter keeps the channels in      *)
(* range, after a calibration the sticks are sent at the centre, and the   *)
(* receiver reads out of a packet what was put into it.                    *)

(* After n samples are left of ten, the running average lies at most that  *)
(* much below the samples: each sample halves the distance.                *)
Below(n) == CASE n = 10 -> 1024 [] n = 9 -> 512 [] n = 8 -> 256 [] n = 7 -> 128
              [] n = 6 -> 64 [] n = 5 -> 32 [] n = 4 -> 16 [] n = 3 -> 8
              [] n = 2 -> 4 [] n = 1 -> 2 [] OTHER -> 1

(* The filter is within one of the position it has filtered. *)
Near(value, sample) == value <= sample + 1 /\ sample <= value + 1

(* What ten samples of one position leave: one less, because Average       *)
(* rounds down, or zero.                                                   *)
Calibrated(sample) == IF sample = 0 THEN 500 ELSE 501 - sample

(* What a stick's running average is, with n samples left of position c.   *)
Sampled(o, c, n) == (o < c \/ o = 0) /\ c <= o + Below(n)

Calibrating == kPc \in {"sample", "finish"}

PlaceInv == /\ calibratedAt # Nowhere => calibratedAt \in [Sticks -> 0 .. ADC_MAX]
            /\ kPc \in {"key0", "sample", "finish", "keys", "gears"}
            /\ sPc \in {"filter", "correct", "unlock", "key2", "switches", "send"}

SamplesInv == /\ kPc = "sample" => samples \in 1 .. 10
              /\ kPc = "finish" => samples = 0
              /\ Calibrating => offsetValue \in [Sticks -> 0 .. ADC_MAX]

OffsetInv == calibratedAt # Nowhere =>
    \A k \in Sticks : IF Calibrating THEN Sampled(offsetValue[k], calibratedAt[k], samples)
                       ELSE offsetValue[k] = Calibrated(calibratedAt[k])

SenderInv ==
    /\ sPc = "correct" => /\ filteredAt \in [Sticks -> 0 .. ADC_MAX]
                          /\ \A k \in Sticks : Near(stick[k], filteredAt[k])
    /\ sPc = "unlock" /\ centred => \A k \in Sticks : stick[k] \in 1000 .. 1004
    /\ sPc \in {"key2", "switches", "send"} /\ centred =>
           \A c \in Sticks : channels[c] \in 1000 .. 1004 \/ channels[c] \in {50, 1900}

IInv == TypeOK /\ PlaceInv /\ SamplesInv /\ OffsetInv /\ SenderInv /\ SticksInRange
-------------------------------------------------------------------------------
LEMMA Widths == ADC_MAX = 1023 /\ CHANNEL_MAX = 2047 /\ UINT16_MAX = 65535
  BY DEF ADC_MAX, CHANNEL_MAX, UINT16_MAX

(* One sample halves the distance between the average and the sample.    *)
(* From below, the average comes nearer but never reaches the sample. *)
LEMMA AverageFromBelow ==
    ASSUME NEW a \in Nat, NEW s \in Nat, NEW l \in Nat, a < s \/ a = 0, s <= a + 2 * l
    PROVE  /\ Average(a, s) \in Nat
           /\ Average(a, s) < s \/ Average(a, s) = 0
           /\ s <= Average(a, s) + l
  BY DEF Average

LEMMA BelowHalves == ASSUME NEW n \in 1 .. 10 PROVE Below(n - 1) \in Nat /\ Below(n) = 2 * Below(n - 1)
  BY DEF Below

(* Two samples quarter the distance. *)
LEMMA TwoSamples ==
    ASSUME NEW a \in Nat, NEW s \in Nat, NEW h \in Nat, NEW l \in Nat,
           a <= s + 4 * h + 3, s <= a + 4 * l
    PROVE  LET b == Average(Average(a, s), s)
           IN b \in Nat /\ b <= s + h /\ s <= b + l
<1> DEFINE c == Average(a, s)
<1>1. c \in Nat /\ c <= s + 2 * h + 1 /\ s <= c + 2 * l
  BY DEF Average
<1> HIDE DEF c
<1>2. Average(c, s) \in Nat /\ Average(c, s) <= s + h /\ s <= Average(c, s) + l
  BY <1>1 DEF Average
<1> QED BY <1>2 DEF c

(* Ten samples of one position, from wherever the filter was. *)
LEMMA Average10Near ==
    ASSUME NEW a \in 0 .. CHANNEL_MAX, NEW s \in 0 .. ADC_MAX
    PROVE  Average10(a, s) \in Nat /\ Near(Average10(a, s), s)
<1> DEFINE twice(x) == Average(Average(x, s), s)
           a2 == twice(a)  a4 == twice(a2)  a6 == twice(a4)  a8 == twice(a6)  a10 == twice(a8)
<1>0. a \in Nat /\ s \in Nat /\ a <= s + 4 * 511 + 3 /\ s <= a + 4 * 256
  BY Widths
<1>2. a2 \in Nat /\ a2 <= s + 511 /\ s <= a2 + 256
  BY ONLY <1>0, TwoSamples
<1> HIDE DEF a2
<1>3. a2 <= s + 4 * 127 + 3 /\ s <= a2 + 4 * 64 /\ a2 \in Nat
  BY ONLY <1>0, <1>2
<1>4. a4 \in Nat /\ a4 <= s + 127 /\ s <= a4 + 64
  BY ONLY <1>0, <1>3, TwoSamples
<1> HIDE DEF a4
<1>5. a4 <= s + 4 * 31 + 3 /\ s <= a4 + 4 * 16 /\ a4 \in Nat
  BY ONLY <1>0, <1>4
<1>6. a6 \in Nat /\ a6 <= s + 31 /\ s <= a6 + 16
  BY ONLY <1>0, <1>5, TwoSamples
<1> HIDE DEF a6
<1>7. a6 <= s + 4 * 7 + 3 /\ s <= a6 + 4 * 4 /\ a6 \in Nat
  BY ONLY <1>0, <1>6
<1>8. a8 \in Nat /\ a8 <= s + 7 /\ s <= a8 + 4
  BY ONLY <1>0, <1>7, TwoSamples
<1> HIDE DEF a8
<1>9. a8 <= s + 4 * 1 + 3 /\ s <= a8 + 4 * 1 /\ a8 \in Nat
  BY ONLY <1>0, <1>8
<1>10. a10 \in Nat /\ a10 <= s + 1 /\ s <= a10 + 1
  BY ONLY <1>0, <1>9, TwoSamples
<1>11. a10 = Average10(a, s)
  BY DEF Average10, a8, a6, a4, a2
<1> HIDE DEF a10
<1> QED BY <1>10, <1>11 DEF Near

(* The sum of stick and calibration, cut to sixteen bits and limited. *)
LEMMA Limiting ==
    ASSUME NEW x \in Int, x >= -2000, x <= 2047
    PROVE  /\ switch_limiting((2 * x) % 65536) \in 0 .. CHANNEL_MAX
           /\ x >= 500 /\ x <= 502 => switch_limiting((2 * x) % 65536) \in 1000 .. 1004
<1> DEFINE y == 2 * x
<1>1. CASE x >= 0
  <2>1. y % 65536 = y
    BY <1>1, SMTT(30)
  <2> QED BY <1>1, <2>1, Widths DEF switch_limiting
<1>2. CASE ~(x >= 0)
  <2>1. y \in Int /\ y >= -4000 /\ y < 0
    BY <1>2
  <2> HIDE DEF y
  <2>2. y % 65536 = y + 65536
    BY <2>1, SMTT(30)
  <2>3. y % 65536 \in Int /\ y % 65536 > 60000
    BY <2>1, <2>2
  <2>4. \A z \in Int : z > 60000 => switch_limiting(z) \in {0, 2047}
    BY DEF switch_limiting
  <2>5. switch_limiting(y % 65536) \in 0 .. CHANNEL_MAX
    BY ONLY <2>3, <2>4, Widths
  <2> QED BY <1>2, <2>5 DEF y
<1> QED BY <1>1, <1>2

(* The filter's value stays in a channel's bits, and so does its sum with  *)
(* any correction; with the one calibrated at its place, it is at 500.     *)
LEMMA FilteredInRange ==
    ASSUME NEW v \in Nat, NEW s \in 0 .. ADC_MAX, Near(v, s) PROVE v \in 0 .. CHANNEL_MAX
  BY Widths DEF Near

LEMMA CorrectedSum ==
    ASSUME NEW v \in 0 .. CHANNEL_MAX, NEW s \in 0 .. ADC_MAX, NEW o \in Offsets, Near(v, s)
    PROVE  /\ v + o \in Int /\ v + o >= -2000 /\ v + o <= 2047
           /\ o = Calibrated(s) => v + o >= 500 /\ v + o <= 502
  BY Widths DEF Near, Offsets, Calibrated

(* The calibration of one stick: the first of ten samples, the next ones,  *)
(* and what is made of the average after the last one. *)
LEMMA FirstSample == ASSUME NEW c \in 0 .. ADC_MAX PROVE Sampled(0, c, 10)
  BY Widths DEF Sampled, Below

LEMMA NextSample ==
    ASSUME NEW o \in 0 .. ADC_MAX, NEW c \in 0 .. ADC_MAX, NEW n \in 1 .. 10
    PROVE  /\ Average(o, c) \in 0 .. ADC_MAX
           /\ Sampled(o, c, n) => Sampled(Average(o, c), c, n - 1)
<1>1. Average(o, c) \in 0 .. ADC_MAX
  BY Widths DEF Average
<1>2. ASSUME Sampled(o, c, n) PROVE Sampled(Average(o, c), c, n - 1)
  <2>1. Below(n - 1) \in Nat /\ Below(n) = 2 * Below(n - 1)
    BY BelowHalves
  <2>2. o \in Nat /\ c \in Nat /\ (o < c \/ o = 0) /\ c <= o + 2 * Below(n - 1)
    BY <1>2, <2>1, Widths DEF Sampled
  <2> QED BY <2>1, <2>2, AverageFromBelow DEF Sampled
<1> QED BY <1>1, <1>2

LEMMA LastSample ==
    ASSUME NEW o \in 0 .. ADC_MAX, NEW c \in 0 .. ADC_MAX, Sampled(o, c, 0)
    PROVE  500 - o = Calibrated(c)
<1>1. Below(0) = 1
  BY DEF Below
<1> QED BY <1>1, Widths DEF Sampled, Calibrated
-------------------------------------------------------------------------------
(* The sender leaves the keys and the calibration alone. *)
LEMMA SenderFrame ==
    ASSUME Move \/ Usr_Usb_Debug \/ UNCHANGED vars
    PROVE  UNCHANGED <<keyVars, calibratedAt>>
<1>1. CASE FilterSticks
  BY <1>1 DEF FilterSticks
<1>2. CASE CorrectSticks
  BY <1>2 DEF CorrectSticks
<1>3. CASE Unlock
  BY <1>3 DEF Unlock
<1>4. CASE Key2
  BY <1>4 DEF Key2
<1>5. ASSUME NEW level \in GearLevels, Switches(level) PROVE UNCHANGED <<keyVars, calibratedAt>>
  BY <1>5 DEF Switches
<1>6. CASE Transmit
  BY <1>6 DEF Transmit
<1>7. CASE Move
  BY <1>7 DEF Move
<1>8. CASE UNCHANGED vars
  BY <1>8 DEF vars
<1> QED BY <1>1, <1>2, <1>3, <1>4, <1>5, <1>6, <1>7, <1>8 DEF Usr_Usb_Debug

(* The places of both tasks, and where a calibration was done. *)
LEMMA PlaceInductive == ASSUME TypeOK, PlaceInv, [Next]_vars PROVE PlaceInv'
<1> USE DEF PlaceInv
<1>1. ASSUME NEW down \in BOOLEAN, PollKey0(down) PROVE PlaceInv'
  <2>1. sPc' = sPc
    BY <1>1 DEF PollKey0, senderVars
  <2>2. CASE down
    <3>1. kPc' = "sample" /\ calibratedAt' = position
      BY <1>1, <2>2 DEF PollKey0
    <3>2. position \in [Sticks -> 0 .. ADC_MAX]
      BY ONLY TypeOK DEF TypeOK
    <3> QED BY ONLY PlaceInv, <2>1, <3>1, <3>2 DEF PlaceInv
  <2>3. CASE ~down
    BY <1>1, <2>1, <2>3 DEF PollKey0
  <2> QED BY <2>2, <2>3
<1>2. CASE SampleOffset
  BY <1>2 DEF SampleOffset, senderVars
<1>3. CASE FinishOffset
  BY <1>3 DEF FinishOffset, senderVars
<1>4. ASSUME NEW down \in PressedKeys, PollKeys(down) PROVE PlaceInv'
  BY <1>4 DEF PollKeys, senderVars
<1>5. CASE PollGears
  BY <1>5 DEF PollGears, senderVars
<1>6. CASE Move \/ UNCHANGED vars
  BY <1>6 DEF Move, vars, keyVars, senderVars
<1>7. CASE Usr_Usb_Debug
  <2>1. UNCHANGED <<kPc, calibratedAt>>
    BY <1>7, SenderFrame DEF keyVars
  <2>2. sPc' \in {"filter", "correct", "unlock", "key2", "switches", "send"}
    <3> HIDE DEF PlaceInv
    <3>1. ASSUME NEW level \in GearLevels, Switches(level) PROVE sPc' = "send"
      BY ONLY <3>1 DEF Switches
    <3>2. FilterSticks => sPc' = "correct"
      BY ONLY DEF FilterSticks
    <3>3. CorrectSticks => sPc' = "unlock"
      BY ONLY DEF CorrectSticks
    <3>4. Unlock => sPc' = "key2"
      BY ONLY DEF Unlock
    <3>5. Key2 => sPc' = "switches"
      BY ONLY DEF Key2
    <3>6. Transmit => sPc' = "filter"
      BY ONLY DEF Transmit
    <3> QED BY ONLY <1>7, <3>1, <3>2, <3>3, <3>4, <3>5, <3>6 DEF Usr_Usb_Debug
  <2> QED BY <2>1, <2>2
<1> QED BY <1>1, <1>2, <1>3, <1>4, <1>5, <1>6, <1>7 DEF Next, Key_Debug

(* The calibration: from ten samples of the position it started at, the    *)
(* average comes to one below it. *)
LEMMA KeyInductive ==
    ASSUME TypeOK, PlaceInv, SamplesInv, OffsetInv, [Next]_vars
    PROVE  SamplesInv' /\ OffsetInv'
<1>1. ASSUME NEW down \in BOOLEAN, PollKey0(down) PROVE SamplesInv' /\ OffsetInv'
  <2>1. CASE down
    <3>1. /\ kPc' = "sample" /\ samples' = 10
          /\ offsetValue' = [k \in Sticks |-> 0] /\ calibratedAt' = position
      BY <1>1, <2>1 DEF PollKey0
    <3>2. position \in [Sticks -> 0 .. ADC_MAX]
      BY DEF TypeOK
    <3>0. 0 \in 0 .. ADC_MAX
      BY Widths
    <3>3. \A k \in Sticks : Sampled(offsetValue'[k], calibratedAt'[k], samples')
      BY ONLY <3>1, <3>2, FirstSample
    <3>4. offsetValue' \in [Sticks -> 0 .. ADC_MAX]
      BY ONLY <3>1, <3>0
    <3>5. SamplesInv'
      BY ONLY <3>1, <3>4 DEF SamplesInv
    <3>6. OffsetInv'
      BY ONLY <3>1, <3>3 DEF OffsetInv, Calibrating
    <3> QED BY <3>5, <3>6
  <2>2. CASE ~down
    <3>1. kPc = "key0" /\ kPc' = "keys" /\ UNCHANGED <<offsetValue, samples, calibratedAt>>
      BY <1>1, <2>2 DEF PollKey0
    <3> QED BY <3>1 DEF SamplesInv, OffsetInv, Calibrating
  <2> QED BY <2>1, <2>2
<1>2. CASE SampleOffset
  <2>1. /\ kPc = "sample" /\ samples' = samples - 1
        /\ offsetValue' = [k \in Sticks |-> Average(offsetValue[k], position[k])]
        /\ calibratedAt' = IF calibratedAt = position THEN calibratedAt ELSE Nowhere
        /\ kPc' = IF samples' = 0 THEN "finish" ELSE "sample"
    BY <1>2 DEF SampleOffset
  <2>0. position \in [Sticks -> 0 .. ADC_MAX]
    BY DEF TypeOK
  <2>00. offsetValue \in [Sticks -> 0 .. ADC_MAX] /\ samples \in 1 .. 10
    BY ONLY <2>1, SamplesInv DEF SamplesInv, Calibrating
  <2>2. /\ position \in [Sticks -> 0 .. ADC_MAX] /\ offsetValue \in [Sticks -> 0 .. ADC_MAX]
        /\ samples \in 1 .. 10
    BY ONLY <2>0, <2>00
  <2>3. offsetValue' \in [Sticks -> 0 .. ADC_MAX]
    BY ONLY <2>1, <2>2, NextSample
  <2>4. SamplesInv'
    BY ONLY <2>1, <2>2, <2>3 DEF SamplesInv
  <2>5. ASSUME calibratedAt' # Nowhere, NEW k \in Sticks
        PROVE  Sampled(offsetValue'[k], calibratedAt'[k], samples')
    <3>1. calibratedAt = position /\ calibratedAt' = position /\ calibratedAt # Nowhere
      BY ONLY <2>1, <2>5
    <3>2. Sampled(offsetValue[k], position[k], samples)
      BY <2>1, <3>1 DEF OffsetInv, Calibrating
    <3>3. /\ position[k] \in 0 .. ADC_MAX /\ offsetValue[k] \in 0 .. ADC_MAX
          /\ offsetValue'[k] = Average(offsetValue[k], position[k])
      BY <2>1, <2>2
    <3>4. Sampled(Average(offsetValue[k], position[k]), position[k], samples - 1)
      BY ONLY <2>2, <3>2, <3>3, NextSample
    <3> QED BY ONLY <2>1, <3>1, <3>3, <3>4
  <2>6. kPc' \in {"sample", "finish"}
    BY ONLY <2>1
  <2>7. OffsetInv'
    BY <2>5, <2>6 DEF OffsetInv, Calibrating
  <2> QED BY <2>4, <2>7
<1>3. CASE FinishOffset
  <2>1. /\ kPc = "finish" /\ kPc' = "keys" /\ calibratedAt' = calibratedAt
        /\ offsetValue' = [k \in Sticks |-> 500 - offsetValue[k]]
    BY <1>3 DEF FinishOffset
  <2>2. SamplesInv'
    BY ONLY <2>1 DEF SamplesInv, Calibrating
  <2>3. ASSUME calibratedAt # Nowhere, NEW k \in Sticks
        PROVE  offsetValue'[k] = Calibrated(calibratedAt[k])
    <3>1. calibratedAt[k] \in 0 .. ADC_MAX /\ offsetValue[k] \in 0 .. ADC_MAX
      BY <2>1, <2>3 DEF PlaceInv, SamplesInv, Calibrating
    <3>2. Sampled(offsetValue[k], calibratedAt[k], 0)
      BY <2>1, <2>3 DEF OffsetInv, SamplesInv, Calibrating
    <3>3. 500 - offsetValue[k] = Calibrated(calibratedAt[k])
      BY ONLY <3>1, <3>2, LastSample
    <3> QED BY <2>1, <3>3
  <2>4. OffsetInv'
    BY <2>1, <2>3 DEF OffsetInv, Calibrating
  <2> QED BY <2>2, <2>4
<1>4. ASSUME UNCHANGED <<samples, offsetValue, calibratedAt>>, ~Calibrating, ~Calibrating'
      PROVE  SamplesInv' /\ OffsetInv'
  BY <1>4 DEF SamplesInv, OffsetInv, Calibrating
<1>5. ASSUME NEW down \in PressedKeys, PollKeys(down) PROVE SamplesInv' /\ OffsetInv'
  BY <1>4, <1>5 DEF PollKeys, Calibrating
<1>6. CASE PollGears
  BY <1>4, <1>6 DEF PollGears, Calibrating
<1>7. ASSUME UNCHANGED <<keyVars, calibratedAt>> PROVE SamplesInv' /\ OffsetInv'
  BY <1>7 DEF keyVars, SamplesInv, OffsetInv, Calibrating
<1> QED BY <1>1, <1>2, <1>3, <1>5, <1>6, <1>7, SenderFrame DEF Next, Key_Debug
-------------------------------------------------------------------------------
(* A step of Key_Debug keeps the types; the sender's state is not its own. *)
LEMMA KeyTyped == ASSUME TypeOK, SamplesInv, Move \/ Key_Debug PROVE TypeOK' /\ UNCHANGED <<senderVars, filteredAt, centred>>
<1>1. ASSUME NEW down \in BOOLEAN, PollKey0(down)
      PROVE  /\ UNCHANGED <<position, isPressed, pressedCnt, senderVars, filteredAt, centred>>
             /\ offsetValue' = offsetValue \/ offsetValue' = [k \in Sticks |-> 0]
  BY ONLY <1>1 DEF PollKey0
<1>2. CASE SampleOffset
  <2>1. /\ UNCHANGED <<position, isPressed, pressedCnt, senderVars, filteredAt, centred>>
        /\ kPc = "sample" /\ offsetValue' = [k \in Sticks |-> Average(offsetValue[k], position[k])]
    BY ONLY <1>2 DEF SampleOffset
  <2>2. offsetValue \in [Sticks -> 0 .. ADC_MAX]
    BY ONLY <2>1, SamplesInv DEF SamplesInv, Calibrating
  <2>3. position \in [Sticks -> 0 .. ADC_MAX]
    BY ONLY TypeOK DEF TypeOK
  <2>4. \A a, b \in 0 .. ADC_MAX : Average(a, b) \in Offsets
    BY Widths DEF Average, Offsets
  <2>5. offsetValue' \in [Sticks -> Offsets]
    BY ONLY <2>1, <2>2, <2>3, <2>4
  <2> QED BY ONLY TypeOK, <2>1, <2>5 DEF TypeOK, senderVars
<1>3. CASE FinishOffset
  <2>1. /\ UNCHANGED <<position, isPressed, pressedCnt, senderVars, filteredAt, centred>>
        /\ kPc = "finish" /\ offsetValue' = [k \in Sticks |-> 500 - offsetValue[k]]
    BY ONLY <1>3 DEF FinishOffset
  <2>2. offsetValue \in [Sticks -> 0 .. ADC_MAX]
    BY ONLY <2>1, SamplesInv DEF SamplesInv, Calibrating
  <2>3. \A a \in 0 .. ADC_MAX : 500 - a \in Offsets
    BY Widths DEF Offsets
  <2>4. offsetValue' \in [Sticks -> Offsets]
    BY ONLY <2>1, <2>2, <2>3
  <2> QED BY ONLY TypeOK, <2>1, <2>4 DEF TypeOK, senderVars
<1>4. ASSUME NEW down \in PressedKeys, PollKeys(down) PROVE TypeOK' /\ UNCHANGED <<senderVars, filteredAt, centred>>
  <2>1. /\ UNCHANGED <<position, offsetValue, senderVars, filteredAt, centred>>
        /\ pressedCnt' = [i \in Keys |->
               IF i \in down /\ ~isPressed[i] THEN (pressedCnt[i] + 1) % 256 ELSE pressedCnt[i]]
        /\ isPressed' = [i \in Keys |-> i \in down]
    BY ONLY <1>4 DEF PollKeys
  <2>2. isPressed' \in [Keys -> BOOLEAN]
    BY ONLY <2>1
  <2>3. pressedCnt \in [Keys -> 0 .. 255]
    BY ONLY TypeOK DEF TypeOK
  <2>4. \A n \in 0 .. 255 : (n + 1) % 256 \in 0 .. 255
    BY SMTT(30)
  <2>5. pressedCnt' \in [Keys -> 0 .. 255]
    BY ONLY <2>1, <2>3, <2>4
  <2> QED BY ONLY TypeOK, <2>1, <2>2, <2>5 DEF TypeOK, senderVars
<1>5. CASE PollGears
  <2>1. UNCHANGED <<position, offsetValue, isPressed, pressedCnt, senderVars, filteredAt, centred>>
    BY ONLY <1>5 DEF PollGears
  <2> QED BY ONLY TypeOK, <2>1 DEF TypeOK, senderVars
<1>6. CASE Move
  <2>1. UNCHANGED <<keyVars, senderVars, filteredAt, centred>> /\ position' \in Positions
    BY ONLY <1>6 DEF Move
  <2>2. position' \in [Sticks -> 0 .. ADC_MAX]
    BY ONLY <2>1, InputAssumption DEF InputAssumption
  <2> QED BY ONLY TypeOK, <2>1, <2>2 DEF TypeOK, keyVars, senderVars
<1>7. ASSUME NEW down \in BOOLEAN, PollKey0(down) PROVE TypeOK' /\ UNCHANGED <<senderVars, filteredAt, centred>>
  <2>1. 0 \in Offsets
    BY Widths DEF Offsets
  <2>2. [k \in Sticks |-> 0] \in [Sticks -> Offsets]
    BY ONLY <2>1
  <2>3. offsetValue' \in [Sticks -> Offsets]
    BY ONLY <1>1, <1>7, <2>2, TypeOK DEF TypeOK
  <2> QED BY ONLY TypeOK, <1>1, <1>7, <2>3 DEF TypeOK, senderVars
<1> QED BY ONLY Move \/ Key_Debug, <1>2, <1>3, <1>4, <1>5, <1>6, <1>7 DEF Key_Debug

(* What the sender keeps of a stick is in range and, after a calibration   *)
(* at the same place, at the centre. *)
LEMMA SenderInductive ==
    ASSUME TypeOK, PlaceInv, OffsetInv, SenderInv, SticksInRange, Usr_Usb_Debug
    PROVE  TypeOK' /\ SenderInv' /\ SticksInRange'
<1>0. /\ position \in [Sticks -> 0 .. ADC_MAX] /\ offsetValue \in [Sticks -> Offsets]
      /\ stick \in [Sticks -> 0 .. CHANNEL_MAX] /\ channels \in [0 .. 15 -> 0 .. UINT16_MAX]
  BY ONLY TypeOK DEF TypeOK
<1>1. CASE FilterSticks
  <2>1. /\ UNCHANGED <<position, keyVars, channels>>
        /\ stick' = [k \in Sticks |-> Average10(stick[k], position[k])]
        /\ filteredAt' = position /\ sPc' = "correct"
    BY ONLY <1>1 DEF FilterSticks
  <2>2. \A k \in Sticks : stick'[k] \in 0 .. CHANNEL_MAX /\ Near(stick'[k], position[k])
    <3> TAKE k \in Sticks
    <3>1. stick[k] \in 0 .. CHANNEL_MAX /\ position[k] \in 0 .. ADC_MAX /\ stick'[k] = Average10(stick[k], position[k])
      BY ONLY <1>0, <2>1
    <3>2. stick'[k] \in Nat /\ Near(stick'[k], position[k])
      BY ONLY <3>1, Average10Near
    <3> QED BY ONLY <3>1, <3>2, FilteredInRange
  <2>3. stick' \in [Sticks -> 0 .. CHANNEL_MAX]
    BY ONLY <2>1, <2>2
  <2>4. TypeOK'
    BY ONLY TypeOK, <2>1, <2>3 DEF TypeOK, keyVars
  <2>5. SenderInv'
    BY ONLY <1>0, <2>1, <2>2 DEF SenderInv
  <2> QED BY ONLY <2>1, <2>4, <2>5, SticksInRange DEF SticksInRange
<1>2. CASE CorrectSticks
  <2>1. /\ UNCHANGED <<position, keyVars, channels>> /\ sPc = "correct" /\ sPc' = "unlock"
        /\ stick' = [k \in Sticks |-> switch_limiting((2 * (stick[k] + offsetValue[k])) % 65536)]
    BY ONLY <1>2 DEF CorrectSticks
  <2>2. centred' => kPc \notin {"sample", "finish"} /\ calibratedAt # Nowhere /\ filteredAt = calibratedAt
    <3>1. centred' = (kPc \notin {"sample", "finish"} /\ calibratedAt # Nowhere /\ filteredAt = calibratedAt)
      BY ONLY <1>2 DEF CorrectSticks
    <3> QED BY ONLY <3>1, Zenon
  <2>3. /\ filteredAt \in [Sticks -> 0 .. ADC_MAX]
        /\ \A k \in Sticks : Near(stick[k], filteredAt[k])
    BY ONLY <2>1, SenderInv DEF SenderInv
  <2>4. ASSUME NEW k \in Sticks
        PROVE  /\ stick'[k] \in 0 .. CHANNEL_MAX
               /\ centred' => stick'[k] \in 1000 .. 1004
    <3> DEFINE x == stick[k] + offsetValue[k]
    <3>1. stick'[k] = switch_limiting((2 * x) % 65536)
      BY ONLY <2>1
    <3>2. /\ stick[k] \in 0 .. CHANNEL_MAX /\ filteredAt[k] \in 0 .. ADC_MAX /\ offsetValue[k] \in Offsets
          /\ Near(stick[k], filteredAt[k])
      BY ONLY <1>0, <2>3
    <3>3. x \in Int /\ x >= -2000 /\ x <= 2047
      BY ONLY <3>2, CorrectedSum
    <3>4. ASSUME centred' PROVE x >= 500 /\ x <= 502
      <4>1. offsetValue[k] = Calibrated(filteredAt[k])
        BY ONLY <2>2, <3>4, OffsetInv DEF OffsetInv, Calibrating
      <4> QED BY ONLY <3>2, <4>1, CorrectedSum
    <3> HIDE DEF x
    <3>5. /\ switch_limiting((2 * x) % 65536) \in 0 .. CHANNEL_MAX
          /\ x >= 500 /\ x <= 502 => switch_limiting((2 * x) % 65536) \in 1000 .. 1004
      BY ONLY <3>3, Limiting
    <3> QED BY ONLY <3>1, <3>4, <3>5
  <2>41. \A k \in Sticks : stick'[k] \in 0 .. CHANNEL_MAX
    BY ONLY <2>4
  <2>5. stick' \in [Sticks -> 0 .. CHANNEL_MAX]
    BY ONLY <2>1, <2>41
  <2>6. TypeOK'
    BY ONLY TypeOK, <2>1, <2>5 DEF TypeOK, keyVars
  <2>42. sPc' = "unlock"
    BY ONLY <2>1
  <2>7. SenderInv'
    <3>1. centred' => \A k \in Sticks : stick'[k] \in 1000 .. 1004
      BY ONLY <2>4
    <3> QED BY ONLY <2>42, <3>1 DEF SenderInv
  <2> QED BY ONLY <2>1, <2>6, <2>7, SticksInRange DEF SticksInRange
<1>3. CASE Unlock
  <2>1. /\ UNCHANGED <<position, keyVars, stick>> /\ sPc = "unlock" /\ sPc' = "key2"
        /\ channels' = [c \in 0 .. 15 |->
               IF c \notin Sticks THEN channels[c]
               ELSE IF ~isPressed[1] THEN stick[c]
               ELSE IF c = 2 THEN 50 ELSE 1900]
    BY ONLY <1>3 DEF Unlock
  <2>0. centred' = centred
    BY ONLY <1>3 DEF Unlock
  <2>00. centred' => centred
    BY ONLY <2>0, Zenon
  <2>2. \A c \in Sticks : c \in 0 .. 15 /\ (channels'[c] = stick[c] \/ channels'[c] \in {50, 1900})
    BY ONLY <2>1 DEF Sticks
  <2>3. \A c \in (0 .. 15) \ Sticks : channels'[c] = channels[c]
    BY ONLY <2>1 DEF Sticks
  <2>40. 50 \in 0 .. CHANNEL_MAX /\ 1900 \in 0 .. CHANNEL_MAX
    BY ONLY Widths
  <2>41. \A x \in 0 .. CHANNEL_MAX : x \in 0 .. UINT16_MAX
    BY ONLY Widths, SMTT(20)
  <2>4. /\ 50 \in 0 .. CHANNEL_MAX /\ 1900 \in 0 .. CHANNEL_MAX
        /\ \A x \in 0 .. CHANNEL_MAX : x \in 0 .. UINT16_MAX
    BY ONLY <2>40, <2>41
  <2>5. SticksInRange'
    BY ONLY <1>0, <2>2, <2>4 DEF SticksInRange
  <2>6. channels' \in [0 .. 15 -> 0 .. UINT16_MAX]
    <3>1. \A c \in 0 .. 15 : channels'[c] \in 0 .. UINT16_MAX
      BY ONLY <1>0, <2>3, <2>4, <2>5 DEF SticksInRange
    <3> QED BY ONLY <2>1, <3>1
  <2>7. TypeOK'
    BY ONLY TypeOK, <2>1, <2>6 DEF TypeOK, keyVars
  <2>8. centred => \A k \in Sticks : stick[k] \in 1000 .. 1004
    BY ONLY <2>1, SenderInv DEF SenderInv
  <2>9. SenderInv'
    <3>1. sPc' = "key2"
      BY ONLY <2>1
    <3>2. centred' => \A c \in Sticks : channels'[c] \in 1000 .. 1004 \/ channels'[c] \in {50, 1900}
      BY ONLY <2>00, <2>2, <2>8
    <3> QED BY ONLY <3>1, <3>2 DEF SenderInv
  <2> QED BY ONLY <2>5, <2>7, <2>9
<1>4. CASE Key2
  <2>1. /\ UNCHANGED <<position, keyVars, stick>> /\ sPc = "key2" /\ sPc' = "switches"
        /\ channels' = IF isPressed[2] THEN [channels EXCEPT ![0] = 50, ![1] = 1900] ELSE channels
    BY ONLY <1>4 DEF Key2
  <2>0. centred' = centred
    BY ONLY <1>4 DEF Key2
  <2>00. centred' => centred
    BY ONLY <2>0, Zenon
  <2>2. \A c \in 0 .. 15 : channels'[c] = channels[c] \/ channels'[c] \in {50, 1900}
    <3>1. CASE isPressed[2]
      BY ONLY <1>0, <2>1, <3>1
    <3>2. CASE ~isPressed[2]
      BY ONLY <2>1, <3>2
    <3> QED BY ONLY <3>1, <3>2
  <2>3. 50 \in 0 .. CHANNEL_MAX /\ 1900 \in 0 .. CHANNEL_MAX /\ 50 \in 0 .. UINT16_MAX /\ 1900 \in 0 .. UINT16_MAX
    BY Widths
  <2>4. Sticks \subseteq 0 .. 15
    BY DEF Sticks
  <2>5. channels' \in [0 .. 15 -> 0 .. UINT16_MAX]
    <3>1. CASE isPressed[2]
      BY ONLY <1>0, <2>1, <2>3, <3>1
    <3>2. CASE ~isPressed[2]
      BY ONLY <1>0, <2>1, <3>2
    <3> QED BY ONLY <3>1, <3>2
  <2>6. TypeOK'
    BY ONLY TypeOK, <2>1, <2>5 DEF TypeOK, keyVars
  <2>7. SticksInRange'
    BY ONLY <2>2, <2>3, <2>4, SticksInRange DEF SticksInRange
  <2>8. SenderInv'
    <3>1. sPc' = "switches" /\ sPc = "key2"
      BY ONLY <2>1
    <3>2. centred => \A c \in Sticks : channels[c] \in 1000 .. 1004 \/ channels[c] \in {50, 1900}
      BY ONLY <3>1, SenderInv DEF SenderInv
    <3>3. centred' => \A c \in Sticks : channels'[c] \in 1000 .. 1004 \/ channels'[c] \in {50, 1900}
      BY ONLY <2>00, <2>2, <2>4, <3>2
    <3> QED BY ONLY <3>1, <3>3 DEF SenderInv
  <2> QED BY ONLY <2>6, <2>7, <2>8
<1>5. ASSUME NEW level \in GearLevels, Switches(level) PROVE TypeOK' /\ SenderInv' /\ SticksInRange'
  <2>1. /\ UNCHANGED <<position, keyVars, stick>> /\ sPc = "switches" /\ sPc' = "send"
        /\ channels' = [c \in 0 .. 15 |->
               CASE c \in Sticks -> channels[c]
                 [] c \in 4 .. 7 -> IF gearSwitchValue[c - 4] # 0 THEN 1900 ELSE 50
                 [] c = 8 -> IF pressedCnt[3] % 2 = 0 THEN 1900 ELSE 50
                 [] c = 9 -> GearChannel(level.left)
                 [] c = 10 -> GearChannel(level.right)
                 [] c = 11 -> GearChannel(level.mid)
                 [] OTHER -> 65535]
    BY ONLY <1>5 DEF Switches
  <2>0. centred' = centred
    BY ONLY <1>5 DEF Switches
  <2>00. centred' => centred
    BY ONLY <2>0, Zenon
  <2>2. \A c \in Sticks : c \in 0 .. 15 /\ channels'[c] = channels[c]
    BY ONLY <2>1 DEF Sticks
  <2>3. \A l : GearChannel(l) \in {50, 1024, 1900}
    BY ONLY DEF GearChannel
  <2>4. \A c \in (0 .. 15) \ Sticks : channels'[c] \in {50, 1024, 1900, 65535}
    BY ONLY <2>1, <2>3
  <2>5. {50, 1024, 1900, 65535} \subseteq 0 .. UINT16_MAX
    BY Widths
  <2>6. \A c \in 0 .. 15 : channels'[c] \in 0 .. UINT16_MAX
    BY ONLY <1>0, <2>2, <2>4, <2>5
  <2>7. channels' \in [0 .. 15 -> 0 .. UINT16_MAX]
    BY ONLY <2>1, <2>6
  <2>8. TypeOK'
    BY ONLY TypeOK, <2>1, <2>7 DEF TypeOK, keyVars
  <2>9. SticksInRange'
    BY ONLY <2>2, SticksInRange DEF SticksInRange
  <2>10. SenderInv'
    <3>1. sPc' = "send" /\ sPc = "switches"
      BY ONLY <2>1
    <3>2. centred => \A c \in Sticks : channels[c] \in 1000 .. 1004 \/ channels[c] \in {50, 1900}
      BY ONLY <3>1, SenderInv DEF SenderInv
    <3>3. centred' => \A c \in Sticks : channels'[c] \in 1000 .. 1004 \/ channels'[c] \in {50, 1900}
      BY ONLY <2>00, <2>2, <3>2
    <3> QED BY ONLY <3>1, <3>3 DEF SenderInv
  <2> QED BY ONLY <2>8, <2>9, <2>10
<1>6. CASE Transmit
  <2>1. /\ UNCHANGED <<position, keyVars, stick, channels>> /\ sPc' = "filter"
    BY ONLY <1>6 DEF Transmit
  <2> QED BY ONLY <2>1, TypeOK, SticksInRange DEF TypeOK, keyVars, SticksInRange, SenderInv
<1> QED BY ONLY Usr_Usb_Debug, <1>1, <1>2, <1>3, <1>4, <1>5, <1>6 DEF Usr_Usb_Debug
-------------------------------------------------------------------------------
(* v fits into the bits below n. *)
Fits(v, n) == v \in Nat /\ v < n

(* What a receiver reads at each of the eight places where a channel can   *)
(* begin in a byte: x is the channel, a the bits of the channel before it, *)
(* y the channel after it, and z a byte with none of its bits.             *)
LEMMA WindowAt0 ==
    ASSUME NEW x, NEW y, NEW z, Fits(x, 2048), Fits(y, 2048), Fits(z, 256)
    PROVE  Window(x % 256, (x \div 256 + y * 8) % 256, z, 1) = x
<1> USE DEF Fits
<1> DEFINE h == x \div 256  l == x % 256  u == y % 32  v == y \div 32
<1>1. x = 256 * h + l /\ h \in 0 .. 7 /\ l \in 0 .. 255
  OBVIOUS
<1>2. y = 32 * v + u /\ v \in Nat /\ u \in 0 .. 31
  OBVIOUS
<1> HIDE DEF h, l, u, v
<1>3. x % 256 = l
  BY <1>1
<1>4. (h + y * 8) % 256 = h + 8 * u
  BY <1>1, <1>2
<1>5. (l + 256 * (h + 8 * u) + 65536 * z) \div 1 = 256 * h + l + 2048 * (u + 32 * z)
  BY <1>1, <1>2
<1>6. Window(l, h + 8 * u, z, 1) = (256 * h + l + 2048 * (u + 32 * z)) % 2048
  BY ONLY <1>5 DEF Window
<1>7. @ = x
  BY <1>1, <1>2
<1> QED BY <1>3, <1>4, <1>6, <1>7 DEF h

LEMMA WindowAt1 ==
    ASSUME NEW x, NEW y, NEW a, NEW z, Fits(x, 2048), Fits(y, 2048), Fits(a, 2), Fits(z, 256)
    PROVE  Window((a + x * 2) % 256, (x \div 128 + y * 16) % 256, z, 2) = x
<1> USE DEF Fits
<1> DEFINE h == x \div 128  l == x % 128  u == y % 16  v == y \div 16
<1>1. x = 128 * h + l /\ h \in 0 .. 15 /\ l \in 0 .. 127
  OBVIOUS
<1>2. y = 16 * v + u /\ v \in Nat /\ u \in 0 .. 15
  OBVIOUS
<1> HIDE DEF h, l, u, v
<1>3. (a + x * 2) % 256 = a + 2 * l
  BY <1>1
<1>4. (h + y * 16) % 256 = h + 16 * u
  BY <1>1, <1>2
<1>5. (a + 2 * l + 256 * (h + 16 * u) + 65536 * z) \div 2 = 128 * h + l + 2048 * (u + 16 * z)
  BY <1>1, <1>2
<1>6. Window(a + 2 * l, h + 16 * u, z, 2) = (128 * h + l + 2048 * (u + 16 * z)) % 2048
  BY ONLY <1>5 DEF Window
<1>7. @ = x
  BY <1>1, <1>2
<1> QED BY <1>3, <1>4, <1>6, <1>7 DEF h

LEMMA WindowAt2 ==
    ASSUME NEW x, NEW y, NEW a, NEW z, Fits(x, 2048), Fits(y, 2048), Fits(a, 4), Fits(z, 256)
    PROVE  Window((a + x * 4) % 256, (x \div 64 + y * 32) % 256, z, 4) = x
<1> USE DEF Fits
<1> DEFINE h == x \div 64  l == x % 64  u == y % 8  v == y \div 8
<1>1. x = 64 * h + l /\ h \in 0 .. 31 /\ l \in 0 .. 63
  OBVIOUS
<1>2. y = 8 * v + u /\ v \in Nat /\ u \in 0 .. 7
  OBVIOUS
<1> HIDE DEF h, l, u, v
<1>3. (a + x * 4) % 256 = a + 4 * l
  BY <1>1
<1>4. (h + y * 32) % 256 = h + 32 * u
  BY <1>1, <1>2
<1>5. (a + 4 * l + 256 * (h + 32 * u) + 65536 * z) \div 4 = 64 * h + l + 2048 * (u + 8 * z)
  BY <1>1, <1>2
<1>6. Window(a + 4 * l, h + 32 * u, z, 4) = (64 * h + l + 2048 * (u + 8 * z)) % 2048
  BY ONLY <1>5 DEF Window
<1>7. @ = x
  BY <1>1, <1>2
<1> QED BY <1>3, <1>4, <1>6, <1>7 DEF h

LEMMA WindowAt3 ==
    ASSUME NEW x, NEW y, NEW a, NEW z, Fits(x, 2048), Fits(y, 2048), Fits(a, 8), Fits(z, 256)
    PROVE  Window((a + x * 8) % 256, (x \div 32 + y * 64) % 256, z, 8) = x
<1> USE DEF Fits
<1> DEFINE h == x \div 32  l == x % 32  u == y % 4  v == y \div 4
<1>1. x = 32 * h + l /\ h \in 0 .. 63 /\ l \in 0 .. 31
  OBVIOUS
<1>2. y = 4 * v + u /\ v \in Nat /\ u \in 0 .. 3
  OBVIOUS
<1> HIDE DEF h, l, u, v
<1>3. (a + x * 8) % 256 = a + 8 * l
  BY <1>1
<1>4. (h + y * 64) % 256 = h + 64 * u
  BY <1>1, <1>2
<1>5. (a + 8 * l + 256 * (h + 64 * u) + 65536 * z) \div 8 = 32 * h + l + 2048 * (u + 4 * z)
  BY <1>1, <1>2
<1>6. Window(a + 8 * l, h + 64 * u, z, 8) = (32 * h + l + 2048 * (u + 4 * z)) % 2048
  BY ONLY <1>5 DEF Window
<1>7. @ = x
  BY <1>1, <1>2
<1> QED BY <1>3, <1>4, <1>6, <1>7 DEF h

LEMMA WindowAt4 ==
    ASSUME NEW x, NEW y, NEW a, NEW z, Fits(x, 2048), Fits(y, 2048), Fits(a, 16), Fits(z, 256)
    PROVE  Window((a + x * 16) % 256, (x \div 16 + y * 128) % 256, z, 16) = x
<1> USE DEF Fits
<1> DEFINE h == x \div 16  l == x % 16  u == y % 2  v == y \div 2
<1>1. x = 16 * h + l /\ h \in 0 .. 127 /\ l \in 0 .. 15
  OBVIOUS
<1>2. y = 2 * v + u /\ v \in Nat /\ u \in 0 .. 1
  OBVIOUS
<1> HIDE DEF h, l, u, v
<1>3. (a + x * 16) % 256 = a + 16 * l
  BY <1>1
<1>4. (h + y * 128) % 256 = h + 128 * u
  BY <1>1, <1>2
<1>5. (a + 16 * l + 256 * (h + 128 * u) + 65536 * z) \div 16 = 16 * h + l + 2048 * (u + 2 * z)
  BY <1>1, <1>2
<1>6. Window(a + 16 * l, h + 128 * u, z, 16) = (16 * h + l + 2048 * (u + 2 * z)) % 2048
  BY ONLY <1>5 DEF Window
<1>7. @ = x
  BY <1>1, <1>2
<1> QED BY <1>3, <1>4, <1>6, <1>7 DEF h

LEMMA WindowAt5 ==
    ASSUME NEW x, NEW a, NEW z, Fits(x, 2048), Fits(a, 32), Fits(z, 256)
    PROVE  Window((a + x * 32) % 256, (x \div 8) % 256, z, 32) = x
<1> USE DEF Fits
<1> DEFINE h == x \div 8  l == x % 8
<1>1. x = 8 * h + l /\ h \in 0 .. 255 /\ l \in 0 .. 7
  OBVIOUS
<1> HIDE DEF h, l
<1>3. (a + x * 32) % 256 = a + 32 * l
  BY <1>1
<1>4. h % 256 = h
  BY <1>1
<1>5. (a + 32 * l + 256 * h + 65536 * z) \div 32 = 8 * h + l + 2048 * z
  BY <1>1
<1>6. Window(a + 32 * l, h, z, 32) = (8 * h + l + 2048 * z) % 2048
  BY ONLY <1>5 DEF Window
<1>7. @ = x
  BY <1>1
<1> QED BY <1>3, <1>4, <1>6, <1>7 DEF h

LEMMA WindowAt6 ==
    ASSUME NEW x, NEW y, NEW a, Fits(x, 2048), Fits(y, 2048), Fits(a, 64)
    PROVE  Window((a + x * 64) % 256, (x \div 4) % 256, (x \div 1024 + y * 2) % 256, 64) = x
<1> USE DEF Fits
<1> DEFINE h == x \div 1024  m == (x \div 4) % 256  l == x % 4  u == y % 128  v == y \div 128
<1>1. x = 1024 * h + 4 * m + l /\ h \in 0 .. 1 /\ m \in 0 .. 255 /\ l \in 0 .. 3
  OBVIOUS
<1>2. y = 128 * v + u /\ v \in Nat /\ u \in 0 .. 127
  OBVIOUS
<1> HIDE DEF h, m, l, u, v
<1>3. (a + x * 64) % 256 = a + 64 * l
  BY <1>1
<1>4. (h + y * 2) % 256 = h + 2 * u
  BY <1>1, <1>2
<1>5. (a + 64 * l + 256 * m + 65536 * (h + 2 * u)) \div 64 = 1024 * h + 4 * m + l + 2048 * u
  BY <1>1, <1>2
<1>6. Window(a + 64 * l, m, h + 2 * u, 64) = (1024 * h + 4 * m + l + 2048 * u) % 2048
  BY ONLY <1>5 DEF Window
<1>7. @ = x
  BY <1>1, <1>2
<1> QED BY <1>3, <1>4, <1>6, <1>7 DEF h, m

LEMMA WindowAt7 ==
    ASSUME NEW x, NEW y, NEW a, Fits(x, 2048), Fits(y, 2048), Fits(a, 128)
    PROVE  Window((a + x * 128) % 256, (x \div 2) % 256, (x \div 512 + y * 4) % 256, 128) = x
<1> USE DEF Fits
<1> DEFINE h == x \div 512  m == (x \div 2) % 256  l == x % 2  u == y % 64  v == y \div 64
<1>1. x = 512 * h + 2 * m + l /\ h \in 0 .. 3 /\ m \in 0 .. 255 /\ l \in 0 .. 1
  OBVIOUS
<1>2. y = 64 * v + u /\ v \in Nat /\ u \in 0 .. 63
  OBVIOUS
<1> HIDE DEF h, m, l, u, v
<1>3. (a + x * 128) % 256 = a + 128 * l
  BY <1>1
<1>4. (h + y * 4) % 256 = h + 4 * u
  BY <1>1, <1>2
<1>5. (a + 128 * l + 256 * m + 65536 * (h + 4 * u)) \div 128 = 512 * h + 2 * m + l + 2048 * u
  BY <1>1, <1>2
<1>6. Window(a + 128 * l, m, h + 4 * u, 128) = (512 * h + 2 * m + l + 2048 * u) % 2048
  BY ONLY <1>5 DEF Window
<1>7. @ = x
  BY <1>1, <1>2
<1> QED BY <1>3, <1>4, <1>6, <1>7 DEF h, m

LEMMA Powers == /\ 2 ^ 0 = 1 /\ 2 ^ 1 = 2 /\ 2 ^ 2 = 4 /\ 2 ^ 3 = 8 /\ 2 ^ 4 = 16 /\ 2 ^ 5 = 32
                /\ 2 ^ 6 = 64 /\ 2 ^ 7 = 128 /\ 2 ^ 8 = 256 /\ 2 ^ 9 = 512 /\ 2 ^ 10 = 1024
  OBVIOUS


(* Each channel is received as it was sent, from the three bytes that hold *)
(* a part of it.                                                           *)
LEMMA ChannelReceived ==
    ASSUME channels \in [0 .. 15 -> 0 .. UINT16_MAX], NEW c \in 0 .. 15
    PROVE  Received(Packet, c) = channels[c] % 2048
<1> DEFINE X(d) == channels[d] % 2048
           P == Packet
<1>1. \A d \in 0 .. 15 : Fits(X(d), 2048)
  <2>1. \A v \in Nat : Fits(v % 2048, 2048)
    BY DEF Fits
  <2>2. UINT16_MAX \in Nat
    BY ONLY Widths
  <2>3. ASSUME NEW d \in 0 .. 15 PROVE channels[d] \in Nat
    <3>1. channels[d] \in 0 .. UINT16_MAX
      OBVIOUS
    <3> QED BY ONLY <2>2, <3>1
  <2> QED BY ONLY <2>1, <2>3 DEF X
<1>2. /\ P[1] = X(0) % 256
      /\ P[2] = (X(0) \div 256 + X(1) * 8) % 256
      /\ P[3] = (X(1) \div 32 + X(2) * 64) % 256
      /\ P[4] = (X(2) \div 4) % 256
      /\ P[5] = (X(2) \div 1024 + X(3) * 2) % 256
      /\ P[6] = (X(3) \div 128 + X(4) * 16) % 256
      /\ P[7] = (X(4) \div 16 + X(5) * 128) % 256
      /\ P[8] = (X(5) \div 2) % 256
      /\ P[9] = (X(5) \div 512 + X(6) * 4) % 256
      /\ P[10] = (X(6) \div 64 + X(7) * 32) % 256
      /\ P[11] = (X(7) \div 8) % 256
      /\ P[12] = X(8) % 256
      /\ P[13] = (X(8) \div 256 + X(9) * 8) % 256
      /\ P[14] = (X(9) \div 32 + X(10) * 64) % 256
      /\ P[15] = (X(10) \div 4) % 256
      /\ P[16] = (X(10) \div 1024 + X(11) * 2) % 256
      /\ P[17] = (X(11) \div 128 + X(12) * 16) % 256
      /\ P[18] = (X(12) \div 16 + X(13) * 128) % 256
      /\ P[19] = (X(13) \div 2) % 256
      /\ P[20] = (X(13) \div 512 + X(14) * 4) % 256
      /\ P[21] = (X(14) \div 64 + X(15) * 32) % 256
      /\ P[22] = (X(15) \div 8) % 256
      /\ P[23] = 0
  BY Powers DEF Packet, Bits, Right, Left
<1> HIDE DEF P, X
<1>3. \A d \in 0 .. 15 :
          /\ Fits(X(d) \div 1024, 2)
          /\ Fits(X(d) \div 512, 4)
          /\ Fits(X(d) \div 256, 8)
          /\ Fits(X(d) \div 128, 16)
          /\ Fits(X(d) \div 64, 32)
          /\ Fits(X(d) \div 32, 64)
          /\ Fits(X(d) \div 16, 128)
  BY <1>1 DEF Fits
<1>4. /\ Fits(P[3], 256) /\ Fits(P[4], 256) /\ Fits(P[7], 256) /\ Fits(P[8], 256)
      /\ Fits(P[11], 256) /\ Fits(P[12], 256) /\ Fits(P[14], 256) /\ Fits(P[15], 256)
      /\ Fits(P[18], 256) /\ Fits(P[19], 256) /\ Fits(P[22], 256) /\ Fits(P[23], 256)
  BY <1>1, <1>2, <1>3 DEF Fits
<1>5. Received(P, 0) = X(0) /\ Received(P, 8) = X(8)
  <2>1. Received(P, 0) = X(0)
    <3>1. Received(P, 0) = Window(X(0) % 256,
                                  (X(0) \div 256 + X(1) * 8) % 256, P[3], 1)
      BY <1>2, Powers DEF Received
    <3>2. Fits(X(0), 2048) /\ Fits(X(1), 2048)
          /\ Fits(P[3], 256)
      BY ONLY <1>1, <1>4
    <3> QED BY ONLY <3>1, <3>2, WindowAt0
  <2>2. Received(P, 8) = X(8)
    <3>1. Received(P, 8) = Window(X(8) % 256,
                                  (X(8) \div 256 + X(9) * 8) % 256, P[14], 1)
      BY <1>2, Powers DEF Received
    <3>2. Fits(X(8), 2048) /\ Fits(X(9), 2048)
          /\ Fits(P[14], 256)
      BY ONLY <1>1, <1>4
    <3> QED BY ONLY <3>1, <3>2, WindowAt0
  <2> QED BY <2>1, <2>2
<1>6. Received(P, 3) = X(3) /\ Received(P, 11) = X(11)
  <2>1. Received(P, 3) = X(3)
    <3>1. Received(P, 3) = Window((X(2) \div 1024 + X(3) * 2) % 256,
                                  (X(3) \div 128 + X(4) * 16) % 256, P[7], 2)
      BY <1>2, Powers DEF Received
    <3>2. Fits(X(3), 2048) /\ Fits(X(4), 2048)
          /\ Fits(X(2) \div 1024, 2) /\ Fits(P[7], 256)
      BY ONLY <1>1, <1>3, <1>4
    <3> QED BY ONLY <3>1, <3>2, WindowAt1
  <2>2. Received(P, 11) = X(11)
    <3>1. Received(P, 11) = Window((X(10) \div 1024 + X(11) * 2) % 256,
                                  (X(11) \div 128 + X(12) * 16) % 256, P[18], 2)
      BY <1>2, Powers DEF Received
    <3>2. Fits(X(11), 2048) /\ Fits(X(12), 2048)
          /\ Fits(X(10) \div 1024, 2) /\ Fits(P[18], 256)
      BY ONLY <1>1, <1>3, <1>4
    <3> QED BY ONLY <3>1, <3>2, WindowAt1
  <2> QED BY <2>1, <2>2
<1>7. Received(P, 6) = X(6) /\ Received(P, 14) = X(14)
  <2>1. Received(P, 6) = X(6)
    <3>1. Received(P, 6) = Window((X(5) \div 512 + X(6) * 4) % 256,
                                  (X(6) \div 64 + X(7) * 32) % 256, P[11], 4)
      BY <1>2, Powers DEF Received
    <3>2. Fits(X(6), 2048) /\ Fits(X(7), 2048)
          /\ Fits(X(5) \div 512, 4) /\ Fits(P[11], 256)
      BY ONLY <1>1, <1>3, <1>4
    <3> QED BY ONLY <3>1, <3>2, WindowAt2
  <2>2. Received(P, 14) = X(14)
    <3>1. Received(P, 14) = Window((X(13) \div 512 + X(14) * 4) % 256,
                                  (X(14) \div 64 + X(15) * 32) % 256, P[22], 4)
      BY <1>2, Powers DEF Received
    <3>2. Fits(X(14), 2048) /\ Fits(X(15), 2048)
          /\ Fits(X(13) \div 512, 4) /\ Fits(P[22], 256)
      BY ONLY <1>1, <1>3, <1>4
    <3> QED BY ONLY <3>1, <3>2, WindowAt2
  <2> QED BY <2>1, <2>2
<1>8. Received(P, 1) = X(1) /\ Received(P, 9) = X(9)
  <2>1. Received(P, 1) = X(1)
    <3>1. Received(P, 1) = Window((X(0) \div 256 + X(1) * 8) % 256,
                                  (X(1) \div 32 + X(2) * 64) % 256, P[4], 8)
      BY <1>2, Powers DEF Received
    <3>2. Fits(X(1), 2048) /\ Fits(X(2), 2048)
          /\ Fits(X(0) \div 256, 8) /\ Fits(P[4], 256)
      BY ONLY <1>1, <1>3, <1>4
    <3> QED BY ONLY <3>1, <3>2, WindowAt3
  <2>2. Received(P, 9) = X(9)
    <3>1. Received(P, 9) = Window((X(8) \div 256 + X(9) * 8) % 256,
                                  (X(9) \div 32 + X(10) * 64) % 256, P[15], 8)
      BY <1>2, Powers DEF Received
    <3>2. Fits(X(9), 2048) /\ Fits(X(10), 2048)
          /\ Fits(X(8) \div 256, 8) /\ Fits(P[15], 256)
      BY ONLY <1>1, <1>3, <1>4
    <3> QED BY ONLY <3>1, <3>2, WindowAt3
  <2> QED BY <2>1, <2>2
<1>9. Received(P, 4) = X(4) /\ Received(P, 12) = X(12)
  <2>1. Received(P, 4) = X(4)
    <3>1. Received(P, 4) = Window((X(3) \div 128 + X(4) * 16) % 256,
                                  (X(4) \div 16 + X(5) * 128) % 256, P[8], 16)
      BY <1>2, Powers DEF Received
    <3>2. Fits(X(4), 2048) /\ Fits(X(5), 2048)
          /\ Fits(X(3) \div 128, 16) /\ Fits(P[8], 256)
      BY ONLY <1>1, <1>3, <1>4
    <3> QED BY ONLY <3>1, <3>2, WindowAt4
  <2>2. Received(P, 12) = X(12)
    <3>1. Received(P, 12) = Window((X(11) \div 128 + X(12) * 16) % 256,
                                  (X(12) \div 16 + X(13) * 128) % 256, P[19], 16)
      BY <1>2, Powers DEF Received
    <3>2. Fits(X(12), 2048) /\ Fits(X(13), 2048)
          /\ Fits(X(11) \div 128, 16) /\ Fits(P[19], 256)
      BY ONLY <1>1, <1>3, <1>4
    <3> QED BY ONLY <3>1, <3>2, WindowAt4
  <2> QED BY <2>1, <2>2
<1>10. Received(P, 7) = X(7) /\ Received(P, 15) = X(15)
  <2>1. Received(P, 7) = X(7)
    <3>1. Received(P, 7) = Window((X(6) \div 64 + X(7) * 32) % 256,
                                  (X(7) \div 8) % 256, P[12], 32)
      BY <1>2, Powers DEF Received
    <3>2. Fits(X(7), 2048) /\ Fits(X(6) \div 64, 32)
          /\ Fits(P[12], 256)
      BY ONLY <1>1, <1>3, <1>4
    <3> QED BY ONLY <3>1, <3>2, WindowAt5
  <2>2. Received(P, 15) = X(15)
    <3>1. Received(P, 15) = Window((X(14) \div 64 + X(15) * 32) % 256,
                                  (X(15) \div 8) % 256, P[23], 32)
      BY <1>2, Powers DEF Received
    <3>2. Fits(X(15), 2048) /\ Fits(X(14) \div 64, 32)
          /\ Fits(P[23], 256)
      BY ONLY <1>1, <1>3, <1>4
    <3> QED BY ONLY <3>1, <3>2, WindowAt5
  <2> QED BY <2>1, <2>2
<1>11. Received(P, 2) = X(2) /\ Received(P, 10) = X(10)
  <2>1. Received(P, 2) = X(2)
    <3>1. Received(P, 2) = Window((X(1) \div 32 + X(2) * 64) % 256,
                                  (X(2) \div 4) % 256, (X(2) \div 1024 + X(3) * 2) % 256, 64)
      BY <1>2, Powers DEF Received
    <3>2. Fits(X(2), 2048) /\ Fits(X(3), 2048)
          /\ Fits(X(1) \div 32, 64)
      BY ONLY <1>1, <1>3
    <3> QED BY ONLY <3>1, <3>2, WindowAt6
  <2>2. Received(P, 10) = X(10)
    <3>1. Received(P, 10) = Window((X(9) \div 32 + X(10) * 64) % 256,
                                  (X(10) \div 4) % 256, (X(10) \div 1024 + X(11) * 2) % 256, 64)
      BY <1>2, Powers DEF Received
    <3>2. Fits(X(10), 2048) /\ Fits(X(11), 2048)
          /\ Fits(X(9) \div 32, 64)
      BY ONLY <1>1, <1>3
    <3> QED BY ONLY <3>1, <3>2, WindowAt6
  <2> QED BY <2>1, <2>2
<1>12. Received(P, 5) = X(5) /\ Received(P, 13) = X(13)
  <2>1. Received(P, 5) = X(5)
    <3>1. Received(P, 5) = Window((X(4) \div 16 + X(5) * 128) % 256,
                                  (X(5) \div 2) % 256, (X(5) \div 512 + X(6) * 4) % 256, 128)
      BY <1>2, Powers DEF Received
    <3>2. Fits(X(5), 2048) /\ Fits(X(6), 2048)
          /\ Fits(X(4) \div 16, 128)
      BY ONLY <1>1, <1>3
    <3> QED BY ONLY <3>1, <3>2, WindowAt7
  <2>2. Received(P, 13) = X(13)
    <3>1. Received(P, 13) = Window((X(12) \div 16 + X(13) * 128) % 256,
                                  (X(13) \div 2) % 256, (X(13) \div 512 + X(14) * 4) % 256, 128)
      BY <1>2, Powers DEF Received
    <3>2. Fits(X(13), 2048) /\ Fits(X(14), 2048)
          /\ Fits(X(12) \div 16, 128)
      BY ONLY <1>1, <1>3
    <3> QED BY ONLY <3>1, <3>2, WindowAt7
  <2> QED BY <2>1, <2>2
<1>13. \A d \in 0 .. 15 : Received(P, d) = X(d)
  BY <1>5, <1>6, <1>7, <1>8, <1>9, <1>10, <1>11, <1>12
<1> QED BY <1>13 DEF X, P
-------------------------------------------------------------------------------
LEMMA Initially == Init => IInv
<1> SUFFICES ASSUME Init PROVE IInv
  OBVIOUS
<1>1. /\ position \in Positions /\ offsetValue = [k \in Sticks |-> 0]
      /\ isPressed = [i \in Keys |-> FALSE] /\ pressedCnt = [i \in Keys |-> 0]
      /\ kPc = "key0" /\ sPc = "filter" /\ stick = [k \in Sticks |-> 0]
      /\ channels = [c \in 0 .. 15 |-> 0] /\ calibratedAt = Nowhere
  BY ONLY Init DEF Init
<1>2. position \in [Sticks -> 0 .. ADC_MAX]
  BY ONLY <1>1, InputAssumption DEF InputAssumption
<1>3. 0 \in Offsets /\ 0 \in 0 .. UINT16_MAX /\ Sticks \subseteq 0 .. 15
  BY Widths DEF Sticks, Offsets
<1>4. TypeOK
  <2>1. isPressed \in [Keys -> BOOLEAN] /\ pressedCnt \in [Keys -> 0 .. 255]
    BY ONLY <1>1
  <2>2. 0 \in 0 .. CHANNEL_MAX /\ 0 \in 0 .. UINT16_MAX
    BY ONLY Widths
  <2>3. /\ offsetValue \in [Sticks -> Offsets] /\ stick \in [Sticks -> 0 .. CHANNEL_MAX]
        /\ channels \in [0 .. 15 -> 0 .. UINT16_MAX]
    BY ONLY <1>1, <1>3, <2>2
  <2> QED BY ONLY <1>2, <2>1, <2>3 DEF TypeOK
<1>5. SticksInRange
  BY ONLY <1>1, <1>3, Widths DEF SticksInRange
<1>6. PlaceInv /\ SamplesInv /\ OffsetInv /\ SenderInv
  BY ONLY <1>1 DEF PlaceInv, SamplesInv, OffsetInv, SenderInv, Calibrating
<1> QED BY ONLY <1>4, <1>5, <1>6 DEF IInv

LEMMA Inductive == IInv /\ [Next]_vars => IInv'
<1> SUFFICES ASSUME IInv, [Next]_vars PROVE IInv'
  OBVIOUS
<1>1. TypeOK /\ PlaceInv /\ SamplesInv /\ OffsetInv /\ SenderInv /\ SticksInRange
  BY ONLY IInv DEF IInv
<1>2. PlaceInv' /\ SamplesInv' /\ OffsetInv'
  BY ONLY <1>1, [Next]_vars, PlaceInductive, KeyInductive
<1>3. CASE Usr_Usb_Debug
  BY ONLY <1>1, <1>2, <1>3, SenderInductive DEF IInv
<1>4. ASSUME UNCHANGED <<sPc, stick, channels, filteredAt>>, centred' = centred PROVE SenderInv' /\ SticksInRange'
  <2>1. centred' => centred
    BY ONLY <1>4, Zenon
  <2>2. UNCHANGED <<sPc, stick, channels, filteredAt>>
    BY ONLY <1>4
  <2> QED BY ONLY <1>1, <2>1, <2>2 DEF SenderInv, SticksInRange
<1>5. CASE Move \/ Key_Debug
  <2>1. TypeOK' /\ UNCHANGED <<senderVars, filteredAt, centred>>
    BY ONLY <1>1, <1>5, KeyTyped
  <2> QED BY ONLY <1>2, <1>4, <2>1 DEF IInv, senderVars
<1>6. CASE UNCHANGED vars
  <2>1. TypeOK'
    BY ONLY <1>1, <1>6 DEF TypeOK, vars, keyVars, senderVars
  <2> QED BY ONLY <1>2, <1>4, <1>6, <2>1 DEF IInv, vars, senderVars
<1> QED BY ONLY [Next]_vars, <1>3, <1>5, <1>6 DEF Next

THEOREM Invariance == Spec => []IInv
  BY Initially, Inductive, PTL DEF Spec

(* Every value of the calibration, of the sticks and of the channels stays *)
(* within its width, whatever Key_Debug and Usr_Usb_Debug interleave.       *)
THEOREM TypeCorrect == Spec => []TypeOK
<1>1. IInv => TypeOK
  BY DEF IInv
<1> QED BY <1>1, Invariance, PTL

(* The limiter keeps the stick channels in their eleven bits for every     *)
(* reading of the ADC and every half-done calibration.                     *)
THEOREM InRange == Spec => []SticksInRange
<1>1. IInv => SticksInRange
  BY DEF IInv
<1> QED BY <1>1, Invariance, PTL

(* After a calibration that was finished where the sticks are, the packet  *)
(* carries the centre, for every position and from every filter state.     *)
THEOREM Centred == Spec => []CentredWhenCalibrated
<1>1. IInv => CentredWhenCalibrated
  BY DEF IInv, SenderInv, CentredWhenCalibrated
<1> QED BY <1>1, Invariance, PTL

(* The receiver reads out of every packet the sixteen channels that        *)
(* Usr_Usb_Debug put into it, whatever their values.                       *)
THEOREM Carried == Spec => []PacketCarriesChannels
<1>1. IInv => PacketCarriesChannels
  <2>1. IInv => channels \in [0 .. 15 -> 0 .. UINT16_MAX]
    BY DEF IInv, TypeOK
  <2>2. ASSUME channels \in [0 .. 15 -> 0 .. UINT16_MAX]
        PROVE  \A c \in 0 .. 15 : Received(Packet, c) = channels[c] % 2048
    BY <2>2, ChannelReceived
  <2> QED BY ONLY <2>1, <2>2 DEF PacketCarriesChannels
<1> QED BY <1>1, Invariance, PTL
-------------------------------------------------------------------------------
(* The search for an id: any number of requests and any length of the    *)
(* queue, wherever the timer's interrupt falls.                            *)

(* The flag may be set while the timer stands still only between two       *)
(* statements of a handler that is about to clear it or to start the timer.*)
FlagInv == flag_searchIdTimerStart = 1 => running \/ ioPc \in {"clear flag", "start", "end clear"}

(* The counter counts no tick that is not one of the search's own. *)
LoopInv == timeout_loop <= ticksOfSearch /\ early = FALSE

SearchInv == SearchTypeOK /\ FlagInv /\ LoopInv
-------------------------------------------------------------------------------
LEMMA SearchInitially == SearchInit => SearchInv
<1> SUFFICES ASSUME SearchInit PROVE SearchInv
  OBVIOUS
<1> USE DEF SearchInit
<1>1. queue \in Seq({"request", "end"})
  OBVIOUS
<1>2. SearchTypeOK
  <2>1. searching \in BOOLEAN /\ running \in BOOLEAN
    BY Zenon
  <2>2. /\ flag_searchIdTimerStart \in {0, 1} /\ timeout_loop \in 0 .. 7
        /\ ticksOfSearch \in 0 .. Ticks
    BY DEF Ticks
  <2> QED BY <1>1, <2>1, <2>2, Zenon DEF SearchTypeOK
<1> QED BY <1>2 DEF SearchInv, FlagInv, LoopInv

(* What the queue holds after a step that posts an event or takes one. *)
LEMMA QueueTyped ==
    ASSUME queue \in Seq({"request", "end"}), SearchNext
    PROVE  queue' \in Seq({"request", "end"})
<1>1. ASSUME NEW event \in {"request", "end"}, Post(event) PROVE queue' \in Seq({"request", "end"})
  BY <1>1 DEF Post
<1>2. ASSUME NEW event, NEW pc, Begin(event, pc) PROVE queue' \in Seq({"request", "end"})
  BY <1>2 DEF Begin
<1>3. CASE Request \/ Found
  BY <1>1, <1>3 DEF Request, Found
<1>4. CASE BeginRequest \/ BeginEnd
  BY <1>2, <1>4 DEF BeginRequest, BeginEnd
<1>5. CASE Tick
  BY <1>1, <1>5 DEF Tick, GiveUp, GoOn
<1>6. ASSUME UNCHANGED queue PROVE queue' \in Seq({"request", "end"})
  BY <1>6
<1>7. StopTimer \/ ClearFlag \/ StartTimer \/ ResetLoop \/ EndStopTimer \/ EndClearFlag
      \/ (\E ok \in BOOLEAN : Register(ok) \/ SearchRcId(ok)) => UNCHANGED queue
  BY DEF StopTimer, ClearFlag, StartTimer, ResetLoop, EndStopTimer, EndClearFlag, Register, SearchRcId
<1> QED BY <1>3, <1>4, <1>5, <1>6, <1>7 DEF SearchNext, HandleEvent

(* What a tick does to the counter, the flag and the timer. *)
LEMMA TickEffect ==
    ASSUME SearchTypeOK, LoopInv, Tick
    PROVE  /\ timeout_loop' \in 0 .. 7 /\ ticksOfSearch' \in 0 .. Ticks
           /\ timeout_loop' <= ticksOfSearch'
           /\ early' = FALSE
           /\ ioPc' = ioPc
           /\ \/ UNCHANGED <<flag_searchIdTimerStart, running, searching>>
              \/ flag_searchIdTimerStart' = 0 /\ running' = FALSE /\ searching' = FALSE
<1> USE DEF SearchTypeOK, LoopInv, Ticks
<1>1. ticksOfSearch' = IF ticksOfSearch < 8 THEN ticksOfSearch + 1 ELSE 8
  BY DEF Tick, CountTick
<1>2. CASE timeout_loop > 6
  <2>1. GiveUp /\ timeout_loop' = 0 /\ ioPc' = ioPc
    BY <1>2 DEF Tick
  <2>2. ticksOfSearch' = 8
    BY <1>1, <1>2
  <2>3. early' = FALSE
    <3>1. early' = (early \/ ticksOfSearch' < 8)
      BY <2>1 DEF GiveUp
    <3>2. ~(ticksOfSearch' < 8)
      BY <2>2
    <3> QED BY <3>1, <3>2, Zenon
  <2> QED BY <2>1, <2>2, <2>3 DEF GiveUp
<1>3. CASE ~(timeout_loop > 6)
  <2>1. GoOn /\ ioPc' = ioPc
    BY <1>3 DEF Tick
  <2>2. /\ timeout_loop' = timeout_loop + 1
        /\ UNCHANGED <<running, flag_searchIdTimerStart, searching, early>>
    BY <2>1 DEF GoOn
  <2>3. timeout_loop' \in 0 .. 7 /\ ticksOfSearch' \in 0 .. 8 /\ timeout_loop' <= ticksOfSearch'
    BY <1>1, <1>3, <2>2
  <2> QED BY <2>1, <2>2, <2>3
<1> QED BY <1>2, <1>3

LEMMA SearchInductive == ASSUME SearchInv, [SearchNext]_searchVars PROVE SearchInv'
<1> USE DEF SearchInv, SearchTypeOK, FlagInv, LoopInv, timerVars, history
<1>1. SearchNext => queue' \in Seq({"request", "end"})
  BY QueueTyped
<1>2. CASE Request \/ Found
  <2>1. queue' \in Seq({"request", "end"})
    BY <1>1, <1>2 DEF SearchNext, HandleEvent
  <2>2. /\ UNCHANGED <<timerVars, history>>
        /\ searching' \in BOOLEAN
        /\ ioPc' = ioPc
    BY <1>2 DEF Request, Found
  <2> QED BY <2>1, <2>2
<1>3. CASE BeginRequest
  <2>1. queue' \in Seq({"request", "end"})
    BY <1>1, <1>3 DEF SearchNext, HandleEvent
  <2>2. /\ UNCHANGED <<timerVars, history>>
        /\ searching' \in BOOLEAN
        /\ ioPc = "idle"
    BY <1>3 DEF BeginRequest, Begin
  <2> QED BY <2>1, <2>2
<1>4. CASE StopTimer
  BY <1>4 DEF StopTimer
<1>13. CASE ClearFlag
  <2>1. flag_searchIdTimerStart' = 0
    BY <1>13, Zenon DEF ClearFlag
  <2>4. flag_searchIdTimerStart' # 1
    BY ONLY <2>1
  <2>2. FlagInv'
    BY <2>4, Zenon
  <2>3. SearchTypeOK' /\ LoopInv'
    BY <1>13 DEF ClearFlag
  <2> QED BY <2>2, <2>3, Zenon
<1>5. ASSUME NEW ok \in BOOLEAN, Register(ok) PROVE SearchInv'
  BY <1>5 DEF Register
<1>6. CASE StartTimer
  BY <1>6 DEF StartTimer
<1>7. ASSUME NEW ok \in BOOLEAN, SearchRcId(ok) PROVE SearchInv'
  BY <1>7 DEF SearchRcId
<1>8. CASE ResetLoop
  BY <1>8 DEF ResetLoop, Ticks
<1>9. CASE BeginEnd
  <2>1. queue' \in Seq({"request", "end"})
    BY <1>1, <1>9 DEF SearchNext, HandleEvent
  <2>2. /\ UNCHANGED <<timerVars, history>>
        /\ searching' \in BOOLEAN
        /\ ioPc = "idle"
    BY <1>9 DEF BeginEnd, Begin
  <2> QED BY <2>1, <2>2
<1>10. CASE EndStopTimer
  BY <1>10 DEF EndStopTimer
<1>14. CASE EndClearFlag
  <2>1. flag_searchIdTimerStart' = 0
    BY <1>14, Zenon DEF EndClearFlag
  <2>4. flag_searchIdTimerStart' # 1
    BY ONLY <2>1
  <2>2. FlagInv'
    BY <2>4, Zenon
  <2>3. SearchTypeOK' /\ LoopInv'
    BY <1>14 DEF EndClearFlag
  <2> QED BY <2>2, <2>3, Zenon
<1>11. CASE Tick
  <2>1. queue' \in Seq({"request", "end"})
    BY <1>1, <1>11 DEF SearchNext
  <2>2. CASE UNCHANGED <<flag_searchIdTimerStart, running, searching>>
    BY <2>1, <2>2, <1>11, TickEffect
  <2>3. CASE flag_searchIdTimerStart' = 0 /\ running' = FALSE /\ searching' = FALSE
    <3>1. searching' \in BOOLEAN /\ running' \in BOOLEAN
      BY ONLY <2>3, Zenon
    <3>2. flag_searchIdTimerStart' = 0 /\ flag_searchIdTimerStart' # 1
      BY ONLY <2>3
    <3>4. FlagInv'
      BY <3>2, Zenon
    <3>3. LoopInv' /\ timeout_loop' \in 0 .. 7 /\ ticksOfSearch' \in 0 .. Ticks
      BY <1>11, TickEffect
    <3> HIDE DEF FlagInv, LoopInv
    <3> QED BY <2>1, <3>1, <3>2, <3>3, <3>4
  <2> QED BY <2>2, <2>3, <1>11, TickEffect
<1>12. CASE UNCHANGED searchVars
  BY <1>12 DEF searchVars
<1> QED BY <1>2, <1>3, <1>4, <1>13, <1>5, <1>6, <1>7, <1>8, <1>9, <1>10, <1>14, <1>11, <1>12
     DEF SearchNext, HandleEvent
-------------------------------------------------------------------------------
(* The flag and the timer, the counter and the ticks agree, whichever      *)
(* statement of a handler the interrupt interrupts.                        *)
THEOREM SearchInvariance == SearchSpec => []SearchInv
<1>1. SearchInv /\ [SearchNext]_searchVars => SearchInv'
  BY SearchInductive
<1> QED BY SearchInitially, <1>1, PTL DEF SearchSpec

(* Type correctness; timeout_loop never gets beyond seven. *)
THEOREM SearchTypeCorrect == SearchSpec => []SearchTypeOK
<1>1. SearchInv => SearchTypeOK
  BY DEF SearchInv
<1> QED BY SearchInvariance, <1>1, PTL

(* TIMHAL_IRQSearchIdHandler gives no search up before its time. *)
THEOREM TimeGranted == SearchSpec => []FullTime
<1>1. SearchInv => FullTime
  BY DEF SearchInv, LoopInv, FullTime
<1> QED BY SearchInvariance, <1>1, PTL

(* Between two handlers, a set flag means that the timer runs. *)
THEOREM FlagTrue == SearchSpec => []FlagIsTrue
<1>1. SearchInv => FlagIsTrue
  BY DEF SearchInv, FlagInv, FlagIsTrue
<1> QED BY SearchInvariance, <1>1, PTL
===============================================================================
