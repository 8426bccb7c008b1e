------------------------------- MODULE RcInput -------------------------------
(***************************************************************************)
(* Application/cpu0/main_ground.c: the remote control's inputs.  Key_Debug *)
(* polls the keys and the gear switches and, while key 0 is held down,     *)
(* calibrates the sticks; Usr_Usb_Debug filters the sticks, corrects them  *)
(* by the calibration, builds the sixteen channels of an SBUS packet and   *)
(* sends it.  The two tasks have the same (idle) priority, share the       *)
(* calibration, the keys and the switches without a lock, and may be       *)
(* switched anywhere.                                                      *)
(*                                                                         *)
(* A stick is moved between two steps of the tasks: the ten samples of     *)
(* one run of the sender's filter see one position.  The four sticks are   *)
(* independent of each other, as are the keys and the switches, so that    *)
(* what the code does to one after the other is one step here.             *)
(***************************************************************************)
EXTENDS Integers, Sequences

CONSTANTS Positions,   \* the positions of the four sticks: what the ADC reads
          Gears,       \* the states of the four gear switches
          GearLevels,  \* what the ADC reads at the left, middle and right three-way switch
          PressedKeys, \* which of the keys 1 to 3 may be down together
          MaxCalibrations, \* bound of the model: how often key 0 is seen down
          MaxMoves,    \* bound of the model: how often the sticks move
          MaxPresses   \* bound of the model: how often a key is pressed

ADC_MAX == 1023
CHANNEL_MAX == 2047  \* eleven bits
UINT16_MAX == 65535
Sticks == 0 .. 3
Keys == 1 .. 3

ASSUME InputAssumption ==
    /\ Positions \subseteq [Sticks -> 0 .. ADC_MAX] /\ Positions # {}
    /\ Gears \subseteq [0 .. 3 -> {0, 1}]
    /\ GearLevels \subseteq [{"left", "mid", "right"} -> 0 .. ADC_MAX]
    /\ PressedKeys \subseteq SUBSET Keys
    /\ MaxCalibrations \in Nat /\ MaxMoves \in Nat /\ MaxPresses \in Nat

VARIABLES position, moves, calibrations,  \* the sticks; how often they moved, were calibrated
          offsetValue, isPressed, pressedCnt, gearSwitchValue,  \* shared
          kPc, samples,                   \* Key_Debug
          sPc, stick,                     \* Usr_Usb_Debug: left_h, left_v, right_h, right_v
          channels,
          calibratedAt, filteredAt, centred  \* history: see SampleOffset, CorrectSticks

keyVars == <<kPc, samples, offsetValue, isPressed, pressedCnt, gearSwitchValue>>
senderVars == <<sPc, stick, channels>>
vars == <<position, moves, calibrations, keyVars, senderVars, calibratedAt, filteredAt, centred>>

Nowhere == [k \in Sticks |-> -1]

Init == /\ position \in Positions /\ moves = 0 /\ calibrations = 0
        /\ offsetValue = [k \in Sticks |-> 0]
        /\ isPressed = [i \in Keys |-> FALSE] /\ pressedCnt = [i \in Keys |-> 0]
        /\ gearSwitchValue = [g \in 0 .. 3 |-> 0]
        /\ kPc = "key0" /\ samples = 0
        /\ sPc = "filter" /\ stick = [k \in Sticks |-> 0]
        /\ channels = [c \in 0 .. 15 |-> 0]
        /\ calibratedAt = Nowhere /\ filteredAt = Nowhere /\ centred = FALSE

Move == /\ moves < MaxMoves
        /\ moves' = moves + 1
        /\ position' \in Positions
        /\ UNCHANGED <<calibrations, keyVars, senderVars, calibratedAt, filteredAt, centred>>
------------------------------------------------------------------------------
(* Key_Debug, which begins with handleKey0Value. *)

PollKey0(down) ==
    /\ kPc = "key0"
    /\ IF down
       THEN /\ calibrations < MaxCalibrations /\ calibrations' = calibrations + 1
            /\ offsetValue' = [k \in Sticks |-> 0]
            /\ samples' = 10
            /\ calibratedAt' = position
            /\ kPc' = "sample"
       ELSE kPc' = "keys" /\ UNCHANGED <<calibrations, offsetValue, samples, calibratedAt>>
    /\ UNCHANGED <<position, moves, isPressed, pressedCnt, gearSwitchValue, senderVars,
                   filteredAt, centred>>

(* One sample: old is the running average. *)
Average(old, sample) == (old + sample) \div 2

(* calibratedAt: where all samples were taken, if the sticks did not move. *)
SampleOffset ==
    /\ kPc = "sample"
    /\ offsetValue' = [k \in Sticks |-> Average(offsetValue[k], position[k])]
    /\ samples' = samples - 1
    /\ calibratedAt' = IF calibratedAt = position THEN calibratedAt ELSE Nowhere
    /\ kPc' = IF samples' = 0 THEN "finish" ELSE "sample"
    /\ UNCHANGED <<position, moves, calibrations, isPressed, pressedCnt, gearSwitchValue, senderVars,
                   filteredAt, centred>>

FinishOffsetInverted ==
    /\ kPc = "finish"
    /\ offsetValue' = [k \in Sticks |-> offsetValue[k] - 500]
    /\ kPc' = "keys"
    /\ UNCHANGED <<position, moves, calibrations, samples, isPressed, pressedCnt, gearSwitchValue, senderVars,
                   calibratedAt, filteredAt, centred>>

FinishOffset ==
    /\ kPc = "finish"
    /\ offsetValue' = [k \in Sticks |-> 500 - offsetValue[k]]
    /\ kPc' = "keys"
    /\ UNCHANGED <<position, moves, calibrations, samples, isPressed, pressedCnt, gearSwitchValue, senderVars,
                   calibratedAt, filteredAt, centred>>

(* The keys one after the other; a press is counted when it is first seen. *)
PollKeys(down) ==
    /\ kPc = "keys"
    /\ \A i \in Keys : i \in down /\ ~isPressed[i] => pressedCnt[i] < MaxPresses
    /\ pressedCnt' = [i \in Keys |->
           IF i \in down /\ ~isPressed[i] THEN (pressedCnt[i] + 1) % 256 ELSE pressedCnt[i]]
    /\ isPressed' = [i \in Keys |-> i \in down]
    /\ kPc' = "gears"
    /\ UNCHANGED <<position, moves, calibrations, samples, offsetValue, gearSwitchValue, senderVars,
                   calibratedAt, filteredAt, centred>>

PollGears ==
    /\ kPc = "gears"
    /\ gearSwitchValue' \in Gears
    /\ kPc' = "key0"
    /\ UNCHANGED <<position, moves, calibrations, samples, offsetValue, isPressed, pressedCnt, senderVars,
                   calibratedAt, filteredAt, centred>>
------------------------------------------------------------------------------
(* Usr_Usb_Debug *)

Average10(start, sample) ==
    LET twice(avg) == Average(Average(avg, sample), sample)
    IN twice(twice(twice(twice(twice(start)))))

FilterSticks ==
    /\ sPc = "filter"
    /\ stick' = [k \in Sticks |-> Average10(stick[k], position[k])]
    /\ filteredAt' = position
    /\ sPc' = "correct"
    /\ UNCHANGED <<position, moves, calibrations, keyVars, channels, calibratedAt, centred>>

switch_limiting_signed(ivalue) ==
    IF 2047 < ivalue /\ ivalue < 4096 THEN 2047 ELSE ivalue

switch_limiting(ivalue) ==
    IF 2047 < ivalue /\ ivalue < 4096 THEN 2047 ELSE IF 60000 < ivalue THEN 0 ELSE ivalue

(* centred: the calibration is complete and was done where the sticks are. *)
CorrectSticks ==
    /\ sPc = "correct"
    /\ stick' = [k \in Sticks |->
           switch_limiting((2 * (stick[k] + offsetValue[k])) % 65536)]
    /\ centred' = (kPc \notin {"sample", "finish"} /\ calibratedAt # Nowhere
                   /\ filteredAt = calibratedAt)
    /\ sPc' = "unlock"
    /\ UNCHANGED <<position, moves, calibrations, keyVars, channels, calibratedAt, filteredAt>>

(* Key 1 unlocks. *)
Unlock ==
    /\ sPc = "unlock"
    /\ channels' = [c \in 0 .. 15 |->
           IF c \notin Sticks THEN channels[c]
           ELSE IF ~isPressed[1] THEN stick[c]
           ELSE IF c = 2 THEN 50 ELSE 1900]
    /\ sPc' = "key2"
    /\ UNCHANGED <<position, moves, calibrations, keyVars, stick, calibratedAt, filteredAt, centred>>

Key2 ==
    /\ sPc = "key2"
    /\ channels' = IF isPressed[2] THEN [channels EXCEPT ![0] = 50, ![1] = 1900] ELSE channels
    /\ sPc' = "switches"
    /\ UNCHANGED <<position, moves, calibrations, keyVars, stick, calibratedAt, filteredAt, centred>>

GearChannel(level) == IF level <= 333 THEN 50 ELSE IF level <= 666 THEN 1024 ELSE 1900

Switches(level) ==
    /\ sPc = "switches"
    /\ channels' = [c \in 0 .. 15 |->
           CASE c \in Sticks -> channels[c]
             [] c \in 4 .. 7 -> IF gearSwitchValue[c - 4] # 0 THEN 1900 ELSE 50
             [] c = 8 -> IF pressedCnt[3] % 2 = 0 THEN 1900 ELSE 50
             [] c = 9 -> GearChannel(level.left)
             [] c = 10 -> GearChannel(level.right)
             [] c = 11 -> GearChannel(level.mid)
             [] OTHER -> 65535]
    /\ sPc' = "send"
    /\ UNCHANGED <<position, moves, calibrations, keyVars, stick, calibratedAt, filteredAt, centred>>

(* The packet's bytes 1 to 23: sixteen times the eleven bits of a channel, *)
(* and the flags.                                                          *)
BitsNarrow(c) == channels[c] % 1024

Bits(c) == channels[c] % 2048

Right(c, n) == Bits(c) \div 2 ^ n
Left(c, n) == Bits(c) * 2 ^ n

Packet ==
    LET byte(value) == value % 256
    IN << byte(Bits(0)), byte(Right(0, 8) + Left(1, 3)), byte(Right(1, 5) + Left(2, 6)),
          byte(Right(2, 2)), byte(Right(2, 10) + Left(3, 1)), byte(Right(3, 7) + Left(4, 4)),
          byte(Right(4, 4) + Left(5, 7)), byte(Right(5, 1)), byte(Right(5, 9) + Left(6, 2)),
          byte(Right(6, 6) + Left(7, 5)), byte(Right(7, 3)),
          byte(Bits(8)), byte(Right(8, 8) + Left(9, 3)), byte(Right(9, 5) + Left(10, 6)),
          byte(Right(10, 2)), byte(Right(10, 10) + Left(11, 1)), byte(Right(11, 7) + Left(12, 4)),
          byte(Right(12, 4) + Left(13, 7)), byte(Right(13, 1)), byte(Right(13, 9) + Left(14, 2)),
          byte(Right(14, 6) + Left(15, 5)), byte(Right(15, 3)), 0 >>

Transmit == /\ sPc = "send"
            /\ sPc' = "filter"
            /\ UNCHANGED <<position, moves, calibrations, keyVars, stick, channels, calibratedAt,
                           filteredAt, centred>>
------------------------------------------------------------------------------
Key_Debug == \/ \E down \in BOOLEAN : PollKey0(down)
             \/ SampleOffset \/ FinishOffset
             \/ \E down \in PressedKeys : PollKeys(down)
             \/ PollGears

Usr_Usb_Debug == \/ FilterSticks \/ CorrectSticks \/ Unlock \/ Key2
                 \/ \E level \in GearLevels : Switches(level)
                 \/ Transmit

Next == Move \/ Key_Debug \/ Usr_Usb_Debug

Spec == Init /\ [][Next]_vars
------------------------------------------------------------------------------

Offsets == -ADC_MAX .. ADC_MAX

TypeOK == /\ position \in [Sticks -> 0 .. ADC_MAX]
          /\ offsetValue \in [Sticks -> Offsets]
          /\ isPressed \in [Keys -> BOOLEAN] /\ pressedCnt \in [Keys -> 0 .. 255]
          /\ stick \in [Sticks -> 0 .. CHANNEL_MAX]
          /\ channels \in [0 .. 15 -> 0 .. UINT16_MAX]

(* Whatever the calibration holds at that moment, half-way values and      *)
(* negative ones included, no sum of stick and calibration leaves the 11   *)
(* bits of a channel: the limiter catches what wraps in 16 bits, so that   *)
(* the packet never carries a value from the wrong end of the range.       *)
SticksInRange == \A c \in Sticks : channels[c] \in 0 .. CHANNEL_MAX

(* With a calibration that was completed where the sticks are now, the     *)
(* channels are sent at the centre, 1000, give or take the rounding of the *)
(* two filters, wherever the calibration task was switched out meanwhile   *)
(* and whatever the filter kept of an earlier position.                    *)
CentredWhenCalibrated ==
    sPc = "send" /\ centred =>
        \A c \in Sticks : channels[c] \in 1000 .. 1004 \/ channels[c] \in {50, 1900}

(* The receiver's view of an SBUS packet: channel c is bits 11c to 11c+10  *)
(* of the bytes, the lowest bit of each byte first.                        *)
Window(b1, b2, b3, n) == ((b1 + 256 * b2 + 65536 * b3) \div n) % 2048

Received(packet, c) ==
    LET k == (11 * c) \div 8 + 1
    IN Window(packet[k], packet[k + 1], packet[k + 2], 2 ^ ((11 * c) % 8))

(* The receiver reads out of every packet the channels that were put into  *)
(* it: the twenty-two hand-written shifts lose no bit and swap no channels. *)
PacketCarriesChannels ==
    sPc = "send" =>
        LET packet == Packet
        IN \A c \in 0 .. 15 : Received(packet, c) = channels[c] % 2048
==============================================================================
