------------------------------ MODULE VideoDemux ------------------------------
(***************************************************************************)
(* Example/usr_usb_task.c: receive_video_stream cuts the byte stream of    *)
(* the USB host into frames and hands their payload to one of two SRAM     *)
(* video channels; usb_plug_out_callback switches the channels off when    *)
(* the cable is pulled.                                                    *)
(*                                                                         *)
(* The stream arrives in chunks of any length; the parser keeps its state  *)
(* in static variables from one chunk to the next.  The callback runs in   *)
(* the task that dispatches system events, some time after the cable was   *)
(* pulled, and interleaves with the parser around the plug flag and the    *)
(* channel.  A new host may already stream when it runs.                   *)
(***************************************************************************)
EXTENDS Integers, Sequences

CONSTANTS UINT8_MAX,    \* the largest byte: 255
          Payloads,     \* the payloads of the frames that a host sends
          Junk,         \* what it may send between two frames
          ChunkLens,    \* the lengths of the chunks that arrive
          MaxUnits,     \* bound of the model: how many frames and junk
          MaxPlugOuts   \* bound of the model: how often the cable is pulled

Marker == <<18, 52, 86>>  \* 0x12 0x34 0x56
Channels == {0, 1}
Byte == 0 .. UINT8_MAX

(* Bytes and 32-bit words; a length is four bytes, the most significant    *)
(* one first.                                                              *)
B == UINT8_MAX + 1
WORD == B * B * B * B
Weight == <<B * B * B, B * B, B, 1>>
LengthBytes(n) == LET n1 == n \div B
                      n2 == n1 \div B
                  IN <<n2 \div B, n2 % B, n1 % B, n % B>>

(* Bytes that the parser takes for the start of a frame. *)
HeaderAt(s, k) == /\ k + 4 <= Len(s)
                  /\ \A j \in 1 .. 3 : s[k + j] = Marker[j]
                  /\ s[k + 4] \in Channels

(* Junk is what no receiver could take for a frame: it contains no header, *)
(* and does not complete one.  A payload is any bytes whose number fits    *)
(* into an int, and so is a chunk.                                         *)
ASSUME StreamAssumption ==
    /\ UINT8_MAX \in Nat /\ UINT8_MAX >= 86
    /\ Payloads \subseteq Seq(Byte) /\ \A p \in Payloads : 2 * Len(p) < WORD
    /\ Junk \subseteq Seq(Byte)
    /\ \A j \in Junk : /\ \A k \in 0 .. Len(j) : ~HeaderAt(j, k)
                       /\ j # <<>> => j[1] \notin {52, 86} \cup Channels
    /\ ChunkLens \subseteq Nat \ {0} /\ \A n \in ChunkLens : 2 * n < WORD
    /\ MaxUnits \in Nat /\ MaxPlugOuts \in Nat

VARIABLES wire, units, plugOuts,       \* the host and the cable
          state, cur_video_ch, cur_video_len, cur_send_video_len,
          len_byte_cnt,                \* the parser's static variables
          rPc, chunk, i, msg_len,      \* the call of receive_video_stream
          usb_plug_flag,               \* 1: the channel is to be enabled first
          enabled,                     \* the SRAM channels (HAL)
          pending, ePc,                \* the plug-out event and its callback
          owed,                        \* history: payload sent but not yet transferred
          cut, lost, wrong, overtaken  \* history: see the actions that set them

hostVars == <<wire, units, plugOuts>>
header == <<cur_video_ch, cur_video_len, len_byte_cnt>>
parserVars == <<state, header, cur_send_video_len>>
callVars == <<rPc, chunk, i, msg_len>>
plugVars == <<usb_plug_flag, enabled>>
eventVars == <<pending, ePc>>
history == <<owed, cut, lost, wrong, overtaken>>
vars == <<hostVars, parserVars, callVars, plugVars, eventVars, history>>

(* The USB channels and the SRAM channels are numbered the other way round. *)
usb_sram_revert(ch) == 1 - ch

Init == /\ wire = <<>> /\ units = 0 /\ plugOuts = 0
        /\ state = 0 /\ cur_video_ch = 0 /\ cur_video_len = 0
        /\ cur_send_video_len = 0 /\ len_byte_cnt = 0
        /\ rPc = "idle" /\ chunk = <<>> /\ i = 0 /\ msg_len = 0
        /\ usb_plug_flag = [ch \in Channels |-> 1]
        /\ enabled = [c \in Channels |-> FALSE]
        /\ pending = FALSE /\ ePc = "idle"
        /\ owed = [ch \in Channels |-> <<>>]
        /\ cut = FALSE /\ lost = FALSE /\ wrong = FALSE
        /\ overtaken = [ch \in Channels |-> FALSE]
-------------------------------------------------------------------------------
(* The host. *)

Send(bytes) == /\ units < MaxUnits
               /\ wire' = wire \o bytes
               /\ units' = units + 1
               /\ UNCHANGED <<plugOuts, parserVars, callVars, plugVars, eventVars,
                              cut, lost, wrong, overtaken>>

SendFrame(ch, p) == /\ Send(Marker \o <<ch>> \o LengthBytes(Len(p)) \o p)
                    /\ owed' = [owed EXCEPT ![ch] = @ \o p]

SendJunk(j) == Send(j) /\ UNCHANGED owed

(* The bytes on the cable are gone.  Nobody resets the parser: cut says    *)
(* that it may be left in the length or the payload of a frame.            *)
PullCable == /\ plugOuts < MaxPlugOuts
             /\ plugOuts' = plugOuts + 1
             /\ wire' = <<>>
             /\ owed' = [ch \in Channels |-> <<>>]
             /\ cut' = (cut \/ state \in {4, 5} \/ rPc # "idle")
             /\ pending' = TRUE
             /\ UNCHANGED <<units, parserVars, callVars, plugVars, ePc, lost, wrong, overtaken>>
-------------------------------------------------------------------------------
(* receive_video_stream; i is the offset of the next byte of the chunk. *)

Arrive(n) == /\ rPc = "idle" /\ wire # <<>>
             /\ LET len == IF n <= Len(wire) THEN n ELSE Len(wire)
                IN /\ chunk' = SubSeq(wire, 1, len)
                   /\ wire' = SubSeq(wire, len + 1, Len(wire))
             /\ i' = 0
             /\ rPc' = "parse"
             /\ UNCHANGED <<units, plugOuts, parserVars, msg_len, plugVars, eventVars, history>>

ParseUnchanged == UNCHANGED <<hostVars, cur_send_video_len, chunk, msg_len, plugVars,
                              eventVars, history>>

(* The test at the end of the loop. *)
Consume(n) == /\ i' = i + n
              /\ rPc' = IF i + n < Len(chunk) THEN "parse" ELSE "idle"

MatchMarker == /\ rPc = "parse" /\ state < 3
               /\ chunk[i + 1] = Marker[state + 1]
               /\ state' = state + 1
               /\ Consume(1)
               /\ UNCHANGED header /\ ParseUnchanged

SkipByte == /\ rPc = "parse" /\ state = 0
            /\ chunk[i + 1] # Marker[1]
            /\ Consume(1)
            /\ UNCHANGED <<state, header>> /\ ParseUnchanged

RestartHuntAfter == /\ rPc = "parse" /\ state \in {1, 2}
                    /\ chunk[i + 1] # Marker[state + 1]
                    /\ state' = 0
                    /\ Consume(1)
                    /\ UNCHANGED header /\ ParseUnchanged

(* The byte that does not match is looked at again: it may start a marker. *)
RestartHunt == /\ rPc = "parse" /\ state \in {1, 2}
               /\ chunk[i + 1] # Marker[state + 1]
               /\ state' = 0
               /\ Consume(0)
               /\ UNCHANGED header /\ ParseUnchanged

TakeChannel == /\ rPc = "parse" /\ state = 3
               /\ cur_video_ch' = chunk[i + 1]
               /\ IF cur_video_ch' \in Channels
                  THEN /\ state' = 4 /\ len_byte_cnt' = 0 /\ cur_video_len' = 0
                       /\ Consume(1)
                  ELSE /\ state' = 0 /\ UNCHANGED <<len_byte_cnt, cur_video_len>>
                       /\ Consume(0)
               /\ ParseUnchanged

TakeLengthByteLittleEndian == /\ rPc = "parse" /\ state = 4
                              /\ cur_video_len' = (cur_video_len
                                     + chunk[i + 1] * Weight[4 - len_byte_cnt]) % WORD
                              /\ len_byte_cnt' = len_byte_cnt + 1
                              /\ state' = IF len_byte_cnt' >= 4 THEN 5 ELSE 4
                              /\ Consume(1)
                              /\ UNCHANGED cur_video_ch /\ ParseUnchanged

TakeLengthByte == /\ rPc = "parse" /\ state = 4
                  /\ cur_video_len' = (cur_video_len
                         + chunk[i + 1] * Weight[len_byte_cnt + 1]) % WORD
                  /\ len_byte_cnt' = len_byte_cnt + 1
                  /\ state' = IF len_byte_cnt' >= 4 THEN 5 ELSE 4
                  /\ Consume(1)
                  /\ UNCHANGED cur_video_ch /\ ParseUnchanged

(* What is left of the payload, as an int: a length of 2^31 and more, as a *)
(* header misread after a cut may hold, is a negative one.                 *)
leave_len == LET left == (cur_video_len - cur_send_video_len) % WORD
             IN IF 2 * left < WORD THEN left ELSE left - WORD

PieceLenSigned == IF i + leave_len <= Len(chunk) THEN leave_len ELSE Len(chunk) - i

(* The sum is compared with the chunk's length as an unsigned number: it   *)
(* does not pass the test when it is negative.  It passes with a negative  *)
(* leave_len when it is not: the parser then goes back in the chunk.       *)
PieceLen == IF i + leave_len \in 0 .. Len(chunk) THEN leave_len ELSE Len(chunk) - i

BeginPayloadSameNumber == /\ rPc = "parse" /\ state = 5
                          /\ msg_len' = PieceLen
                          /\ IF usb_plug_flag[cur_video_ch] = 1
                             THEN /\ enabled' = [enabled EXCEPT ![cur_video_ch] = TRUE]
                                  /\ rPc' = "clear"
                             ELSE rPc' = "transfer" /\ UNCHANGED enabled
                          /\ UNCHANGED <<hostVars, parserVars, chunk, i, usb_plug_flag,
                                         eventVars, history>>

BeginPayload == /\ rPc = "parse" /\ state = 5
                /\ msg_len' = PieceLen
                /\ IF usb_plug_flag[cur_video_ch] = 1
                   THEN /\ enabled' = [enabled EXCEPT ![usb_sram_revert(cur_video_ch)] = TRUE]
                        /\ rPc' = "clear"
                   ELSE rPc' = "transfer" /\ UNCHANGED enabled
                /\ UNCHANGED <<hostVars, parserVars, chunk, i, usb_plug_flag, eventVars, history>>

ClearFlag == /\ rPc = "clear"
             /\ usb_plug_flag' = [usb_plug_flag EXCEPT ![cur_video_ch] = 0]
             /\ rPc' = "transfer"
             /\ UNCHANGED <<hostVars, parserVars, chunk, i, msg_len, enabled, eventVars, history>>

(* The payload goes to the SRAM channel, which takes it when it is enabled. *)
(* wrong: it is not what the host sent next to that channel, or its length *)
(* is negative.  lost: the cable was pulled meanwhile, and the payload     *)
(* goes nowhere.                                                           *)
HandOver == LET msg == SubSeq(chunk, i + 1, i + msg_len)
                due == owed[cur_video_ch]
                fits == msg_len \in 0 .. Len(due) /\ msg = SubSeq(due, 1, msg_len)
            IN /\ owed' = [owed EXCEPT ![cur_video_ch] =
                              IF fits THEN SubSeq(@, msg_len + 1, Len(@)) ELSE @]
               /\ wrong' = (wrong \/ ~fits)
               /\ lost' = (lost \/ usb_plug_flag[cur_video_ch] = 1
                                \/ ~enabled[usb_sram_revert(cur_video_ch)])

Transfer == /\ rPc = "transfer"
            /\ HandOver
            /\ Consume(msg_len)
            /\ LET sent == (cur_send_video_len + msg_len) % WORD
               IN IF sent = cur_video_len
                  THEN state' = 0 /\ cur_send_video_len' = 0
                  ELSE cur_send_video_len' = sent /\ UNCHANGED state
            /\ UNCHANGED <<hostVars, header, chunk, msg_len, plugVars, eventVars, cut, overtaken>>
-------------------------------------------------------------------------------
(* usb_plug_out_callback *)

Disable(c) == /\ enabled' = [enabled EXCEPT ![c] = FALSE]
              /\ UNCHANGED <<hostVars, parserVars, callVars, usb_plug_flag, history>>

PlugOut == /\ pending /\ ePc = "idle"
           /\ pending' = FALSE
           /\ Disable(0)
           /\ ePc' = "disable1"

DisableOther == /\ ePc = "disable1"
                /\ Disable(1)
                /\ ePc' = "flag0"
                /\ UNCHANGED pending

(* overtaken: the parser has enabled the channel, and is about to clear    *)
(* the flag that is set here.                                              *)
SetFlag(ch) == /\ usb_plug_flag' = [usb_plug_flag EXCEPT ![ch] = 1]
               /\ overtaken' = [overtaken EXCEPT ![ch] =
                      @ \/ (rPc = "clear" /\ cur_video_ch = ch)]
               /\ UNCHANGED <<hostVars, parserVars, callVars, enabled, pending,
                              owed, cut, lost, wrong>>

SetFlag0 == ePc = "flag0" /\ SetFlag(0) /\ ePc' = "flag1"

SetFlag1Not == ePc = "flag1" /\ SetFlag(0) /\ ePc' = "idle"

SetFlag1 == ePc = "flag1" /\ SetFlag(1) /\ ePc' = "idle"
-------------------------------------------------------------------------------
Host == \/ \E ch \in Channels, p \in Payloads : SendFrame(ch, p)
        \/ \E j \in Junk : SendJunk(j)
        \/ PullCable

Receive == \/ \E n \in ChunkLens : Arrive(n)
           \/ MatchMarker \/ SkipByte \/ RestartHunt \/ TakeChannel \/ TakeLengthByte
           \/ BeginPayload \/ ClearFlag \/ Transfer

Event == PlugOut \/ DisableOther \/ SetFlag0 \/ SetFlag1

Next == Host \/ Receive \/ Event

Spec == Init /\ [][Next]_vars

(* What is on the cable arrives, the parser's call runs to its end, and so *)
(* does the event's callback; the host need not send, and the cable need   *)
(* not be pulled.                                                          *)
FairSpec == Spec /\ WF_vars(Receive) /\ WF_vars(Event)
-------------------------------------------------------------------------------
TypeOK == /\ state \in 0 .. 5
          /\ cur_video_ch \in Byte /\ (state \in {4, 5} => cur_video_ch \in Channels)
          /\ cur_video_len \in 0 .. WORD - 1 /\ cur_send_video_len \in 0 .. cur_video_len
          /\ len_byte_cnt \in 0 .. 4
          /\ rPc \in {"idle", "parse", "clear", "transfer"}
          /\ i \in 0 .. Len(chunk) /\ msg_len \in Int
          /\ rPc \in {"clear", "transfer"} => i + msg_len \in 0 .. Len(chunk)
          /\ rPc = "parse" => i < Len(chunk)
          /\ usb_plug_flag \in [Channels -> {0, 1}]
          /\ enabled \in [Channels -> BOOLEAN]
          /\ ePc \in {"idle", "disable1", "flag0", "flag1"}

(* However the stream is cut into chunks and whatever stands between two   *)
(* frames (a part of a marker included), each piece handed to a channel is *)
(* what the host sent next to that channel; a cable pulled between two     *)
(* frames, or as far as the channel of a header, does not change that for  *)
(* the next host.                                                          *)
InStep == ~cut => ~wrong

(* As long as no cable is pulled, no piece goes to a channel that is off.  *)
ReachesChannel == plugOuts = 0 => ~lost

(* Every payload byte the host sends is handed over in the end: the        *)
(* parser's loop, which on a mismatch goes round without consuming a byte, *)
(* ends for every chunk, and it misses no frame.                           *)
AllHandedOver ==
    \A ch \in Channels : owed[ch] # <<>> ~> owed[ch] = <<>> \/ cut

(* A channel whose flag says that it has been enabled is enabled, and      *)
(* video flows, also for a new host after the cable was pulled; except     *)
(* while the callback runs, and after it ran between the parser's enabling *)
(* of that very channel and the clearing of the flag.                      *)
EnabledUnlessOvertaken ==
    ePc = "idle" => \A ch \in Channels :
        usb_plug_flag[ch] = 0 => enabled[usb_sram_revert(ch)] \/ overtaken[ch]
===============================================================================
