--------------------------- MODULE VideoDemuxProofs ---------------------------
(***************************************************************************)
(* Proofs about VideoDemux for every set of payloads whose length fits     *)
(* into an int, all junk that contains and completes no header, every      *)
(* length of the chunks and any number of frames and of pulled cables:     *)
(* types (TypeInv), the switching of the channels (SwitchInv, ReachInv),   *)
(* and the parser's place in the stream (StreamInv).                       *)
(***************************************************************************)
EXTENDS VideoDemux, SequenceTheorems, TLAPS

(* What TypeOK needs to be inductive: how the place in the chunk, the      *)
(* place in the frame and the parser's state go together.                  *)
HostT == wire \in Seq(Byte) /\ owed \in [Channels -> Seq(Byte)] /\ plugOuts \in Nat

ParserT == /\ state \in 0 .. 5
           /\ cur_video_ch \in Byte /\ (state \in {4, 5} => cur_video_ch \in Channels)
           /\ cur_video_len \in 0 .. WORD - 1 /\ cur_send_video_len \in 0 .. cur_video_len
           /\ len_byte_cnt \in 0 .. 4
           /\ state # 5 => cur_send_video_len = 0
           /\ state = 4 => len_byte_cnt <= 3

(* A piece is what is left of the payload or less; or it is what is left   *)
(* as a negative int.                                                      *)
Piece(n) == \/ n \in 0 .. cur_video_len - cur_send_video_len
            \/ n = cur_video_len - cur_send_video_len - WORD

CallT == /\ rPc \in {"idle", "parse", "clear", "transfer"}
         /\ chunk \in Seq(Byte) /\ i \in 0 .. Len(chunk) /\ msg_len \in Int
         /\ 2 * Len(chunk) < WORD
         /\ rPc = "parse" => i < Len(chunk)
         /\ rPc = "idle" => i = Len(chunk)
         /\ rPc \in {"clear", "transfer"} =>
                /\ state = 5
                /\ i + msg_len \in 0 .. Len(chunk)
                /\ Piece(msg_len)

PlugT == /\ usb_plug_flag \in [Channels -> {0, 1}]
         /\ enabled \in [Channels -> BOOLEAN]
         /\ overtaken \in [Channels -> BOOLEAN]
         /\ ePc \in {"idle", "disable1", "flag0", "flag1"}

TypeInv == HostT /\ ParserT /\ CallT /\ PlugT

(* The plug flag of a channel is clear, or about to be cleared. *)
Switched(ch) == usb_plug_flag[ch] = 0 \/ (rPc = "clear" /\ cur_video_ch = ch)

(* A channel whose flag is clear is enabled, once the callback has set the *)
(* flag again.                                                             *)
SwitchInv == /\ ePc = "idle" => \A ch \in Channels :
                    Switched(ch) => enabled[usb_sram_revert(ch)] \/ overtaken[ch]
             /\ ePc = "flag1" => (Switched(0) => enabled[usb_sram_revert(0)] \/ overtaken[0])

(* As long as no cable was pulled there is no callback at all. *)
ReachInv == plugOuts = 0 =>
                /\ ~pending /\ ePc = "idle" /\ ~lost
                /\ \A ch \in Channels : Switched(ch) => enabled[usb_sram_revert(ch)]
                /\ rPc = "transfer" => usb_plug_flag[cur_video_ch] = 0
-------------------------------------------------------------------------------
(* Bytes and words, without the numbers they are written with. *)
LEMMA Words == /\ {0, 1, 18, 52, 86} \subseteq Byte /\ Byte \subseteq Nat
               /\ Byte = 0 .. B - 1 /\ B \in Nat \ {0} /\ WORD = B * B * B * B /\ WORD \in Nat /\ WORD > 2
               /\ Weight[1] = B * B * B /\ Weight[2] = B * B /\ Weight[3] = B /\ Weight[4] = 1
               /\ \A k \in 1 .. 4 : Weight[k] \in Nat
<1>1. UINT8_MAX \in Nat /\ UINT8_MAX >= 86
  BY ONLY StreamAssumption DEF StreamAssumption
<1>2. {0, 1, 18, 52, 86} \subseteq Byte /\ Byte \subseteq Nat
  BY ONLY <1>1 DEF Byte
<1>3. B \in Nat \ {0} /\ B >= 87 /\ Byte = 0 .. B - 1
  BY ONLY <1>1 DEF Byte, B
<1>4. B * B \in Nat /\ B * B * B \in Nat /\ B * B * B * B \in Nat
  BY ONLY <1>3
<1>5. B * B * B * B >= B
  <2>1. B * B >= B /\ B * B \in Nat
    BY ONLY <1>3
  <2>2. B * B * B >= B * B /\ B * B * B \in Nat
    BY ONLY <1>3, <2>1
  <2>3. B * B * B * B >= B * B * B
    BY ONLY <1>3, <2>2
  <2> QED BY ONLY <1>3, <1>4, <2>1, <2>2, <2>3
<1>6. WORD = B * B * B * B /\ WORD \in Nat /\ WORD > 2
  <2>1. WORD = B * B * B * B
    BY DEF WORD
  <2> QED BY ONLY <1>3, <1>4, <1>5, <2>1
<1>7. Weight[1] = B * B * B /\ Weight[2] = B * B /\ Weight[3] = B /\ Weight[4] = 1
  BY DEF Weight
<1>8. \A k \in 1 .. 4 : Weight[k] \in Nat
  BY ONLY <1>3, <1>4, <1>7
<1> QED BY ONLY <1>2, <1>3, <1>6, <1>7, <1>8

(* What the host sends is bytes. *)
LEMMA Sent ==
    /\ \A p \in Payloads : p \in Seq(Byte) /\ Len(p) \in Nat /\ 2 * Len(p) < WORD
    /\ \A j \in Junk : j \in Seq(Byte)
<1>1. ASSUME NEW p \in Payloads PROVE p \in Seq(Byte) /\ Len(p) \in Nat /\ 2 * Len(p) < WORD
  <2>1. p \in Seq(Byte) /\ 2 * Len(p) < WORD
    BY ONLY StreamAssumption DEF StreamAssumption
  <2>2. Len(p) \in Nat
    BY ONLY <2>1
  <2> QED BY ONLY <2>1, <2>2
<1>2. ASSUME NEW j \in Junk PROVE j \in Seq(Byte)
  BY ONLY StreamAssumption DEF StreamAssumption
<1> QED BY <1>1, <1>2

(* The four bytes of a length, the most significant one first. *)
LEMMA Digits ==
    ASSUME NEW n \in Nat, n < WORD
    PROVE  /\ LengthBytes(n) \in Seq(Byte) /\ Len(LengthBytes(n)) = 4
           /\ LengthBytes(n)[1] * Weight[1] + LengthBytes(n)[2] * Weight[2]
                  + LengthBytes(n)[3] * Weight[3] + LengthBytes(n)[4] * Weight[4] = n
<1> DEFINE n1 == n \div B
           n2 == n1 \div B
           n3 == n2 \div B
           r0 == n % B
           r1 == n1 % B
           r2 == n2 % B
<1>0. B \in Nat \ {0} /\ Byte = 0 .. B - 1 /\ WORD = B * B * B * B
  BY Words
<1>1. n1 \in Nat /\ r0 \in 0 .. B - 1 /\ n = n1 * B + r0
  BY ONLY <1>0, n \in Nat
<1>2. LengthBytes(n) = <<n3, r2, r1, r0>>
  BY DEF LengthBytes
<1> HIDE DEF n1, r0
<1>3. n2 \in Nat /\ r1 \in 0 .. B - 1 /\ n1 = n2 * B + r1
  BY ONLY <1>0, <1>1
<1> HIDE DEF n2, r1
<1>4. n3 \in Nat /\ r2 \in 0 .. B - 1 /\ n2 = n3 * B + r2
  BY ONLY <1>0, <1>3
<1> HIDE DEF n3, r2
<1>5. n1 = n3 * (B * B) + r2 * B + r1
  <2>1. n2 * B = n3 * (B * B) + r2 * B
    BY ONLY <1>0, <1>4
  <2> QED BY ONLY <1>0, <1>3, <1>4, <2>1
<1>6. n = n3 * (B * B * B) + r2 * (B * B) + r1 * B + r0
  <2>1. n1 * B = n3 * (B * B * B) + r2 * (B * B) + r1 * B
    BY ONLY <1>0, <1>3, <1>4, <1>5
  <2> QED BY ONLY <1>0, <1>1, <1>3, <1>4, <2>1
<1>7. n3 \in 0 .. B - 1
  <2> DEFINE cube == B * B * B
  <2>1. cube \in Nat /\ cube > 0 /\ cube * B = WORD
    BY ONLY <1>0
  <2>2. n3 * cube <= n
    <3>1. r2 * (B * B) \in Nat /\ r1 * B \in Nat /\ r0 \in Nat /\ n3 * cube \in Nat
      BY ONLY <1>0, <1>1, <1>3, <1>4
    <3> QED BY ONLY <1>6, <3>1
  <2> HIDE DEF cube
  <2>3. ASSUME n3 >= B PROVE FALSE
    <3>1. n3 * cube >= B * cube
      BY ONLY <1>0, <1>4, <2>1, <2>3
    <3>2. B * cube = WORD /\ n3 * cube \in Nat /\ WORD \in Nat
      BY ONLY <1>0, <1>4, <2>1
    <3> QED BY ONLY <2>2, <3>1, <3>2, n \in Nat, n < WORD
  <2> QED BY ONLY <1>0, <1>4, <2>3
<1>8. n3 \in Byte /\ r2 \in Byte /\ r1 \in Byte /\ r0 \in Byte
  BY ONLY <1>0, <1>1, <1>3, <1>4, <1>7
<1>9. /\ LengthBytes(n) \in Seq(Byte) /\ Len(LengthBytes(n)) = 4
      /\ LengthBytes(n)[1] = n3 /\ LengthBytes(n)[2] = r2
      /\ LengthBytes(n)[3] = r1 /\ LengthBytes(n)[4] = r0
  BY ONLY <1>2, <1>8
<1>10. n3 * Weight[1] + r2 * Weight[2] + r1 * Weight[3] + r0 * Weight[4] = n
  <2>1. Weight[1] = B * B * B /\ Weight[2] = B * B /\ Weight[3] = B /\ Weight[4] = 1
    BY Words
  <2>2. r0 * 1 = r0
    BY ONLY <1>1
  <2> QED BY ONLY <1>6, <2>1, <2>2
<1> QED BY ONLY <1>9, <1>10

LEMMA Initially == Init => TypeInv /\ SwitchInv /\ ReachInv
<1> SUFFICES ASSUME Init PROVE TypeInv /\ SwitchInv /\ ReachInv
  OBVIOUS
<1> USE DEF Init
<1>1. TypeInv
  <2>1. HostT
    BY DEF HostT
  <2>2. ParserT
    <3>1. 0 \in Byte /\ 0 \in 0 .. WORD - 1
      BY ONLY Words
    <3> QED BY <3>1 DEF ParserT, Channels
  <2>3. CallT
    <3>1. 2 * 0 < WORD
      BY ONLY Words
    <3> QED BY <3>1 DEF CallT
  <2>4. PlugT
    BY DEF PlugT
  <2> QED BY <2>1, <2>2, <2>3, <2>4 DEF TypeInv
<1>2. SwitchInv /\ ReachInv
  BY DEF SwitchInv, ReachInv, Switched, Channels
<1> QED BY <1>1, <1>2

(* What the host puts on the cable is bytes. *)
LEMMA HostTyped ==
    ASSUME HostT, Host
    PROVE  HostT' /\ UNCHANGED <<parserVars, callVars, plugVars, ePc, lost, wrong, overtaken>>
<1> USE DEF HostT
<1>1. ASSUME NEW ch \in Channels, NEW p \in Payloads, SendFrame(ch, p) PROVE HostT'
  <2> DEFINE l == LengthBytes(Len(p))
  <2>1. p \in Seq(Byte) /\ l \in Seq(Byte)
    <3>1. p \in Seq(Byte) /\ Len(p) \in Nat /\ Len(p) < WORD
      BY ONLY Sent, Words, p \in Payloads
    <3> QED BY <3>1, Digits
  <2>2. Marker \in Seq(Byte) /\ <<ch>> \in Seq(Byte)
    <3>1. ch \in Byte /\ 18 \in Byte /\ 52 \in Byte /\ 86 \in Byte
      BY Words DEF Channels
    <3> QED BY ONLY <3>1 DEF Marker
  <2> HIDE DEF l
  <2>3. /\ wire' = wire \o (Marker \o <<ch>> \o l \o p)
        /\ owed' = [owed EXCEPT ![ch] = @ \o p]
        /\ plugOuts' = plugOuts
    BY <1>1 DEF SendFrame, Send, l
  <2>4. Marker \o <<ch>> \o l \o p \in Seq(Byte)
    BY ONLY <2>1, <2>2, ConcatProperties
  <2>5. wire \o (Marker \o <<ch>> \o l \o p) \in Seq(Byte)
    BY ONLY <2>4, HostT, ConcatProperties DEF HostT
  <2>6. owed[ch] \o p \in Seq(Byte)
    BY ONLY <2>1, HostT, ConcatProperties DEF HostT
  <2> QED BY ONLY <2>3, <2>5, <2>6, HostT DEF HostT
<1>2. ASSUME NEW j \in Junk, SendJunk(j) PROVE HostT'
  <2>1. j \in Seq(Byte)
    BY Sent
  <2> QED BY <1>2, <2>1, ConcatProperties DEF SendJunk, Send
<1>3. ASSUME PullCable PROVE HostT'
  <2>1. wire' = <<>> /\ owed' = [ch \in Channels |-> <<>>] /\ plugOuts' = plugOuts + 1
    BY <1>3 DEF PullCable
  <2> QED BY ONLY <2>1, HostT DEF HostT
<1>4. UNCHANGED <<parserVars, callVars, plugVars, ePc, lost, wrong, overtaken>>
  BY Host, Zenon DEF Host, SendFrame, SendJunk, Send, PullCable, eventVars
<1> QED BY <1>1, <1>2, <1>3, <1>4 DEF Host

(* A chunk is cut off the front of what is on the cable. *)
LEMMA Cutting ==
    ASSUME HostT, NEW n \in ChunkLens, Arrive(n)
    PROVE  /\ chunk' \in Seq(Byte) /\ wire' \in Seq(Byte) /\ Len(chunk') > 0
           /\ Len(chunk') + Len(wire') = Len(wire) /\ 2 * Len(chunk') < WORD
           /\ \A k \in 1 .. Len(chunk') : chunk'[k] = wire[k]
           /\ \A k \in 1 .. Len(wire') : wire'[k] = wire[Len(chunk') + k]
<1> DEFINE len == IF n <= Len(wire) THEN n ELSE Len(wire)
<1>1. chunk' = SubSeq(wire, 1, len) /\ wire' = SubSeq(wire, len + 1, Len(wire))
  BY DEF Arrive
<1>2. len \in 1 .. Len(wire) /\ 2 * len < WORD /\ wire \in Seq(Byte) /\ Len(wire) \in Nat
  <2>1. n \in Nat \ {0} /\ 2 * n < WORD
    BY ONLY StreamAssumption, n \in ChunkLens DEF StreamAssumption
  <2>2. wire \in Seq(Byte) /\ wire # <<>> /\ WORD \in Nat
    BY Words DEF HostT, Arrive
  <2>3. Len(wire) \in Nat /\ Len(wire) > 0
    BY ONLY <2>2
  <2> QED BY ONLY <2>1, <2>2, <2>3
<1> HIDE DEF len
<1>3. /\ chunk' \in Seq(Byte) /\ wire' \in Seq(Byte) /\ Len(chunk') = len
      /\ Len(chunk') + Len(wire') = Len(wire)
      /\ \A k \in 1 .. Len(chunk') : chunk'[k] = wire[k]
      /\ \A k \in 1 .. Len(wire') : wire'[k] = wire[Len(chunk') + k]
  <2>1. len \in 1 .. Len(wire) /\ wire \in Seq(Byte) /\ Len(wire) \in Nat
    BY <1>2
  <2> QED BY ONLY <1>1, <2>1
<1> QED BY ONLY <1>2, <1>3

(* Where the parser goes on in the chunk. *)
LEMMA Consumed ==
    ASSUME CallT, NEW n \in Int, i + n \in 0 .. Len(chunk), Consume(n), chunk' = chunk
    PROVE  /\ i' = i + n /\ i' \in 0 .. Len(chunk')
           /\ rPc' \in {"parse", "idle"}
           /\ rPc' = "parse" => i' < Len(chunk')
           /\ rPc' = "idle" => i' = Len(chunk')
<1>1. i \in Nat /\ Len(chunk) \in Nat
  BY DEF CallT
<1>2. i' = i + n /\ rPc' = IF i + n < Len(chunk) THEN "parse" ELSE "idle"
  BY DEF Consume
<1>3. Len(chunk') = Len(chunk)
  OBVIOUS
<1>4. CASE i + n < Len(chunk)
  BY ONLY <1>1, <1>2, <1>3, <1>4, n \in Int, i + n \in 0 .. Len(chunk)
<1>5. CASE ~(i + n < Len(chunk))
  <2>1. i + n = Len(chunk)
    BY ONLY <1>1, <1>5, n \in Int, i + n \in 0 .. Len(chunk)
  <2> QED BY ONLY <1>1, <1>2, <1>3, <1>5, <2>1, n \in Int, i + n \in 0 .. Len(chunk)
<1> QED BY <1>4, <1>5

(* The length of the next piece, whatever the length of the payload. *)
LEMMA PieceTyped ==
    ASSUME ParserT, CallT
    PROVE  PieceLen \in Int /\ i + PieceLen \in 0 .. Len(chunk) /\ Piece(PieceLen)
<1> DEFINE total == cur_video_len
           sent == cur_send_video_len
           size == Len(chunk)
           left == (total - sent) % WORD
<1>0. WORD \in Nat \ {0}
  BY ONLY Words
<1>1. /\ total \in 0 .. WORD - 1 /\ sent \in 0 .. total
      /\ i \in 0 .. size /\ size \in Nat /\ 2 * size < WORD
  BY DEF ParserT, CallT
<1>2. left = total - sent /\ left \in 0 .. WORD - 1
  <2>1. total - sent \in 0 .. WORD - 1
    BY ONLY <1>0, <1>1
  <2> DEFINE x == total - sent
  <2>2. x \in 0 .. WORD - 1
    BY <2>1
  <2> HIDE DEF x
  <2>3. x % WORD = x
    BY ONLY <1>0, <2>2
  <2>4. left = x % WORD
    BY DEF x
  <2> QED BY <2>2, <2>3, <2>4 DEF x
<1>3. leave_len = IF 2 * left < WORD THEN left ELSE left - WORD
  BY DEF leave_len
<1>4. PieceLen = IF i + leave_len \in 0 .. size THEN leave_len ELSE size - i
  BY DEF PieceLen
<1>5. SUFFICES PieceLen \in Int /\ i + PieceLen \in 0 .. size
               /\ (PieceLen \in 0 .. total - sent \/ PieceLen = total - sent - WORD)
  BY DEF Piece
<1> HIDE DEF total, sent, size, left
<1>6. CASE 2 * left < WORD
  <2>1. leave_len = left
    BY ONLY <1>3, <1>6
  <2> QED BY ONLY <1>0, <1>1, <1>2, <1>4, <1>6, <2>1
<1>7. CASE ~(2 * left < WORD)
  <2>1. leave_len = left - WORD
    BY ONLY <1>3, <1>7
  <2> QED BY ONLY <1>0, <1>1, <1>2, <1>4, <1>7, <2>1
<1> QED BY ONLY <1>6, <1>7

(* How much of the payload has been sent, after a piece. *)
LEMMA SentOn ==
    ASSUME ParserT, Piece(msg_len)
    PROVE  /\ (cur_send_video_len + msg_len) % WORD \in 0 .. cur_video_len
           /\ msg_len \in Nat => (cur_send_video_len + msg_len) % WORD = cur_send_video_len + msg_len
<1> DEFINE total == cur_video_len
           sent == cur_send_video_len
           x == sent + msg_len
<1>0. WORD \in Nat \ {0}
  BY ONLY Words
<1>1. total \in 0 .. WORD - 1 /\ sent \in 0 .. total
  BY DEF ParserT
<1>2. msg_len \in 0 .. total - sent \/ msg_len = total - sent - WORD
  BY DEF Piece
<1>3. CASE msg_len \in 0 .. total - sent
  <2>1. x \in 0 .. total /\ x \in 0 .. WORD - 1
    <3> HIDE DEF total, sent
    <3> QED BY ONLY <1>0, <1>1, <1>3
  <2> HIDE DEF x
  <2>2. x % WORD = x
    BY ONLY <1>0, <2>1
  <2> QED BY <2>1, <2>2 DEF x
<1>4. CASE msg_len = total - sent - WORD
  <2>1. x = total - WORD /\ msg_len \notin Nat
    <3> HIDE DEF total, sent
    <3> QED BY ONLY <1>0, <1>1, <1>4
  <2> HIDE DEF x, total
  <2>2. x = (-1) * WORD + total /\ total \in 0 .. WORD - 1 /\ x \in Int
    BY ONLY <1>0, <1>1, <2>1
  <2>3. x % WORD = total
    BY ONLY <1>0, <2>2
  <2>4. total \in 0 .. total
    BY ONLY <1>0, <2>2
  <2> QED BY <2>1, <2>3, <2>4 DEF x, total
<1> QED BY ONLY <1>2, <1>3, <1>4

(* What the parser's steps do to the host's part and to the switching.     *)
LEMMA ParserLeaves ==
    ASSUME HostT, PlugT, ParserT, CallT, Receive,
           \A n \in ChunkLens : ~Arrive(n)
    PROVE  HostT' /\ PlugT'
<1> USE DEF HostT, PlugT
<1>1. ASSUME MatchMarker \/ SkipByte \/ RestartHunt \/ TakeChannel \/ TakeLengthByte
      PROVE  HostT' /\ PlugT'
  BY <1>1 DEF MatchMarker, SkipByte, RestartHunt, TakeChannel, TakeLengthByte, ParseUnchanged,
              hostVars, plugVars, eventVars, history
<1>2. CASE BeginPayload
  <2>1. usb_sram_revert(cur_video_ch) \in Channels
    BY <1>2 DEF BeginPayload, ParserT, Channels, usb_sram_revert
  <2> QED BY <1>2, <2>1 DEF BeginPayload, hostVars, eventVars, history
<1>3. CASE ClearFlag
  BY <1>3 DEF ClearFlag, hostVars, eventVars, history
<1>4. CASE Transfer
  <2>1. owed' \in [Channels -> Seq(Byte)]
    <3>1. PICK fits \in BOOLEAN :
              /\ fits => msg_len \in 0 .. Len(owed[cur_video_ch])
              /\ owed' = [owed EXCEPT ![cur_video_ch] =
                               IF fits THEN SubSeq(@, msg_len + 1, Len(@)) ELSE @]
      BY <1>4 DEF Transfer, HandOver
    <3>2. CASE ~fits
      BY ONLY HostT, <3>1, <3>2 DEF HostT
    <3>3. CASE fits
      <4>1. cur_video_ch \in Channels
        BY <1>4 DEF Transfer, CallT, ParserT
      <4>2. msg_len \in Nat
        BY ONLY HostT, <3>1, <3>3, <4>1 DEF HostT
      <4>3. \A s \in Seq(Byte) : SubSeq(s, msg_len + 1, Len(s)) \in Seq(Byte)
        BY ONLY <4>2
      <4> QED BY ONLY HostT, <3>1, <3>3, <4>3 DEF HostT
    <3> QED BY ONLY <3>2, <3>3
  <2> QED BY <1>4, <2>1 DEF Transfer, hostVars, plugVars, eventVars
<1> QED BY <1>1, <1>2, <1>3, <1>4 DEF Receive

LEMMA TypeInductive == ASSUME TypeInv, [Next]_vars PROVE TypeInv'
<1>0. HostT /\ ParserT /\ CallT /\ PlugT
  BY DEF TypeInv
<1>00. rPc = "parse" => /\ i + 1 \in 0 .. Len(chunk) /\ i + 0 \in 0 .. Len(chunk)
                        /\ i \in Nat /\ chunk[i + 1] \in Byte
  BY <1>0 DEF CallT
<1>000. WORD \in Nat /\ WORD > 2
  BY ONLY Words
<1>1. CASE Host
  <2>1. HostT' /\ UNCHANGED <<parserVars, callVars, plugVars, ePc, lost, wrong, overtaken>>
    BY <1>0, <1>1, HostTyped
  <2> QED BY ONLY <1>0, <2>1
         DEF TypeInv, ParserT, CallT, Piece, PlugT, parserVars, header, callVars, plugVars
<1>2. ASSUME NEW n \in ChunkLens, Arrive(n) PROVE TypeInv'
  <2>1. HostT' /\ PlugT' /\ ParserT'
    BY <1>0, <1>2, Cutting
       DEF Arrive, HostT, ParserT, PlugT, parserVars, header, plugVars, eventVars, history
  <2>2. CallT'
    <3>1. chunk' \in Seq(Byte) /\ Len(chunk') > 0 /\ 2 * Len(chunk') < WORD
      BY <1>0, <1>2, Cutting
    <3>2. i' = 0 /\ rPc' = "parse" /\ msg_len' = msg_len
      BY <1>2 DEF Arrive
    <3> QED BY ONLY <1>0, <3>1, <3>2 DEF CallT
  <2> QED BY <2>1, <2>2 DEF TypeInv
<1>3. ASSUME Receive, \A n \in ChunkLens : ~Arrive(n) PROVE TypeInv'
  <2>0. HostT' /\ PlugT'
    BY <1>0, <1>3, ParserLeaves
  <2>1. CASE MatchMarker \/ SkipByte \/ RestartHunt
    <3>1. ParserT' /\ CallT'
      <4>1. /\ rPc = "parse" /\ chunk' = chunk /\ msg_len' = msg_len /\ state' \in 0 .. 3
            /\ UNCHANGED <<cur_video_ch, cur_video_len, len_byte_cnt, cur_send_video_len>> /\ state # 5
            /\ Consume(1) \/ Consume(0)
        BY <1>0, <2>1
           DEF MatchMarker, SkipByte, RestartHunt, ParseUnchanged, ParserT, header
      <4>2. /\ i' \in 0 .. Len(chunk') /\ rPc' \in {"parse", "idle"}
            /\ rPc' = "parse" => i' < Len(chunk')
            /\ rPc' = "idle" => i' = Len(chunk')
        <5>1. CASE Consume(1)
          BY ONLY <1>0, <1>00, <4>1, <5>1, Consumed
        <5>2. CASE Consume(0)
          BY ONLY <1>0, <1>00, <4>1, <5>2, Consumed
        <5> QED BY ONLY <4>1, <5>1, <5>2
      <4>3. ParserT'
        BY ONLY <1>0, <4>1 DEF ParserT
      <4>4. CallT'
        BY ONLY <1>0, <4>1, <4>2 DEF CallT
      <4> QED BY ONLY <4>3, <4>4
    <3> QED BY <2>0, <3>1 DEF TypeInv
  <2>2. CASE TakeChannel
    <3>1. ParserT' /\ CallT'
      BY <1>0, <1>00, <1>000, <2>2, Consumed DEF TakeChannel, ParseUnchanged, ParserT, CallT
    <3> QED BY <2>0, <3>1 DEF TypeInv
  <2>3. CASE TakeLengthByte
    <3>1. cur_video_len' \in 0 .. WORD - 1 /\ cur_send_video_len = 0
      <4> DEFINE x == cur_video_len + chunk[i + 1] * Weight[len_byte_cnt + 1]
      <4>1. /\ rPc = "parse" /\ state = 4 /\ cur_video_len' = x % WORD
            /\ len_byte_cnt + 1 \in 1 .. 4 /\ cur_video_len \in Nat /\ cur_send_video_len = 0
        BY <1>0, <1>000, <2>3 DEF TakeLengthByte, ParserT
      <4>2. chunk[i + 1] \in Nat /\ Weight[len_byte_cnt + 1] \in Nat
        BY ONLY <1>00, <4>1, Words
      <4>3. x \in Nat
        BY ONLY <4>1, <4>2
      <4> HIDE DEF x
      <4>4. x % WORD \in 0 .. WORD - 1
        BY ONLY <1>000, <4>3
      <4> QED BY ONLY <4>1, <4>4
    <3>2. ParserT' /\ CallT'
      BY <1>0, <1>00, <2>3, <3>1, Consumed DEF TakeLengthByte, ParseUnchanged, ParserT, CallT
    <3> QED BY <2>0, <3>2 DEF TypeInv
  <2>4. CASE BeginPayload
    <3>1. ParserT' /\ CallT'
      BY <1>0, <1>00, <2>4, PieceTyped DEF BeginPayload, parserVars, header, ParserT, CallT, Piece
    <3> QED BY <2>0, <3>1 DEF TypeInv
  <2>5. CASE ClearFlag
    <3>1. ParserT' /\ CallT'
      BY <1>0, <2>5 DEF ClearFlag, parserVars, header, ParserT, CallT, Piece
    <3> QED BY <2>0, <3>1 DEF TypeInv
  <2>6. CASE Transfer
    <3>1. i + msg_len \in 0 .. Len(chunk) /\ msg_len \in Int /\ state = 5 /\ Piece(msg_len)
      BY <1>0, <2>6 DEF Transfer, CallT
    <3>2. ParserT'
      <4> DEFINE sent == (cur_send_video_len + msg_len) % WORD
      <4>1. sent \in 0 .. cur_video_len
        BY ONLY <1>0, <3>1, SentOn
      <4>2. /\ UNCHANGED <<cur_video_ch, cur_video_len, len_byte_cnt>>
            /\ \/ state' = 0 /\ cur_send_video_len' = 0
               \/ state' = 5 /\ cur_send_video_len' = sent
        BY <2>6, <3>1 DEF Transfer, header
      <4> HIDE DEF sent
      <4> QED BY ONLY <1>0, <1>000, <3>1, <4>1, <4>2 DEF ParserT
    <3>3. CallT'
      BY <1>0, <2>6, <3>1, Consumed DEF Transfer, CallT
    <3> QED BY <2>0, <3>2, <3>3 DEF TypeInv
  <2> QED BY <1>3, <2>1, <2>2, <2>3, <2>4, <2>5, <2>6 DEF Receive
<1>4. CASE Event
  <2>1. HostT' /\ ParserT' /\ CallT'
    <3>1. UNCHANGED <<hostVars, parserVars, callVars, owed>>
      BY <1>4, Zenon DEF Event, PlugOut, DisableOther, Disable, SetFlag0, SetFlag1, SetFlag, history
    <3>2. /\ UNCHANGED <<wire, owed, plugOuts>>
          /\ UNCHANGED <<state, cur_video_ch, cur_video_len, len_byte_cnt, cur_send_video_len>>
          /\ UNCHANGED <<rPc, chunk, i, msg_len>>
      BY ONLY <3>1 DEF hostVars, parserVars, header, callVars
    <3>3. HostT'
      BY ONLY <1>0, <3>2 DEF HostT
    <3>4. ParserT'
      BY ONLY <1>0, <3>2 DEF ParserT
    <3>5. CallT'
      BY ONLY <1>0, <3>2 DEF CallT, Piece
    <3> QED BY ONLY <3>3, <3>4, <3>5
  <2>2. PlugT'
    <3>1. ASSUME NEW ch \in Channels, SetFlag(ch) PROVE UNCHANGED enabled
              /\ usb_plug_flag' \in [Channels -> {0, 1}] /\ overtaken' \in [Channels -> BOOLEAN]
      BY <1>0, <3>1 DEF SetFlag, PlugT
    <3>2. CASE PlugOut \/ DisableOther
      BY <1>0, <3>2 DEF PlugOut, DisableOther, Disable, history, PlugT
    <3>3. CASE SetFlag0
      BY ONLY <1>0, <3>1, <3>3 DEF SetFlag0, PlugT, Channels
    <3>4. CASE SetFlag1
      BY ONLY <1>0, <3>1, <3>4 DEF SetFlag1, PlugT, Channels
    <3> QED BY <1>4, <3>2, <3>3, <3>4 DEF Event
  <2> QED BY <2>1, <2>2 DEF TypeInv
<1>5. CASE UNCHANGED vars
  BY <1>0, <1>5 DEF TypeInv, HostT, ParserT, CallT, Piece, PlugT, vars, hostVars, parserVars, header,
                    callVars, plugVars, eventVars, history
<1> QED BY <1>1, <1>2, <1>3, <1>4, <1>5 DEF Next, Receive
-------------------------------------------------------------------------------
(* Steps that leave the channels and the flags alone. *)
LEMMA SwitchFrame ==
    ASSUME SwitchInv, UNCHANGED <<usb_plug_flag, enabled, overtaken, ePc>>,
           rPc' = "clear" => rPc = "clear" /\ cur_video_ch' = cur_video_ch
    PROVE  SwitchInv'
<1>1. \A ch \in Channels : Switched(ch)' => Switched(ch)
  BY DEF Switched
<1> QED BY <1>1 DEF SwitchInv, Channels

LEMMA SwitchInductive == ASSUME TypeInv, SwitchInv, [Next]_vars PROVE SwitchInv'
<1>0. ParserT /\ CallT /\ PlugT
  BY DEF TypeInv
<1>1. CASE Host \/ UNCHANGED vars
  <2>1. UNCHANGED <<usb_plug_flag, enabled, overtaken, ePc, rPc, cur_video_ch>>
    BY <1>1, Zenon DEF Host, SendFrame, SendJunk, Send, PullCable, vars, parserVars, header, callVars,
                       plugVars, eventVars, history
  <2> QED BY <2>1, SwitchFrame
<1>2. ASSUME Receive, ~BeginPayload, ~ClearFlag PROVE SwitchInv'
  <2>1. UNCHANGED <<usb_plug_flag, enabled, overtaken, ePc>> /\ rPc' # "clear"
    BY <1>2 DEF Receive, Arrive, MatchMarker, SkipByte, RestartHunt, TakeChannel, TakeLengthByte,
                Transfer, Consume, ParseUnchanged, plugVars, eventVars, history
  <2> QED BY ONLY <2>1, SwitchInv, SwitchFrame
<1>3. CASE BeginPayload
  <2>1. cur_video_ch \in Channels /\ UNCHANGED <<usb_plug_flag, overtaken, ePc, cur_video_ch>>
    BY <1>0, <1>3 DEF BeginPayload, ParserT, parserVars, header, eventVars, history
  <2>2. CASE usb_plug_flag[cur_video_ch] = 1
    <3>1. enabled' = [enabled EXCEPT ![usb_sram_revert(cur_video_ch)] = TRUE]
      BY <1>3, <2>2 DEF BeginPayload
    <3>2. \A ch \in Channels : Switched(ch)' => Switched(ch) \/ ch = cur_video_ch
      BY <2>1 DEF Switched
    <3>3. \A ch \in Channels : enabled[usb_sram_revert(ch)] => enabled'[usb_sram_revert(ch)]
      BY <1>0, <3>1 DEF PlugT, Channels, usb_sram_revert
    <3>4. enabled'[usb_sram_revert(cur_video_ch)]
      BY <1>0, <2>1, <3>1 DEF PlugT, Channels, usb_sram_revert
    <3> QED BY <2>1, <3>2, <3>3, <3>4 DEF SwitchInv, Channels
  <2>3. CASE usb_plug_flag[cur_video_ch] # 1
    <3>1. UNCHANGED enabled /\ rPc' = "transfer"
      BY <1>3, <2>3 DEF BeginPayload
    <3> QED BY ONLY <2>1, <3>1, SwitchInv, SwitchFrame
  <2> QED BY <2>2, <2>3
<1>4. CASE ClearFlag
  <2>1. /\ rPc = "clear" /\ rPc' = "transfer"
        /\ usb_plug_flag' = [usb_plug_flag EXCEPT ![cur_video_ch] = 0]
        /\ UNCHANGED <<enabled, overtaken, ePc>>
    BY <1>4 DEF ClearFlag, eventVars, history
  <2>2. \A ch \in Channels : Switched(ch)' => Switched(ch)
    BY <1>0, <2>1 DEF Switched, PlugT
  <2> QED BY <2>1, <2>2 DEF SwitchInv, Channels
<1>5. CASE PlugOut \/ DisableOther
  <2>1. ePc' \notin {"idle", "flag1"}
    BY <1>5 DEF PlugOut, DisableOther
  <2> QED BY ONLY <2>1 DEF SwitchInv
<1>6. ASSUME NEW ch \in Channels, SetFlag(ch)
      PROVE  /\ Switched(ch)' => overtaken'[ch]
             /\ \A c \in Channels \ {ch} : /\ Switched(c)' => Switched(c)
                                           /\ overtaken'[c] = overtaken[c]
             /\ enabled' = enabled
  <2>1. /\ usb_plug_flag' = [usb_plug_flag EXCEPT ![ch] = 1]
        /\ overtaken' = [overtaken EXCEPT ![ch] = @ \/ (rPc = "clear" /\ cur_video_ch = ch)]
        /\ UNCHANGED <<rPc, cur_video_ch, enabled>>
    BY <1>6 DEF SetFlag, parserVars, header, callVars
  <2>2. overtaken'[ch] = (overtaken[ch] \/ (rPc = "clear" /\ cur_video_ch = ch))
    BY ONLY <1>0, <2>1, ch \in Channels, Zenon DEF PlugT
  <2>3. usb_plug_flag'[ch] # 0
    BY ONLY <1>0, <2>1, ch \in Channels DEF PlugT
  <2>4. Switched(ch)' => overtaken'[ch]
    BY ONLY <2>1, <2>2, <2>3, Zenon DEF Switched
  <2>5. \A c \in Channels \ {ch} : usb_plug_flag'[c] = usb_plug_flag[c] /\ overtaken'[c] = overtaken[c]
    BY ONLY <1>0, <2>1 DEF PlugT
  <2> QED BY ONLY <2>1, <2>4, <2>5 DEF Switched
<1>7. CASE SetFlag0
  <2>1. SetFlag(0) /\ ePc' = "flag1" /\ 0 \in Channels
    BY <1>7 DEF SetFlag0, Channels
  <2> QED BY ONLY <1>6, <2>1 DEF SwitchInv
<1>8. CASE SetFlag1
  <2>1. SetFlag(1) /\ ePc = "flag1" /\ ePc' = "idle" /\ 1 \in Channels /\ 0 \in Channels \ {1}
    BY <1>8 DEF SetFlag1, Channels
  <2>2. Switched(0)' => enabled'[usb_sram_revert(0)] \/ overtaken'[0]
    BY ONLY <1>6, <2>1, SwitchInv DEF SwitchInv
  <2>3. Switched(1)' => overtaken'[1]
    BY ONLY <1>6, <2>1
  <2> QED BY ONLY <2>1, <2>2, <2>3 DEF SwitchInv, Channels
<1> QED BY <1>1, <1>2, <1>3, <1>4, <1>5, <1>7, <1>8 DEF Next, Event

LEMMA ReachInductive == ASSUME TypeInv, ReachInv, [Next]_vars PROVE ReachInv'
<1>0. ParserT /\ CallT /\ PlugT /\ HostT
  BY DEF TypeInv
<1>1. CASE plugOuts' # 0
  BY <1>1 DEF ReachInv
<1>2. ASSUME plugOuts' = 0 PROVE ReachInv'
  <2>1. plugOuts = 0
    <3>1. PullCable \/ UNCHANGED plugOuts
      BY Zenon DEF Next, Host, SendFrame, SendJunk, Send, Receive, Arrive, MatchMarker, SkipByte,
         RestartHunt, TakeChannel, TakeLengthByte, ParseUnchanged, BeginPayload, ClearFlag, Transfer,
         Event, PlugOut, DisableOther, Disable, SetFlag0, SetFlag1, SetFlag, vars, hostVars
    <3>2. PullCable => plugOuts' = plugOuts + 1
      BY DEF PullCable
    <3> QED BY ONLY <1>0, <1>2, <3>1, <3>2 DEF HostT
  <2>2. ~pending /\ ePc = "idle" /\ ~lost
    BY ONLY <2>1, ReachInv DEF ReachInv
  <2>3. ~Event /\ ~PullCable
    BY <2>1, <2>2, <1>2 DEF Event, PlugOut, DisableOther, SetFlag0, SetFlag1, PullCable
  <2>4. ASSUME UNCHANGED <<pending, ePc, lost, usb_plug_flag, enabled, cur_video_ch, rPc>> PROVE ReachInv'
    BY <2>1, <2>4 DEF ReachInv, Switched
  <2>5. CASE (\E ch \in Channels, p \in Payloads : SendFrame(ch, p)) \/ (\E j \in Junk : SendJunk(j))
             \/ UNCHANGED vars
    BY ONLY <2>4, <2>5, Zenon DEF SendFrame, SendJunk, Send, vars, parserVars, header, callVars, plugVars,
                             eventVars, history
  <2>6. ASSUME Receive, ~BeginPayload, ~ClearFlag, ~Transfer PROVE ReachInv'
    <3>1. /\ UNCHANGED <<usb_plug_flag, enabled, ePc, pending, lost>>
          /\ rPc' \in {"parse", "idle"}
      BY <2>6 DEF Receive, Arrive, MatchMarker, SkipByte, RestartHunt, TakeChannel, TakeLengthByte,
                  Consume, ParseUnchanged, plugVars, eventVars, history
    <3> QED BY ONLY <2>1, <3>1, ReachInv DEF ReachInv, Switched
  <2>7. CASE BeginPayload
    <3>1. /\ cur_video_ch \in Channels
          /\ UNCHANGED <<usb_plug_flag, ePc, pending, lost, cur_video_ch>>
      BY <1>0, <2>7 DEF BeginPayload, ParserT, parserVars, header, eventVars, history
    <3>2. CASE usb_plug_flag[cur_video_ch] = 1
      <4>1. enabled' = [enabled EXCEPT ![usb_sram_revert(cur_video_ch)] = TRUE] /\ rPc' = "clear"
        BY <2>7, <3>2 DEF BeginPayload
      <4>2. \A ch \in Channels : Switched(ch)' => Switched(ch) \/ ch = cur_video_ch
        BY <3>1 DEF Switched
      <4>3. \A ch \in Channels : enabled[usb_sram_revert(ch)] => enabled'[usb_sram_revert(ch)]
        BY <1>0, <4>1 DEF PlugT, Channels, usb_sram_revert
      <4>4. enabled'[usb_sram_revert(cur_video_ch)]
        BY <1>0, <3>1, <4>1 DEF PlugT, Channels, usb_sram_revert
      <4> QED BY ONLY <2>1, <3>1, <4>1, <4>2, <4>3, <4>4, ReachInv DEF ReachInv
    <3>3. CASE usb_plug_flag[cur_video_ch] # 1
      <4>1. UNCHANGED enabled /\ rPc' = "transfer"
        BY <2>7, <3>3 DEF BeginPayload
      <4>2. usb_plug_flag[cur_video_ch] = 0
        BY ONLY <1>0, <3>1, <3>3 DEF PlugT
      <4> QED BY ONLY <2>1, <3>1, <4>1, <4>2, ReachInv DEF ReachInv, Switched
    <3> QED BY <3>2, <3>3
  <2>8. CASE ClearFlag
    <3>1. /\ rPc = "clear" /\ rPc' = "transfer" /\ cur_video_ch \in Channels
          /\ usb_plug_flag' = [usb_plug_flag EXCEPT ![cur_video_ch] = 0]
          /\ UNCHANGED <<enabled, ePc, pending, lost, cur_video_ch>>
      BY <1>0, <2>8 DEF ClearFlag, CallT, ParserT, parserVars, header, eventVars, history
    <3>2. \A ch \in Channels : Switched(ch)' => Switched(ch)
      BY ONLY <1>0, <3>1 DEF Switched, PlugT
    <3>3. usb_plug_flag'[cur_video_ch] = 0
      BY ONLY <1>0, <3>1 DEF PlugT
    <3> QED BY ONLY <2>1, <3>1, <3>2, <3>3, ReachInv DEF ReachInv
  <2>9. CASE Transfer
    <3>1. /\ rPc = "transfer" /\ rPc' \in {"parse", "idle"} /\ cur_video_ch \in Channels
          /\ lost' = (lost \/ usb_plug_flag[cur_video_ch] = 1 \/ ~enabled[usb_sram_revert(cur_video_ch)])
          /\ UNCHANGED <<usb_plug_flag, enabled, ePc, pending, cur_video_ch>>
      BY <1>0, <2>9 DEF Transfer, HandOver, Consume, CallT, ParserT, header, plugVars, eventVars
    <3>2. usb_plug_flag[cur_video_ch] = 0 /\ enabled[usb_sram_revert(cur_video_ch)]
      BY ONLY <2>1, <3>1, ReachInv DEF ReachInv, Switched
    <3>3. usb_plug_flag[cur_video_ch] # 1
      BY ONLY <3>2
    <3>4. ~lost'
      BY ONLY <2>2, <3>1, <3>2, <3>3, Zenon
    <3> QED BY ONLY <2>1, <3>1, <3>4, ReachInv DEF ReachInv, Switched
  <2> QED BY <2>3, <2>5, <2>6, <2>7, <2>8, <2>9 DEF Next, Host
<1> QED BY <1>1, <1>2
-------------------------------------------------------------------------------
(* The stream of one host: W is what it has sent since the last cable was  *)
(* pulled, F where its frames start (how many bytes are before each), and  *)
(* C[ch][q] how much payload for ch is among the first q bytes.            *)

(* The first n bytes of the length in the header at f, and all four. *)
LengthTo(W, f, n) == (IF n >= 1 THEN W[f + 5] * Weight[1] ELSE 0)
                     + (IF n >= 2 THEN W[f + 6] * Weight[2] ELSE 0)
                     + (IF n >= 3 THEN W[f + 7] * Weight[3] ELSE 0)
                     + (IF n >= 4 THEN W[f + 8] * Weight[4] ELSE 0)

LengthAt(W, f) == W[f + 5] * Weight[1] + W[f + 6] * Weight[2]
                  + W[f + 7] * Weight[3] + W[f + 8] * Weight[4]

FrameEnd(W, f) == f + 8 + LengthAt(W, f)

IsFrame(W, C, f) ==
    /\ f \in Nat /\ LengthAt(W, f) \in Nat /\ 2 * LengthAt(W, f) < WORD
    /\ FrameEnd(W, f) <= Len(W)
    /\ W[f + 1] = 18 /\ W[f + 2] = 52 /\ W[f + 3] = 86
    /\ W[f + 4] \in Channels
    /\ \A c \in Channels :
           /\ \A k \in 0 .. 8 : C[c][f + k] = C[c][f]
           /\ \A k \in 0 .. LengthAt(W, f) :
                  C[c][f + 8 + k] = C[c][f] + (IF c = W[f + 4] THEN k ELSE 0)

(* q bytes end inside no frame: before, between or behind them. *)
Outside(W, F, q) == \A f \in F : ~(f < q /\ q < FrameEnd(W, f))

Apart(W, F) == \A f, g \in F : f < g => FrameEnd(W, f) <= g

(* What is in no frame is no payload. *)
Gaps(W, F, C) == \A q \in 0 .. Len(W) - 1 :
    (\A f \in F : ~(f <= q /\ q < FrameEnd(W, f))) => \A c \in Channels : C[c][q + 1] = C[c][q]

(* A byte that may come after the first one of a header. *)
Continues(x) == x \in {52, 86} \cup Channels

(* What looks like a header is that of a frame, or wholly inside a frame;  *)
(* and the stream does not complete one that an earlier stream began.      *)
Headers(W, F) ==
    /\ \A q \in Nat : HeaderAt(W, q) => q \in F \/ \E f \in F : f < q /\ q + 4 <= FrameEnd(W, f)
    /\ Len(W) > 0 => ~Continues(W[1])

Counts(W, C) == \A c \in Channels :
    /\ \A q \in 0 .. Len(W) : C[c][q] \in Nat
    /\ \A p, q \in 0 .. Len(W) : p <= q => C[c][p] <= C[c][q]

Shape(W, F, C) == /\ W \in Seq(Byte) /\ (\A f \in F : IsFrame(W, C, f))
                  /\ Apart(W, F) /\ Gaps(W, F, C) /\ Headers(W, F) /\ Counts(W, C)

(* o is the payload behind the first p bytes, in its order. *)
OwedAt(W, F, C, p, o) == \A c \in Channels :
    /\ Len(o[c]) = C[c][Len(W)] - C[c][p]
    /\ \A f \in F : c = W[f + 4] => \A k \in 1 .. LengthAt(W, f) :
           f + 8 + k > p => o[c][C[c][f + 8 + k] - C[c][p]] = W[f + 8 + k]

(* How much of the stream has been parsed; the rest is in the chunk and on *)
(* the cable. *)
Pos(W) == Len(W) - (Len(chunk) - i) - Len(wire)

Unread(W) == /\ Pos(W) \in Nat
             /\ \A k \in 1 .. Len(wire) : wire[k] = W[Len(W) - Len(wire) + k]
             /\ \A k \in 1 .. Len(chunk) - i : chunk[i + k] = W[Pos(W) + k]

(* The last n of the first p bytes are the first n bytes of a marker. *)
Matched(W, p, n) == n <= p /\ \A k \in 1 .. n : W[p - n + k] = Marker[k]

(* n bytes of a marker are taken for found where p bytes have been parsed. *)
Hunts(W, F, p, n) == \/ Outside(W, F, p) /\ (p = 0 \/ Matched(W, p, n))
                     \/ \E f \in F : n > 0 /\ p = f + n

(* Where the parser takes itself to be is where it is. *)
Place(W, F) ==
    /\ state <= 3 => Hunts(W, F, Pos(W), state)
    /\ state = 4 => \E f \in F : /\ Pos(W) = f + 4 + len_byte_cnt
                                 /\ cur_video_ch = W[f + 4]
                                 /\ cur_video_len = LengthTo(W, f, len_byte_cnt)
    /\ state = 5 => \E f \in F : /\ Pos(W) = f + 8 + cur_send_video_len
                                 /\ cur_video_ch = W[f + 4] /\ cur_video_len = LengthAt(W, f)

Stream(W, F, C) == Shape(W, F, C) /\ OwedAt(W, F, C, Pos(W), owed) /\ Unread(W) /\ Place(W, F)

StreamInv == ~cut => ~wrong /\ \E W, F, C : Stream(W, F, C)
-------------------------------------------------------------------------------
(* Between two frames, and at the start and at the end of each, the parser *)
(* is inside none. *)
LEMMA EndsOutside ==
    ASSUME NEW W, NEW F, NEW C, Shape(W, F, C), NEW f \in F
    PROVE  Outside(W, F, f) /\ Outside(W, F, FrameEnd(W, f))
<1>1. \A g \in F : g \in Nat /\ LengthAt(W, g) \in Nat
  BY DEF Shape, IsFrame
<1>2. \A g, h \in F : g < h => FrameEnd(W, g) <= h
  BY DEF Shape, Apart
<1>3. \A g \in F : FrameEnd(W, g) \in Nat /\ FrameEnd(W, g) > g
  BY ONLY <1>1 DEF FrameEnd
<1>4. Outside(W, F, f)
  BY ONLY <1>1, <1>2, <1>3, f \in F DEF Outside
<1>5. Outside(W, F, FrameEnd(W, f))
  <2>1. ASSUME NEW g \in F, g < FrameEnd(W, f), FrameEnd(W, f) < FrameEnd(W, g) PROVE FALSE
    <3>1. CASE g < f
      BY ONLY <1>1, <1>2, <1>3, <2>1, <3>1, f \in F
    <3>2. CASE f < g
      BY ONLY <1>1, <1>2, <1>3, <2>1, <3>2, f \in F
    <3>3. CASE f = g
      BY ONLY <1>1, <1>3, <2>1, <3>3, f \in F
    <3> QED BY ONLY <1>1, <3>1, <3>2, <3>3, f \in F, g \in F
  <2> QED BY ONLY <2>1 DEF Outside
<1> QED BY <1>4, <1>5

(* The byte that the parser looks at while it hunts for a marker, after    *)
(* n of its bytes or, with n = 3, after all of them: it is in step with a  *)
(* frame, it is at the first byte of one, or it is between two.            *)
LEMMA Hunting ==
    ASSUME NEW W, NEW F, NEW C, Shape(W, F, C),
           NEW p \in Nat, p < Len(W), NEW n \in 0 .. 3, Hunts(W, F, p, n)
    PROVE  /\ \A c \in Channels : C[c][p + 1] = C[c][p]
           /\ \/ \E f \in F : p = f + n
              \/ Outside(W, F, p) /\ n > 0 /\ W[p + 1] = 18
              \/ /\ Outside(W, F, p) /\ Outside(W, F, p + 1) /\ (p = 0 \/ Matched(W, p, n))
                 /\ p = 0 => ~Continues(W[p + 1])
                 /\ n = 3 => W[p + 1] \notin Channels
<1>1. \A f \in F : IsFrame(W, C, f) /\ f \in Nat /\ FrameEnd(W, f) \in Nat
  <2>1. \A f \in F : IsFrame(W, C, f)
    BY DEF Shape
  <2>2. \A f \in F : f \in Nat /\ LengthAt(W, f) \in Nat
    BY ONLY <2>1 DEF IsFrame
  <2> QED BY ONLY <2>1, <2>2 DEF FrameEnd
<1>2. CASE \E f \in F : p = f + n
  <2>1. PICK f \in F : p = f + n
    BY <1>2
  <2>2. \A c \in Channels : C[c][f + n] = C[c][f] /\ C[c][f + (n + 1)] = C[c][f]
    <3>1. \A c \in Channels : \A k \in 0 .. 8 : C[c][f + k] = C[c][f]
      BY ONLY <1>1, f \in F DEF IsFrame
    <3>2. n \in 0 .. 8 /\ n + 1 \in 0 .. 8
      OBVIOUS
    <3> QED BY ONLY <3>1, <3>2
  <2>3. f + (n + 1) = p + 1
    BY ONLY <1>1, <2>1
  <2> QED BY <1>2, <2>1, <2>2, <2>3
<1>3. ASSUME ~ \E f \in F : p = f + n, NEW f \in F, p = f
      PROVE  /\ \A c \in Channels : C[c][p + 1] = C[c][p]
             /\ Outside(W, F, p) /\ n > 0 /\ W[p + 1] = 18
  <2>1. \A c \in Channels : C[c][f + 1] = C[c][f]
    BY ONLY <1>1, f \in F DEF IsFrame
  <2>2. W[f + 1] = 18
    BY ONLY <1>1, f \in F DEF IsFrame
  <2>3. n > 0
    BY ONLY <1>3, n \in 0 .. 3, p \in Nat
  <2>4. Outside(W, F, p)
    BY ONLY <1>3, Hunts(W, F, p, n) DEF Hunts
  <2> QED BY <1>3, <2>1, <2>2, <2>3, <2>4
<1>4. ASSUME ~ \E f \in F : p = f + n, \A f \in F : p # f
      PROVE  /\ \A c \in Channels : C[c][p + 1] = C[c][p]
             /\ Outside(W, F, p) /\ Outside(W, F, p + 1) /\ (p = 0 \/ Matched(W, p, n))
             /\ p = 0 => ~Continues(W[p + 1])
             /\ n = 3 => W[p + 1] \notin Channels
  <2>1. Outside(W, F, p) /\ (p = 0 \/ Matched(W, p, n))
    BY ONLY <1>4, Hunts(W, F, p, n) DEF Hunts
  <2>2. \A f \in F : ~(f <= p /\ p < FrameEnd(W, f))
    BY ONLY <1>1, <1>4, <2>1, p \in Nat DEF Outside
  <2>3. p \in 0 .. Len(W) - 1 /\ Len(W) \in Nat
    BY DEF Shape
  <2>4. \A c \in Channels : C[c][p + 1] = C[c][p]
    BY ONLY <2>2, <2>3, Shape(W, F, C) DEF Shape, Gaps
  <2>5. Outside(W, F, p + 1)
    BY ONLY <1>1, <2>2, p \in Nat DEF Outside
  <2>6. Headers(W, F)
    BY DEF Shape
  <2>7. p = 0 => ~Continues(W[p + 1])
    BY ONLY <2>3, <2>6 DEF Headers
  <2>8. ASSUME n = 3, W[p + 1] \in Channels PROVE FALSE
    <3>1. p # 0
      BY ONLY <2>7, <2>8 DEF Continues
    <3>2. Matched(W, p, 3)
      BY ONLY <2>1, <2>8, <3>1
    <3>3. HeaderAt(W, p - 3) /\ p - 3 \in Nat
      <4>1. p - 3 \in Nat /\ p - 3 + 4 <= Len(W) /\ p - 3 + 4 = p + 1
        BY ONLY <2>3, <3>2 DEF Matched
      <4>2. \A j \in 1 .. 3 : W[p - 3 + j] = Marker[j]
        BY ONLY <3>2 DEF Matched
      <4>3. W[p - 3 + 4] \in Channels
        BY ONLY <2>8, <4>1
      <4> QED BY ONLY <4>1, <4>2, <4>3 DEF HeaderAt
    <3>4. p - 3 \in F \/ \E f \in F : f < p - 3 /\ p - 3 + 4 <= FrameEnd(W, f)
      BY ONLY <2>6, <3>3 DEF Headers
    <3>5. CASE p - 3 \in F
      <4>1. p = (p - 3) + n
        BY ONLY <2>8, p \in Nat
      <4> QED BY ONLY <1>4, <3>5, <4>1
    <3>6. ASSUME NEW f \in F, f < p - 3, p - 3 + 4 <= FrameEnd(W, f) PROVE FALSE
      <4>1. f < p /\ p < FrameEnd(W, f)
        BY ONLY <1>1, <3>6, p \in Nat
      <4> QED BY ONLY <2>1, <4>1 DEF Outside
    <3> QED BY ONLY <3>4, <3>5, <3>6
  <2> QED BY ONLY <2>1, <2>4, <2>5, <2>7, <2>8
<1> QED BY <1>2, <1>3, <1>4

(* One more byte of a marker. *)
LEMMA MatchedMore ==
    ASSUME NEW W, NEW p \in Nat, NEW n \in 0 .. 2, Matched(W, p, n), W[p + 1] = Marker[n + 1]
    PROVE  Matched(W, p + 1, n + 1)
<1>1. n <= p /\ \A k \in 1 .. n : W[p - n + k] = Marker[k]
  BY DEF Matched
<1>2. ASSUME NEW k \in 1 .. n + 1 PROVE W[p + 1 - (n + 1) + k] = Marker[k]
  <2>1. p + 1 - (n + 1) + k = p - n + k
    BY ONLY p \in Nat, n \in 0 .. 2, k \in 1 .. n + 1
  <2>2. CASE k \in 1 .. n
    BY ONLY <1>1, <2>1, <2>2
  <2>3. CASE k = n + 1
    <3>1. p - n + k = p + 1
      BY ONLY p \in Nat, n \in 0 .. 2, <2>3
    <3> QED BY ONLY <2>1, <2>3, <3>1, W[p + 1] = Marker[n + 1]
  <2>4. k \in 1 .. n \/ k = n + 1
    BY ONLY n \in 0 .. 2, k \in 1 .. n + 1
  <2> QED BY ONLY <2>2, <2>3, <2>4
<1> QED BY ONLY <1>1, <1>2, p \in Nat, n \in 0 .. 2 DEF Matched

(* The length of a frame, byte by byte. *)
LEMMA LengthByByte ==
    ASSUME NEW W, NEW F, NEW C, Shape(W, F, C), NEW f \in F, NEW n \in 0 .. 3
    PROVE  /\ LengthTo(W, f, 0) = 0 /\ LengthTo(W, f, 4) = LengthAt(W, f)
           /\ LengthTo(W, f, n + 1) = LengthTo(W, f, n) + W[f + 5 + n] * Weight[n + 1]
           /\ LengthTo(W, f, n + 1) \in 0 .. WORD - 1
<1>1. /\ f \in Nat /\ LengthAt(W, f) \in Nat /\ 2 * LengthAt(W, f) < WORD
      /\ FrameEnd(W, f) <= Len(W) /\ W \in Seq(Byte) /\ Len(W) \in Nat
  BY DEF Shape, IsFrame
<1>2. W[f + 5] \in Nat /\ W[f + 6] \in Nat /\ W[f + 7] \in Nat /\ W[f + 8] \in Nat
  <2>1. f + 5 \in 1 .. Len(W) /\ f + 6 \in 1 .. Len(W) /\ f + 7 \in 1 .. Len(W) /\ f + 8 \in 1 .. Len(W)
    BY ONLY <1>1 DEF FrameEnd
  <2>2. W[f + 5] \in Byte /\ W[f + 6] \in Byte /\ W[f + 7] \in Byte /\ W[f + 8] \in Byte
    BY ONLY <1>1, <2>1
  <2> QED BY ONLY <2>2, Words
<1> DEFINE a == W[f + 5] * Weight[1]
           b == W[f + 6] * Weight[2]
           c == W[f + 7] * Weight[3]
           d == W[f + 8] * Weight[4]
<1>3. a \in Nat /\ b \in Nat /\ c \in Nat /\ d \in Nat
  <2>1. Weight[1] \in Nat /\ Weight[2] \in Nat /\ Weight[3] \in Nat /\ Weight[4] \in Nat
    BY ONLY Words
  <2> QED BY ONLY <1>2, <2>1
<1>4. /\ LengthAt(W, f) = a + b + c + d
      /\ \A m \in 0 .. 4 : LengthTo(W, f, m) = (IF m >= 1 THEN a ELSE 0) + (IF m >= 2 THEN b ELSE 0)
                                             + (IF m >= 3 THEN c ELSE 0) + (IF m >= 4 THEN d ELSE 0)
  BY DEF LengthAt, LengthTo
<1>5. /\ n = 0 => W[f + 5 + n] * Weight[n + 1] = a
      /\ n = 1 => W[f + 5 + n] * Weight[n + 1] = b
      /\ n = 2 => W[f + 5 + n] * Weight[n + 1] = c
      /\ n = 3 => W[f + 5 + n] * Weight[n + 1] = d
  <2>1. f + 5 + 0 = f + 5 /\ f + 5 + 1 = f + 6 /\ f + 5 + 2 = f + 7 /\ f + 5 + 3 = f + 8
    BY ONLY <1>1
  <2> QED BY <2>1
<1> DEFINE x == W[f + 5 + n] * Weight[n + 1]
           total == LengthAt(W, f)
<1>6. /\ n = 0 => x = a
      /\ n = 1 => x = b
      /\ n = 2 => x = c
      /\ n = 3 => x = d
  BY ONLY <1>5
<1>7. total \in Nat /\ 2 * total < WORD /\ total = a + b + c + d
  BY ONLY <1>1, <1>4
<1> HIDE DEF a, b, c, d, x, total
<1>8. LengthTo(W, f, 0) = 0
  BY ONLY <1>3, <1>4
<1>9. LengthTo(W, f, 4) = total
  BY ONLY <1>3, <1>4, <1>7
<1>10. LengthTo(W, f, n + 1) = LengthTo(W, f, n) + x
  <2>1. n + 1 \in 0 .. 4 /\ n \in 0 .. 4
    OBVIOUS
  <2>2. LengthTo(W, f, n + 1) = (IF n + 1 >= 1 THEN a ELSE 0) + (IF n + 1 >= 2 THEN b ELSE 0)
                                + (IF n + 1 >= 3 THEN c ELSE 0) + (IF n + 1 >= 4 THEN d ELSE 0)
    BY ONLY <1>4, <2>1
  <2>3. LengthTo(W, f, n) = (IF n >= 1 THEN a ELSE 0) + (IF n >= 2 THEN b ELSE 0)
                            + (IF n >= 3 THEN c ELSE 0) + (IF n >= 4 THEN d ELSE 0)
    BY ONLY <1>4, <2>1
  <2> QED BY ONLY <1>3, <1>6, <2>2, <2>3, n \in 0 .. 3
<1>11. LengthTo(W, f, n + 1) \in 0 .. WORD - 1
  <2>1. n + 1 \in 0 .. 4
    OBVIOUS
  <2>2. LengthTo(W, f, n + 1) = (IF n + 1 >= 1 THEN a ELSE 0) + (IF n + 1 >= 2 THEN b ELSE 0)
                                + (IF n + 1 >= 3 THEN c ELSE 0) + (IF n + 1 >= 4 THEN d ELSE 0)
    BY ONLY <1>4, <2>1
  <2>3. WORD \in Nat
    BY ONLY Words
  <2>4. LengthTo(W, f, n + 1) \in 0 .. total
    BY ONLY <1>3, <1>7, <2>2, n \in 0 .. 3
  <2> QED BY ONLY <1>7, <2>3, <2>4
<1> QED BY <1>8, <1>9, <1>10, <1>11 DEF x, total

(* A byte that is no payload changes nothing about what is owed. *)
LEMMA OwedSame ==
    ASSUME NEW W, NEW F, NEW C, NEW p, NEW q, NEW o, OwedAt(W, F, C, p, o), Shape(W, F, C),
           p \in Nat, q \in Nat, p <= q, \A c \in Channels : C[c][q] = C[c][p]
    PROVE  OwedAt(W, F, C, q, o)
<1>1. \A f \in F : f \in Nat
  BY DEF Shape, IsFrame
<1> QED BY <1>1 DEF OwedAt

(* The parser's next bytes are the stream's. *)
LEMMA NextBytes ==
    ASSUME TypeInv, NEW W, Unread(W), W \in Seq(Byte), NEW n \in Nat, i + n <= Len(chunk)
    PROVE  /\ Pos(W) + n <= Len(W)
           /\ \A k \in 1 .. n : chunk[i + k] = W[Pos(W) + k]
<1>1. i \in Nat /\ Len(chunk) \in Nat /\ Len(wire) \in Nat /\ Len(W) \in Nat
  BY DEF TypeInv, CallT, HostT
<1>2. Pos(W) + n <= Len(W) /\ n <= Len(chunk) - i
  BY ONLY <1>1, n \in Nat, i + n <= Len(chunk) DEF Pos
<1>3. \A k \in 1 .. n : k \in 1 .. Len(chunk) - i
  BY ONLY <1>1, <1>2, n \in Nat
<1> QED BY ONLY <1>2, <1>3, Unread(W) DEF Unread

LEMMA Moved ==
    ASSUME TypeInv, NEW W, Unread(W), W \in Seq(Byte), NEW n \in Nat, i + n <= Len(chunk),
           i' = i + n, chunk' = chunk, wire' = wire
    PROVE  Unread(W)' /\ Pos(W)' = Pos(W) + n
<1>1. i \in Nat /\ Len(chunk) \in Nat /\ Len(wire) \in Nat /\ Len(W) \in Nat
  BY DEF TypeInv, CallT, HostT
<1>2. Pos(W)' = Pos(W) + n /\ Pos(W) \in Nat
  BY ONLY <1>1, Unread(W), n \in Nat, i' = i + n, chunk' = chunk, wire' = wire DEF Pos, Unread
<1>3. \A k \in 1 .. Len(chunk) - (i + n) : chunk[i + n + k] = W[Pos(W) + n + k]
  <2>1. ASSUME NEW k \in 1 .. Len(chunk) - (i + n) PROVE chunk[i + n + k] = W[Pos(W) + n + k]
    <3>1. n + k \in 1 .. Len(chunk) - i /\ i + (n + k) = i + n + k /\ Pos(W) + (n + k) = Pos(W) + n + k
      BY ONLY <1>1, <1>2, n \in Nat
    <3>2. chunk[i + (n + k)] = W[Pos(W) + (n + k)]
      BY ONLY <3>1, Unread(W) DEF Unread
    <3> QED BY ONLY <3>1, <3>2
  <2> QED BY ONLY <2>1
<1> QED BY ONLY <1>1, <1>2, <1>3, Unread(W), i' = i + n, chunk' = chunk, wire' = wire, n \in Nat DEF Unread

(* Steps that leave the parser's place and the stream alone. *)
LEMMA StreamFrame ==
    ASSUME NEW W, NEW F, NEW C, Stream(W, F, C),
           UNCHANGED <<wire, owed, chunk, i, state, header, cur_send_video_len>>
    PROVE  Stream(W, F, C)'
  BY DEF Stream, Unread, Place, Pos, header

(* A byte is consumed that is no payload. *)
LEMMA StepOver ==
    ASSUME TypeInv, NEW W, NEW F, NEW C, Stream(W, F, C), Consume(1), i + 1 <= Len(chunk),
           UNCHANGED <<wire, owed, chunk>>,
           \A c \in Channels : C[c][Pos(W) + 1] = C[c][Pos(W)]
    PROVE  /\ Pos(W)' = Pos(W) + 1
           /\ Shape(W, F, C) /\ OwedAt(W, F, C, Pos(W)', owed') /\ Unread(W)'
<1>1. W \in Seq(Byte) /\ Unread(W) /\ Shape(W, F, C) /\ OwedAt(W, F, C, Pos(W), owed) /\ Pos(W) \in Nat
  BY DEF Stream, Shape, Unread
<1>2. Unread(W)' /\ Pos(W)' = Pos(W) + 1
  BY <1>1, Moved DEF Consume
<1>3. OwedAt(W, F, C, Pos(W) + 1, owed)
  <2>1. Pos(W) + 1 \in Nat /\ Pos(W) <= Pos(W) + 1
    BY ONLY <1>1
  <2> QED BY ONLY <1>1, <2>1, OwedSame, \A c \in Channels : C[c][Pos(W) + 1] = C[c][Pos(W)]
<1> QED BY <1>1, <1>2, <1>3

LEMMA HuntingStep ==
    ASSUME TypeInv, NEW W, NEW F, NEW C, Stream(W, F, C),
           MatchMarker \/ SkipByte \/ RestartHunt \/ TakeChannel
    PROVE  Stream(W, F, C)'
<1> DEFINE p == Pos(W)
<1>0. /\ p \in Nat /\ Shape(W, F, C) /\ Unread(W) /\ W \in Seq(Byte)
      /\ OwedAt(W, F, C, p, owed) /\ Place(W, F)
  BY DEF Stream, Shape, Unread
<1>1. rPc = "parse" /\ i + 1 <= Len(chunk) /\ state \in 0 .. 3
  BY DEF TypeInv, CallT, ParserT, MatchMarker, SkipByte, RestartHunt, TakeChannel
<1>2. p < Len(W) /\ chunk[i + 1] = W[p + 1]
  <2>1. p + 1 <= Len(W) /\ \A k \in 1 .. 1 : chunk[i + k] = W[p + k]
    BY ONLY <1>0, <1>1, TypeInv, NextBytes
  <2>2. Len(W) \in Nat
    BY ONLY <1>0
  <2> QED BY ONLY <1>0, <2>1, <2>2
<1>3. UNCHANGED <<wire, owed, chunk>>
  BY Zenon DEF MatchMarker, SkipByte, RestartHunt, TakeChannel, ParseUnchanged, hostVars, history
<1>4. Hunts(W, F, p, state)
  BY ONLY <1>0, <1>1 DEF Place
<1> HIDE DEF p
<1>5. /\ \A c \in Channels : C[c][p + 1] = C[c][p]
      /\ \/ \E f \in F : p = f + state
         \/ Outside(W, F, p) /\ state > 0 /\ W[p + 1] = 18
         \/ /\ Outside(W, F, p) /\ Outside(W, F, p + 1) /\ (p = 0 \/ Matched(W, p, state))
            /\ p = 0 => ~Continues(W[p + 1])
            /\ state = 3 => W[p + 1] \notin Channels
  BY ONLY <1>0, <1>1, <1>2, <1>4, Hunting
<1>50. \A q \in Nat : Matched(W, q, 0)
  BY DEF Matched
<1>6. \A f \in F : /\ f \in Nat /\ IsFrame(W, C, f)
  BY ONLY <1>0 DEF Shape, IsFrame
<1>7. \A f \in F : p = f + state => /\ state < 3 => W[p + 1] = Marker[state + 1]
                                    /\ state = 3 => W[p + 1] \in Channels /\ W[p + 1] = W[f + 4]
  <2>1. ASSUME NEW f \in F, p = f + state
        PROVE  /\ state < 3 => W[p + 1] = Marker[state + 1]
               /\ state = 3 => W[p + 1] \in Channels /\ W[p + 1] = W[f + 4]
    <3>1. p + 1 = f + (state + 1)
      BY ONLY <1>1, <1>6, <2>1
    <3>2. Marker[1] = 18 /\ Marker[2] = 52 /\ Marker[3] = 86
      BY DEF Marker
    <3>3. W[f + 1] = 18 /\ W[f + 2] = 52 /\ W[f + 3] = 86 /\ W[f + 4] \in Channels
      BY ONLY <1>6, <2>1 DEF IsFrame
    <3>4. state = 0 => W[p + 1] = Marker[state + 1]
      BY ONLY <3>1, <3>2, <3>3
    <3>5. state = 1 => W[p + 1] = Marker[state + 1]
      BY ONLY <3>1, <3>2, <3>3
    <3>6. state = 2 => W[p + 1] = Marker[state + 1]
      BY ONLY <3>1, <3>2, <3>3
    <3>7. state = 3 => W[p + 1] \in Channels /\ W[p + 1] = W[f + 4]
      BY ONLY <3>1, <3>3
    <3> QED BY ONLY <1>1, <3>4, <3>5, <3>6, <3>7
  <2> QED BY ONLY <2>1
<1>8. ASSUME Consume(1)
      PROVE  /\ Pos(W)' = p + 1 /\ Shape(W, F, C)
             /\ OwedAt(W, F, C, Pos(W)', owed') /\ Unread(W)'
  BY <1>1, <1>3, <1>5, <1>8, StepOver DEF p
<1>9. ASSUME Consume(0)
      PROVE  /\ Pos(W)' = p /\ Shape(W, F, C)
             /\ OwedAt(W, F, C, Pos(W)', owed') /\ Unread(W)'
  <2>1. i' = i
    BY <1>9 DEF Consume, TypeInv, CallT
  <2> QED BY ONLY <1>0, <1>3, <2>1 DEF p, Pos, Unread
<1>10. CASE MatchMarker
  <2>1. /\ state' = state + 1 /\ Consume(1) /\ W[p + 1] = Marker[state + 1] /\ state \in {0, 1, 2}
    BY <1>1, <1>2, <1>10 DEF MatchMarker
  <2>2. W[p + 1] \in {18, 52, 86} /\ (state > 0 => W[p + 1] # 18)
    BY ONLY <2>1 DEF Marker
  <2>3. Hunts(W, F, p + 1, state + 1)
    <3>1. CASE \E f \in F : p = f + state
      <4>1. PICK f \in F : p = f + state
        BY ONLY <3>1
      <4>2. p + 1 = f + (state + 1) /\ state + 1 > 0
        BY ONLY <1>6, <2>1, <4>1
      <4> QED BY ONLY <4>2 DEF Hunts
    <3>2. CASE /\ Outside(W, F, p + 1) /\ (p = 0 \/ Matched(W, p, state))
               /\ p = 0 => ~Continues(W[p + 1])
      <4>1. p = 0 => state = 0
        BY ONLY <2>1, <3>2 DEF Marker, Continues
      <4>2. Matched(W, p, state)
        BY ONLY <1>0, <1>50, <3>2, <4>1
      <4>3. state \in 0 .. 2
        BY ONLY <2>1
      <4>4. Matched(W, p + 1, state + 1)
        BY ONLY <1>0, <2>1, <4>2, <4>3, MatchedMore
      <4> QED BY ONLY <3>2, <4>4 DEF Hunts
    <3> QED BY ONLY <1>5, <2>2, <3>1, <3>2
  <2>4. Place(W, F)'
    BY ONLY <1>8, <2>1, <2>3 DEF Place
  <2> QED BY ONLY <1>8, <2>1, <2>4 DEF Stream
<1>11. CASE SkipByte
  <2>1. state = 0 /\ state' = 0 /\ Consume(1) /\ W[p + 1] # Marker[state + 1]
    BY <1>2, <1>11 DEF SkipByte
  <2>2. Outside(W, F, p + 1)
    BY ONLY <1>5, <1>7, <2>1
  <2>3. Hunts(W, F, p + 1, 0)
    BY ONLY <1>0, <1>50, <2>2 DEF Hunts
  <2>4. Place(W, F)'
    BY ONLY <1>8, <2>1, <2>3 DEF Place
  <2> QED BY ONLY <1>8, <2>1, <2>4 DEF Stream
<1>12. CASE RestartHunt
  <2>1. state \in {1, 2} /\ state' = 0 /\ Consume(0) /\ W[p + 1] # Marker[state + 1]
    BY <1>2, <1>12 DEF RestartHunt
  <2>2. Outside(W, F, p)
    BY ONLY <1>5, <1>7, <2>1
  <2>3. Hunts(W, F, p, 0)
    BY ONLY <1>0, <1>50, <2>2 DEF Hunts
  <2>4. Place(W, F)'
    BY ONLY <1>9, <2>1, <2>3 DEF Place
  <2> QED BY ONLY <1>9, <2>1, <2>4 DEF Stream
<1>13. CASE TakeChannel
  <2>1. state = 3 /\ cur_video_ch' = W[p + 1]
    BY <1>2, <1>13 DEF TakeChannel
  <2>2. CASE cur_video_ch' \in Channels
    <3>1. state' = 4 /\ len_byte_cnt' = 0 /\ cur_video_len' = 0 /\ Consume(1)
      BY <1>13, <2>2 DEF TakeChannel
    <3>2. 18 \notin Channels
      BY DEF Channels
    <3>3. PICK f \in F : p = f + 3
      BY ONLY <1>5, <2>1, <2>2, <3>2
    <3>4. p + 1 = f + 4 + 0
      BY ONLY <1>6, <3>3
    <3>5. LengthTo(W, f, 0) = 0
      BY ONLY <1>0, LengthByByte, f \in F
    <3>6. Place(W, F)'
      BY ONLY <1>7, <1>8, <2>1, <3>1, <3>3, <3>4, <3>5 DEF Place
    <3> QED BY ONLY <1>8, <3>1, <3>6 DEF Stream
  <2>3. CASE cur_video_ch' \notin Channels
    <3>1. state' = 0 /\ Consume(0)
      BY <1>13, <2>3 DEF TakeChannel
    <3>2. Outside(W, F, p)
      BY ONLY <1>5, <1>7, <2>1, <2>3
    <3>3. Hunts(W, F, p, 0)
      BY ONLY <1>0, <1>50, <3>2 DEF Hunts
    <3>4. Place(W, F)'
      BY ONLY <1>9, <3>1, <3>3 DEF Place
    <3> QED BY ONLY <1>9, <3>1, <3>4 DEF Stream
  <2> QED BY <2>2, <2>3
<1> QED BY <1>10, <1>11, <1>12, <1>13

LEMMA LengthStep ==
    ASSUME TypeInv, NEW W, NEW F, NEW C, Stream(W, F, C), TakeLengthByte
    PROVE  Stream(W, F, C)'
<1>0. /\ Pos(W) \in Nat /\ Shape(W, F, C) /\ Unread(W) /\ W \in Seq(Byte) /\ Place(W, F)
  BY DEF Stream, Shape, Unread
<1>1. /\ rPc = "parse" /\ i + 1 <= Len(chunk) /\ state = 4 /\ len_byte_cnt \in {0, 1, 2, 3}
      /\ cur_send_video_len = 0
  BY DEF TypeInv, CallT, ParserT, TakeLengthByte
<1>2. /\ UNCHANGED <<wire, owed, chunk, cur_video_ch, cur_send_video_len>> /\ Consume(1)
      /\ cur_video_len' = (cur_video_len + chunk[i + 1] * Weight[len_byte_cnt + 1]) % WORD
      /\ len_byte_cnt' = len_byte_cnt + 1
      /\ state' = IF len_byte_cnt' >= 4 THEN 5 ELSE 4
  BY DEF TakeLengthByte, ParseUnchanged, hostVars, history
<1>3. PICK f \in F : /\ Pos(W) = f + 4 + len_byte_cnt
                     /\ cur_video_ch = W[f + 4]
                     /\ cur_video_len = LengthTo(W, f, len_byte_cnt)
  BY ONLY <1>0, <1>1 DEF Place
<1>4. IsFrame(W, C, f) /\ f \in Nat
  BY ONLY <1>0, f \in F DEF Shape, IsFrame
<1>5. chunk[i + 1] = W[Pos(W) + 1]
  <2>1. \A k \in 1 .. 1 : chunk[i + k] = W[Pos(W) + k]
    BY ONLY <1>0, <1>1, TypeInv, NextBytes
  <2> QED BY ONLY <2>1
<1>6. \A c \in Channels : C[c][Pos(W) + 1] = C[c][Pos(W)]
  <2>1. Pos(W) = f + (4 + len_byte_cnt) /\ Pos(W) + 1 = f + (5 + len_byte_cnt)
    BY ONLY <1>1, <1>3, <1>4
  <2>2. 4 + len_byte_cnt \in 0 .. 8 /\ 5 + len_byte_cnt \in 0 .. 8
    BY ONLY <1>1
  <2>3. \A c \in Channels : C[c][f + (4 + len_byte_cnt)] = C[c][f] /\ C[c][f + (5 + len_byte_cnt)] = C[c][f]
    <3>1. \A c \in Channels : \A k \in 0 .. 8 : C[c][f + k] = C[c][f]
      BY ONLY <1>4 DEF IsFrame
    <3> QED BY ONLY <2>2, <3>1
  <2> QED BY ONLY <2>1, <2>3
<1>7. /\ Pos(W)' = Pos(W) + 1 /\ Shape(W, F, C)
      /\ OwedAt(W, F, C, Pos(W)', owed') /\ Unread(W)'
  BY <1>1, <1>2, <1>6, StepOver
<1>8. cur_video_len' = LengthTo(W, f, len_byte_cnt + 1) /\ LengthTo(W, f, 4) = LengthAt(W, f)
  <2>0. len_byte_cnt \in 0 .. 3
    BY ONLY <1>1
  <2>1. /\ LengthTo(W, f, 4) = LengthAt(W, f)
        /\ LengthTo(W, f, len_byte_cnt + 1) =
               LengthTo(W, f, len_byte_cnt) + W[f + 5 + len_byte_cnt] * Weight[len_byte_cnt + 1]
        /\ LengthTo(W, f, len_byte_cnt + 1) \in 0 .. WORD - 1
    BY ONLY <1>0, <2>0, LengthByByte, f \in F
  <2>2. f + 5 + len_byte_cnt = Pos(W) + 1
    BY ONLY <1>3, <1>4, <2>0
  <2> DEFINE x == LengthTo(W, f, len_byte_cnt + 1)
  <2>3. cur_video_len' = x % WORD
    BY ONLY <1>2, <1>3, <1>5, <2>1, <2>2
  <2>4. x \in 0 .. WORD - 1 /\ WORD \in Nat
    BY <2>1, Words
  <2> HIDE DEF x
  <2>5. x % WORD = x
    BY ONLY <2>4
  <2> QED BY <2>1, <2>3, <2>5 DEF x
<1>9. CASE len_byte_cnt \in {0, 1, 2}
  <2>1. state' = 4 /\ Pos(W)' = f + 4 + len_byte_cnt'
    BY ONLY <1>2, <1>3, <1>4, <1>7, <1>9
  <2>2. Place(W, F)'
    BY ONLY <1>2, <1>3, <1>8, <2>1 DEF Place
  <2> QED BY ONLY <1>7, <2>2 DEF Stream
<1>10. CASE len_byte_cnt = 3
  <2>1. Pos(W) + 1 = f + 8
    BY ONLY <1>3, <1>4, <1>10
  <2>2. cur_video_len' = LengthAt(W, f)
    BY ONLY <1>8, <1>10
  <2>3. state' = 5 /\ Pos(W)' = f + 8 + cur_send_video_len'
    BY ONLY <1>1, <1>2, <1>4, <1>7, <1>10, <2>1
  <2>4. Place(W, F)'
    BY ONLY <1>2, <1>3, <2>2, <2>3 DEF Place
  <2> QED BY ONLY <1>7, <2>4 DEF Stream
<1> QED BY <1>1, <1>9, <1>10

(* The next chunk is cut off what is on the cable. *)
LEMMA ArriveStep ==
    ASSUME TypeInv, NEW W, NEW F, NEW C, Stream(W, F, C), NEW n \in ChunkLens, Arrive(n)
    PROVE  Stream(W, F, C)'
<1>0. /\ Pos(W) \in Nat /\ Shape(W, F, C) /\ Unread(W) /\ W \in Seq(Byte) /\ Place(W, F)
      /\ OwedAt(W, F, C, Pos(W), owed)
  BY DEF Stream, Shape, Unread
<1>1. /\ i = Len(chunk) /\ i' = 0
      /\ UNCHANGED <<state, cur_video_ch, cur_video_len, len_byte_cnt, cur_send_video_len, owed>>
  BY DEF TypeInv, CallT, Arrive, parserVars, header, history
<1>2. /\ chunk' \in Seq(Byte) /\ wire' \in Seq(Byte) /\ Len(chunk') + Len(wire') = Len(wire)
      /\ \A k \in 1 .. Len(chunk') : chunk'[k] = wire[k]
      /\ \A k \in 1 .. Len(wire') : wire'[k] = wire[Len(chunk') + k]
  BY Cutting DEF TypeInv
<1>3. /\ Len(wire) \in Nat /\ Len(wire') \in Nat /\ Len(chunk') \in Nat /\ Len(W) \in Nat
      /\ Len(chunk) \in Nat
  BY <1>0, <1>2 DEF TypeInv, HostT, CallT
<1>4. Pos(W)' = Pos(W) /\ Pos(W) = Len(W) - Len(wire)
  BY ONLY <1>1, <1>2, <1>3 DEF Pos
<1>5. \A k \in 1 .. Len(wire) : wire[k] = W[Len(W) - Len(wire) + k]
  BY ONLY <1>0 DEF Unread
<1>6. \A k \in 1 .. Len(wire') : wire'[k] = W[Len(W) - Len(wire') + k]
  <2>1. ASSUME NEW k \in 1 .. Len(wire') PROVE wire'[k] = W[Len(W) - Len(wire') + k]
    <3>0. Len(chunk') + Len(wire') = Len(wire)
      BY <1>2
    <3>1. /\ Len(chunk') + k \in 1 .. Len(wire)
          /\ Len(W) - Len(wire) + (Len(chunk') + k) = Len(W) - Len(wire') + k
      BY ONLY <1>3, <3>0, k \in 1 .. Len(wire')
    <3>2. wire[Len(chunk') + k] = W[Len(W) - Len(wire) + (Len(chunk') + k)]
      BY ONLY <1>5, <3>1
    <3> QED BY ONLY <1>2, <3>1, <3>2
  <2> QED BY ONLY <2>1
<1>7. \A k \in 1 .. Len(chunk') - i' : chunk'[i' + k] = W[Pos(W) + k]
  <2>1. ASSUME NEW k \in 1 .. Len(chunk') PROVE chunk'[k] = W[Pos(W) + k]
    <3>1. k \in 1 .. Len(wire)
      BY ONLY <1>2, <1>3
    <3> QED BY ONLY <1>2, <1>4, <1>5, <3>1
  <2>2. ASSUME NEW k \in 1 .. Len(chunk') - i' PROVE i' + k = k /\ k \in 1 .. Len(chunk')
    BY ONLY <1>1, <1>3
  <2> QED BY ONLY <2>1, <2>2
<1>8. Unread(W)'
  BY ONLY <1>0, <1>4, <1>6, <1>7 DEF Unread
<1>9. Place(W, F)'
  BY ONLY <1>0, <1>1, <1>4 DEF Place
<1> QED BY ONLY <1>0, <1>1, <1>4, <1>8, <1>9 DEF Stream

(* A payload byte that is behind the first p bytes has its place in what   *)
(* is owed.                                                                *)
LEMMA Due ==
    ASSUME NEW W, NEW F, NEW C, Shape(W, F, C), NEW p \in Nat, NEW f \in F,
           NEW c \in Channels, c = W[f + 4], NEW k \in 1 .. LengthAt(W, f), f + 8 + k > p
    PROVE  /\ f + 8 + k \in 1 .. Len(W) /\ p \in 0 .. Len(W)
           /\ C[c][p] \in Nat /\ C[c][Len(W)] \in Nat /\ C[c][f + 8 + k] \in Nat
           /\ C[c][f + 8 + k] - C[c][p] \in 1 .. C[c][Len(W)] - C[c][p]
<1> DEFINE len == LengthAt(W, f)
<1>1. /\ f \in Nat /\ len \in Nat /\ f + 8 + len <= Len(W) /\ Len(W) \in Nat /\ k \in 1 .. len
      /\ \A j \in 0 .. len : C[c][f + 8 + j] = C[c][f] + (IF c = W[f + 4] THEN j ELSE 0)
  <2>1. IsFrame(W, C, f) /\ Len(W) \in Nat
    BY DEF Shape
  <2>2. \A j \in 0 .. len : C[c][f + 8 + j] = C[c][f] + (IF c = W[f + 4] THEN j ELSE 0)
    BY ONLY <2>1, c \in Channels DEF IsFrame
  <2>3. f \in Nat /\ len \in Nat /\ f + 8 + len <= Len(W)
    BY ONLY <2>1 DEF IsFrame, FrameEnd
  <2> QED BY <2>1, <2>2, <2>3
<1>2. /\ \A q \in 0 .. Len(W) : C[c][q] \in Nat
      /\ \A q, r \in 0 .. Len(W) : q <= r => C[c][q] <= C[c][r]
  BY DEF Shape, Counts
<1> HIDE DEF len
<1>3. f \in Nat /\ len \in Nat /\ f + 8 + len <= Len(W) /\ Len(W) \in Nat
  BY <1>1
<1>4. /\ k \in 0 .. len /\ k - 1 \in 0 .. len /\ f + 8 + k \in 1 .. Len(W)
      /\ f + 8 + k \in 0 .. Len(W) /\ f + 8 + (k - 1) \in 0 .. Len(W) /\ f \in 0 .. Len(W)
      /\ p \in 0 .. Len(W) /\ Len(W) \in 0 .. Len(W)
      /\ p <= f + 8 + (k - 1) /\ f + 8 + k <= Len(W)
  <2>1. k \in 1 .. len
    BY <1>1
  <2> QED BY ONLY <1>3, <2>1, p \in Nat, f + 8 + k > p
<1> DEFINE last == C[c][f + 8 + k]
           before == C[c][f + 8 + (k - 1)]
           first == C[c][f]
           end == C[c][Len(W)]
           here == C[c][p]
<1>5. last = first + k /\ before = first + (k - 1)
  <2>1. \A j \in 0 .. len : C[c][f + 8 + j] = C[c][f] + j
    BY ONLY <1>1, c = W[f + 4]
  <2> QED BY ONLY <1>4, <2>1
<1>6. /\ last \in Nat /\ end \in Nat /\ here \in Nat /\ first \in Nat
      /\ last <= end /\ here <= before
  BY ONLY <1>2, <1>4
<1>7. k \in Int
  OBVIOUS
<1> HIDE DEF last, before, first, end, here
<1>8. last - here \in 1 .. end - here
  BY ONLY <1>5, <1>6, <1>7
<1> QED BY <1>4, <1>6, <1>8 DEF last, end, here

(* m bytes of payload for ch are handed over. *)
LEMMA OwedLess ==
    ASSUME NEW W, NEW F, NEW C, Shape(W, F, C), NEW p \in Nat, NEW m \in Nat, p + m <= Len(W),
           NEW o \in [Channels -> Seq(Byte)], OwedAt(W, F, C, p, o), NEW ch \in Channels,
           \A c \in Channels : C[c][p + m] = C[c][p] + (IF c = ch THEN m ELSE 0)
    PROVE  OwedAt(W, F, C, p + m, [o EXCEPT ![ch] = SubSeq(@, m + 1, Len(@))])
<1> DEFINE rest == [o EXCEPT ![ch] = SubSeq(@, m + 1, Len(@))]
<1>0. /\ Len(W) \in Nat /\ \A f \in F : f \in Nat /\ LengthAt(W, f) \in Nat /\ f + 8 + LengthAt(W, f) <= Len(W)
  BY DEF Shape, IsFrame, FrameEnd
<1>1. /\ \A c \in Channels : \A q \in 0 .. Len(W) : C[c][q] \in Nat
      /\ \A c \in Channels : \A q, r \in 0 .. Len(W) : q <= r => C[c][q] <= C[c][r]
  BY DEF Shape, Counts
<1>2. p \in 0 .. Len(W) /\ p + m \in 0 .. Len(W) /\ Len(W) \in 0 .. Len(W)
  BY ONLY <1>0, p + m <= Len(W), p \in Nat, m \in Nat
<1>3. /\ \A c \in Channels : Len(o[c]) = C[c][Len(W)] - C[c][p]
      /\ \A c \in Channels : \A f \in F : c = W[f + 4] => \A k \in 1 .. LengthAt(W, f) :
             f + 8 + k > p => o[c][C[c][f + 8 + k] - C[c][p]] = W[f + 8 + k]
  BY DEF OwedAt
<1>4. \A c \in Channels \ {ch} : rest[c] = o[c] /\ C[c][p + m] = C[c][p]
  <2>1. \A c \in Channels \ {ch} : C[c][p] \in Nat /\ C[c][p + m] = C[c][p] + 0
    BY ONLY <1>1, <1>2, \A c \in Channels : C[c][p + m] = C[c][p] + (IF c = ch THEN m ELSE 0)
  <2> QED BY <2>1
<1>5. ASSUME NEW c \in Channels \ {ch}
      PROVE  /\ Len(rest[c]) = C[c][Len(W)] - C[c][p + m]
             /\ \A f \in F : c = W[f + 4] => \A k \in 1 .. LengthAt(W, f) :
                    f + 8 + k > p + m => rest[c][C[c][f + 8 + k] - C[c][p + m]] = W[f + 8 + k]
  <2>1. \A f \in F : \A k \in 1 .. LengthAt(W, f) : f + 8 + k > p + m => f + 8 + k > p
    BY ONLY <1>0, p \in Nat, m \in Nat
  <2> HIDE DEF rest
  <2> QED BY ONLY <1>3, <1>4, <2>1, c \in Channels \ {ch}
<1>6. /\ C[ch][p + m] = C[ch][p] + m /\ C[ch][p] \in Nat /\ C[ch][Len(W)] \in Nat
      /\ C[ch][p + m] <= C[ch][Len(W)] /\ o[ch] \in Seq(Byte)
  BY <1>1, <1>2
<1>7. /\ rest[ch] = SubSeq(o[ch], m + 1, Len(o[ch]))
      /\ Len(o[ch]) \in Nat /\ Len(o[ch]) = C[ch][Len(W)] - C[ch][p] /\ m <= Len(o[ch])
  BY <1>3, <1>6
<1>8. Len(rest[ch]) = Len(o[ch]) - m /\ \A k \in 1 .. Len(o[ch]) - m : rest[ch][k] = o[ch][m + k]
  <2>1. /\ rest[ch] = SubSeq(o[ch], m + 1, Len(o[ch])) /\ o[ch] \in Seq(Byte)
        /\ Len(o[ch]) \in Nat /\ m <= Len(o[ch])
    BY ONLY <1>6, <1>7
  <2> HIDE DEF rest
  <2>2. /\ Len(SubSeq(o[ch], m + 1, Len(o[ch]))) = Len(o[ch]) - m
        /\ \A k \in 1 .. Len(o[ch]) - m : SubSeq(o[ch], m + 1, Len(o[ch]))[k] = o[ch][m + k]
    <3> DEFINE d == o[ch]
    <3>1. d \in Seq(Byte) /\ Len(d) \in Nat /\ m <= Len(d)
      BY ONLY <2>1
    <3> HIDE DEF d
    <3>2. /\ Len(SubSeq(d, m + 1, Len(d))) = Len(d) - m
          /\ \A k \in 1 .. Len(d) - m : SubSeq(d, m + 1, Len(d))[k] = d[m + k]
      BY ONLY <3>1, m \in Nat
    <3> QED BY <3>2 DEF d
  <2> QED BY ONLY <2>1, <2>2
<1> HIDE DEF rest
<1>9. Len(rest[ch]) = C[ch][Len(W)] - C[ch][p + m]
  <2>1. /\ C[ch][p + m] = C[ch][p] + m /\ C[ch][p] \in Nat /\ C[ch][Len(W)] \in Nat
        /\ Len(o[ch]) = C[ch][Len(W)] - C[ch][p] /\ Len(rest[ch]) = Len(o[ch]) - m
    BY <1>6, <1>7, <1>8
  <2> QED BY ONLY <2>1, m \in Nat
<1>10. ASSUME NEW f \in F, ch = W[f + 4], NEW k \in 1 .. LengthAt(W, f), f + 8 + k > p + m
       PROVE  rest[ch][C[ch][f + 8 + k] - C[ch][p + m]] = W[f + 8 + k]
  <2> DEFINE j == C[ch][f + 8 + k] - C[ch][p + m]
  <2>1. j \in 1 .. C[ch][Len(W)] - C[ch][p + m] /\ C[ch][f + 8 + k] \in Nat /\ f + 8 + k \in Nat
    <3>1. p + m \in Nat
      OBVIOUS
    <3>2. /\ f + 8 + k \in 1 .. Len(W) /\ C[ch][f + 8 + k] \in Nat
          /\ C[ch][f + 8 + k] - C[ch][p + m] \in 1 .. C[ch][Len(W)] - C[ch][p + m]
      BY ONLY <1>10, <3>1, Due, Shape(W, F, C), f \in F, ch \in Channels, k \in 1 .. LengthAt(W, f)
    <3> QED BY <3>2
  <2>2. o[ch][C[ch][f + 8 + k] - C[ch][p]] = W[f + 8 + k]
    <3>1. f + 8 + k > p
      BY ONLY <1>10, <2>1, p \in Nat, m \in Nat
    <3> QED BY ONLY <1>3, <1>10, <3>1, f \in F, ch \in Channels, k \in 1 .. LengthAt(W, f)
  <2>3. j \in 1 .. Len(o[ch]) - m /\ m + j = C[ch][f + 8 + k] - C[ch][p]
    <3> DEFINE last == C[ch][f + 8 + k]
               end == C[ch][Len(W)]
               here == C[ch][p]
               there == C[ch][p + m]
    <3>1. /\ there = here + m /\ here \in Nat /\ end \in Nat /\ Len(o[ch]) = end - here
          /\ last \in Nat /\ last - there \in 1 .. end - there
      BY <1>6, <1>7, <2>1
    <3> HIDE DEF last, end, here, there
    <3>2. last - there \in 1 .. Len(o[ch]) - m /\ m + (last - there) = last - here
      BY ONLY <3>1, m \in Nat
    <3> QED BY <3>2 DEF last, here, there
  <2>4. rest[ch][j] = o[ch][m + j]
    <3> HIDE DEF j
    <3> QED BY ONLY <1>8, <2>3
  <2> QED BY ONLY <2>2, <2>3, <2>4
<1>11. ASSUME NEW c \in Channels
       PROVE  /\ Len(rest[c]) = C[c][Len(W)] - C[c][p + m]
              /\ \A f \in F : c = W[f + 4] => \A k \in 1 .. LengthAt(W, f) :
                     f + 8 + k > p + m => rest[c][C[c][f + 8 + k] - C[c][p + m]] = W[f + 8 + k]
  <2>1. CASE c = ch
    BY ONLY <1>9, <1>10, <2>1
  <2>2. CASE c # ch
    BY ONLY <1>5, <2>2, c \in Channels
  <2> QED BY ONLY <2>1, <2>2
<1>12. OwedAt(W, F, C, p + m, rest)
  BY ONLY <1>11 DEF OwedAt
<1> QED BY <1>12 DEF rest

(* What is handed over is what the host sent next to that channel. *)
LEMMA TransferStep ==
    ASSUME TypeInv, NEW W, NEW F, NEW C, Stream(W, F, C), Transfer
    PROVE  Stream(W, F, C)' /\ (wrong' => wrong)
<1> DEFINE p == Pos(W)
           s == cur_send_video_len
           due == owed[cur_video_ch]
<1>0. /\ p \in Nat /\ Shape(W, F, C) /\ Unread(W) /\ W \in Seq(Byte) /\ Place(W, F)
      /\ OwedAt(W, F, C, p, owed) /\ Len(W) \in Nat
  BY DEF Stream, Shape, Unread
<1>00. /\ state = 5 /\ i + msg_len \in 0 .. Len(chunk) /\ msg_len \in Int /\ s \in 0 .. cur_video_len
       /\ i \in 0 .. Len(chunk) /\ Len(chunk) \in Nat /\ 2 * Len(chunk) < WORD
       /\ Piece(msg_len) /\ cur_video_len \in Nat /\ chunk \in Seq(Byte)
       /\ owed \in [Channels -> Seq(Byte)]
       /\ cur_video_ch \in Channels /\ due \in Seq(Byte) /\ Len(due) \in Nat
  BY DEF TypeInv, HostT, CallT, ParserT, Transfer
<1>3. PICK f \in F : p = f + 8 + s /\ cur_video_ch = W[f + 4] /\ cur_video_len = LengthAt(W, f)
  BY ONLY <1>0, <1>00 DEF Place
<1>1. /\ state = 5 /\ i + msg_len <= Len(chunk) /\ msg_len \in Nat /\ s \in Nat /\ i \in Nat
      /\ msg_len <= cur_video_len - s /\ chunk \in Seq(Byte) /\ owed \in [Channels -> Seq(Byte)]
      /\ cur_video_ch \in Channels /\ due \in Seq(Byte) /\ Len(due) \in Nat
  <2>1. 2 * cur_video_len < WORD
    BY ONLY <1>0, <1>3, f \in F DEF Shape, IsFrame
  <2>2. WORD \in Nat
    BY ONLY Words
  <2>3. msg_len \in 0 .. cur_video_len - s
    <3>1. msg_len \in 0 .. cur_video_len - s \/ msg_len = cur_video_len - s - WORD
      BY <1>00 DEF Piece
    <3> DEFINE total == cur_video_len
               size == Len(chunk)
    <3>2. ~(msg_len = total - s - WORD)
      <4>1. /\ i + msg_len \in 0 .. size /\ msg_len \in Int /\ s \in 0 .. total /\ i \in 0 .. size
            /\ size \in Nat /\ 2 * size < WORD /\ total \in Nat /\ 2 * total < WORD
        BY <1>00, <2>1
      <4> HIDE DEF total, size, s
      <4> QED BY ONLY <2>2, <4>1
    <3> QED BY <3>1, <3>2
  <2>4. s \in Nat /\ i \in Nat /\ i + msg_len <= Len(chunk) /\ msg_len \in Nat /\ msg_len <= cur_video_len - s
    <3> HIDE DEF s
    <3> QED BY ONLY <1>00, <2>3
  <2> QED BY <1>00, <2>4
<1>2. /\ UNCHANGED <<wire, chunk, cur_video_ch, cur_video_len>> /\ i' = i + msg_len
      /\ IF s + msg_len = cur_video_len THEN state' = 0 /\ cur_send_video_len' = 0
         ELSE cur_send_video_len' = s + msg_len /\ state' = state
  <2>1. (s + msg_len) % WORD = s + msg_len
    BY <1>1, <1>00, SentOn DEF TypeInv
  <2> QED BY <2>1 DEF Transfer, Consume, hostVars, header
<1>4. Unread(W)' /\ Pos(W)' = p + msg_len
  BY <1>0, <1>1, <1>2, Moved
<1>5. p + msg_len <= Len(W) /\ \A k \in 1 .. msg_len : chunk[i + k] = W[p + k]
  BY ONLY <1>0, <1>1, TypeInv, NextBytes
<1> HIDE DEF p, s, due
<1>6. f \in Nat /\ LengthAt(W, f) \in Nat /\ s + msg_len \in 0 .. LengthAt(W, f) /\ s \in 0 .. LengthAt(W, f)
  <2>1. f \in Nat /\ LengthAt(W, f) \in Nat
    BY ONLY <1>0, f \in F DEF Shape, IsFrame
  <2> QED BY ONLY <1>1, <1>3, <2>1
<1>7. \A c \in Channels : \A k \in 0 .. LengthAt(W, f) :
          C[c][f + 8 + k] = C[c][f] + (IF c = cur_video_ch THEN k ELSE 0)
  <2>1. IsFrame(W, C, f) /\ cur_video_ch = W[f + 4]
    BY ONLY <1>0, <1>3, f \in F DEF Shape
  <2>2. \A c \in Channels : \A k \in 0 .. LengthAt(W, f) :
            C[c][f + 8 + k] = C[c][f] + (IF c = W[f + 4] THEN k ELSE 0)
    BY ONLY <2>1 DEF IsFrame
  <2> QED BY ONLY <2>1, <2>2
<1>8. \A c \in Channels : C[c][p] \in Nat /\ C[c][f] \in Nat
  <2>1. f \in 0 .. Len(W) /\ p \in 0 .. Len(W)
    BY ONLY <1>0, <1>1, <1>3, <1>5, <1>6
  <2> QED BY ONLY <1>0, <2>1 DEF Shape, Counts
<1>9. \A c \in Channels : C[c][p + msg_len] = C[c][p] + (IF c = cur_video_ch THEN msg_len ELSE 0)
  <2>1. p + msg_len = f + 8 + (s + msg_len)
    BY ONLY <1>1, <1>3, <1>6
  <2>2. \A c \in Channels : /\ C[c][f + 8 + s] = C[c][f] + (IF c = cur_video_ch THEN s ELSE 0)
                            /\ C[c][f + 8 + (s + msg_len)] =
                                   C[c][f] + (IF c = cur_video_ch THEN s + msg_len ELSE 0)
    BY ONLY <1>6, <1>7
  <2>3. ASSUME NEW c \in Channels
        PROVE  C[c][p + msg_len] = C[c][p] + (IF c = cur_video_ch THEN msg_len ELSE 0)
    <3>1. /\ C[c][p] = C[c][f] + (IF c = cur_video_ch THEN s ELSE 0)
          /\ C[c][p + msg_len] = C[c][f] + (IF c = cur_video_ch THEN s + msg_len ELSE 0)
          /\ C[c][f] \in Nat
      BY ONLY <1>3, <1>8, <2>1, <2>2, c \in Channels
    <3>2. CASE c = cur_video_ch
      BY ONLY <1>1, <3>1, <3>2
    <3>3. CASE c # cur_video_ch
      BY ONLY <1>1, <3>1, <3>3
    <3> QED BY <3>2, <3>3
  <2> QED BY ONLY <2>3
<1>10. msg_len <= Len(due)
  <2>1. Len(due) = C[cur_video_ch][Len(W)] - C[cur_video_ch][p]
    BY ONLY <1>0, <1>1 DEF OwedAt, due
  <2>2. C[cur_video_ch][p + msg_len] <= C[cur_video_ch][Len(W)] /\ C[cur_video_ch][Len(W)] \in Nat
    <3>1. p + msg_len \in 0 .. Len(W) /\ Len(W) \in 0 .. Len(W)
      BY ONLY <1>0, <1>1, <1>5
    <3> QED BY ONLY <1>0, <1>1, <1>5, <3>1 DEF Shape, Counts
  <2>3. C[cur_video_ch][p + msg_len] = C[cur_video_ch][p] + msg_len /\ C[cur_video_ch][p] \in Nat
    BY ONLY <1>1, <1>8, <1>9
  <2>4. msg_len \in Nat /\ Len(due) \in Nat
    BY <1>1
  <2> QED BY ONLY <2>1, <2>2, <2>3, <2>4
<1>11. \A k \in 1 .. msg_len : due[k] = W[p + k]
  <2>1. ASSUME NEW k \in 1 .. msg_len PROVE due[k] = W[p + k]
    <3>1. /\ s + k \in 1 .. LengthAt(W, f) /\ s + k \in 0 .. LengthAt(W, f) /\ f + 8 + (s + k) > p
          /\ f + 8 + (s + k) = p + k
      BY ONLY <1>1, <1>3, <1>6
    <3>2. due[C[cur_video_ch][f + 8 + (s + k)] - C[cur_video_ch][p]] = W[f + 8 + (s + k)]
      BY ONLY <1>0, <1>1, <1>3, <3>1 DEF OwedAt, due
    <3>3. /\ C[cur_video_ch][f + 8 + (s + k)] = C[cur_video_ch][f] + (s + k)
          /\ C[cur_video_ch][f + 8 + s] = C[cur_video_ch][f] + s
      BY ONLY <1>1, <1>6, <1>7, <3>1
    <3>4. C[cur_video_ch][f + 8 + (s + k)] - C[cur_video_ch][p] = k
      BY ONLY <1>1, <1>3, <1>8, <3>3
    <3> QED BY ONLY <3>1, <3>2, <3>4
  <2> QED BY ONLY <2>1
<1>12. SubSeq(chunk, i + 1, i + msg_len) = SubSeq(due, 1, msg_len)
  <2> DEFINE a == SubSeq(chunk, i + 1, i + msg_len)
             b == SubSeq(due, 1, msg_len)
  <2>0. /\ chunk \in Seq(Byte) /\ i \in Nat /\ msg_len \in Nat /\ i + msg_len <= Len(chunk)
        /\ due \in Seq(Byte) /\ msg_len <= Len(due)
    BY ONLY <1>1, <1>10
  <2> HIDE DEF due
  <2>1. a \in Seq(Byte) /\ Len(a) = msg_len /\ \A k \in 1 .. msg_len : a[k] = chunk[i + k]
    BY ONLY <2>0, SMTT(30)
  <2>2. b \in Seq(Byte) /\ Len(b) = msg_len /\ \A k \in 1 .. msg_len : b[k] = due[k]
    BY ONLY <2>0, SMTT(30)
  <2> HIDE DEF a, b
  <2>3. a = b
    BY ONLY <1>5, <1>11, <2>1, <2>2, SeqEqual
  <2> QED BY <2>3 DEF a, b
<1>13. /\ owed' = [owed EXCEPT ![cur_video_ch] = SubSeq(@, msg_len + 1, Len(@))]
       /\ wrong' => wrong
  <2>1. /\ msg_len <= Len(owed[cur_video_ch])
        /\ SubSeq(chunk, i + 1, i + msg_len) = SubSeq(owed[cur_video_ch], 1, msg_len)
        /\ msg_len \in 0 .. Len(owed[cur_video_ch])
    BY <1>1, <1>10, <1>12 DEF due
  <2>2. HandOver
    BY DEF Transfer
  <2>3. owed' = [owed EXCEPT ![cur_video_ch] = SubSeq(@, msg_len + 1, Len(@))]
    BY ONLY <2>1, <2>2 DEF HandOver
  <2>4. wrong' => wrong
    BY ONLY <2>1, <2>2, Zenon DEF HandOver
  <2> QED BY <2>3, <2>4
<1>14. OwedAt(W, F, C, p + msg_len, owed')
  BY ONLY <1>0, <1>1, <1>5, <1>9, <1>13, OwedLess
<1>15. Place(W, F)'
  <2>1. CASE s + msg_len = cur_video_len
    <3>1. state' = 0 /\ Pos(W)' = FrameEnd(W, f)
      BY ONLY <1>1, <1>2, <1>3, <1>4, <1>6, <2>1 DEF FrameEnd
    <3>2. Outside(W, F, FrameEnd(W, f)) /\ FrameEnd(W, f) \in Nat
      BY ONLY <1>0, <1>6, EndsOutside, f \in F DEF FrameEnd
    <3>3. Hunts(W, F, FrameEnd(W, f), 0)
      BY ONLY <3>2 DEF Hunts, Matched
    <3> QED BY ONLY <3>1, <3>3 DEF Place
  <2>2. CASE s + msg_len # cur_video_len
    <3>1. state' = 5 /\ Pos(W)' = f + 8 + cur_send_video_len'
      BY ONLY <1>1, <1>2, <1>3, <1>4, <1>6, <2>2
    <3> QED BY ONLY <1>2, <1>3, <3>1 DEF Place
  <2> QED BY <2>1, <2>2
<1> QED BY <1>0, <1>4, <1>13, <1>14, <1>15 DEF Stream

(* The host adds u to W. *)
Adds(W, u, V) == u \in Seq(Byte) /\ V = W \o u

(* D goes on counting where C ends. *)
CountsOn(W, C, V, D) ==
    /\ \A c \in Channels : \A q \in 0 .. Len(W) : D[c][q] = C[c][q]
    /\ \A c \in Channels : \A q \in Len(W) .. Len(V) : D[c][q] \in Nat
    /\ \A c \in Channels : \A p, q \in Len(W) .. Len(V) : p <= q => D[c][p] <= D[c][q]

(* The new frames of G, if any, carry t to ch. *)
Carries(W, F, C, V, G, D, ch, t) ==
    /\ \A c \in Channels : D[c][Len(V)] = C[c][Len(W)] + (IF c = ch THEN Len(t) ELSE 0)
    /\ \A g \in G \ F : /\ V[g + 4] = ch /\ LengthAt(V, g) = Len(t)
                        /\ \A k \in 1 .. Len(t) : /\ D[ch][g + 8 + k] = C[ch][Len(W)] + k
                                                  /\ V[g + 8 + k] = t[k]

(* What the host adds changes nothing about the frames before. *)
LEMMA Longer ==
    ASSUME NEW W, NEW F, NEW C, Shape(W, F, C), NEW u, NEW V, Adds(W, u, V)
    PROVE  /\ V \in Seq(Byte) /\ Len(V) = Len(W) + Len(u)
           /\ \A k \in 1 .. Len(W) : V[k] = W[k]
           /\ \A k \in 1 .. Len(u) : V[Len(W) + k] = u[k]
           /\ \A f \in F : /\ f \in Nat /\ LengthAt(W, f) \in Nat
                           /\ FrameEnd(V, f) = FrameEnd(W, f) /\ FrameEnd(W, f) <= Len(W)
                           /\ \A k \in 1 .. 8 : V[f + k] = W[f + k]
                           /\ V[f + 4] = W[f + 4] /\ LengthAt(V, f) = LengthAt(W, f)
                           /\ \A n \in 0 .. 4 : LengthTo(V, f, n) = LengthTo(W, f, n)
<1>1. W \in Seq(Byte) /\ Len(W) \in Nat /\ Len(u) \in Nat
  BY DEF Shape, Adds
<1>2. V \in Seq(Byte) /\ Len(V) = Len(W) + Len(u)
  BY ONLY <1>1, Adds(W, u, V), ConcatProperties DEF Adds
<1>3. \A k \in 1 .. Len(W) + Len(u) : V[k] = IF k <= Len(W) THEN W[k] ELSE u[k - Len(W)]
  BY ONLY <1>1, Adds(W, u, V), ConcatProperties DEF Adds
<1>4. \A k \in 1 .. Len(W) : V[k] = W[k]
  BY ONLY <1>1, <1>3
<1>5. \A k \in 1 .. Len(u) : V[Len(W) + k] = u[k]
  <2>1. ASSUME NEW k \in 1 .. Len(u) PROVE V[Len(W) + k] = u[k]
    <3>1. Len(W) + k \in 1 .. Len(W) + Len(u) /\ ~(Len(W) + k <= Len(W)) /\ Len(W) + k - Len(W) = k
      BY ONLY <1>1, k \in 1 .. Len(u)
    <3> QED BY ONLY <1>3, <3>1
  <2> QED BY ONLY <2>1
<1>6. ASSUME NEW f \in F
      PROVE  /\ f \in Nat /\ LengthAt(W, f) \in Nat
             /\ FrameEnd(V, f) = FrameEnd(W, f) /\ FrameEnd(W, f) <= Len(W)
             /\ \A k \in 1 .. 8 : V[f + k] = W[f + k]
             /\ V[f + 4] = W[f + 4] /\ LengthAt(V, f) = LengthAt(W, f)
             /\ \A n \in 0 .. 4 : LengthTo(V, f, n) = LengthTo(W, f, n)
  <2>1. f \in Nat /\ LengthAt(W, f) \in Nat /\ f + 8 + LengthAt(W, f) <= Len(W)
    BY ONLY Shape(W, F, C), f \in F DEF Shape, IsFrame, FrameEnd
  <2> DEFINE len == LengthAt(W, f)
  <2>2. len \in Nat /\ f + 8 + len <= Len(W)
    BY ONLY <2>1
  <2> HIDE DEF len
  <2>3. \A k \in 1 .. 8 : f + k \in 1 .. Len(W)
    BY ONLY <1>1, <2>1, <2>2
  <2>4. \A k \in 1 .. 8 : V[f + k] = W[f + k]
    BY ONLY <1>4, <2>3
  <2>40. /\ V[f + 4] = W[f + 4] /\ V[f + 5] = W[f + 5] /\ V[f + 6] = W[f + 6]
         /\ V[f + 7] = W[f + 7] /\ V[f + 8] = W[f + 8]
    BY ONLY <2>4
  <2>5. /\ V[f + 4] = W[f + 4] /\ LengthAt(V, f) = LengthAt(W, f)
        /\ \A n \in 0 .. 4 : LengthTo(V, f, n) = LengthTo(W, f, n)
    BY ONLY <2>40 DEF LengthAt, LengthTo
  <2>6. FrameEnd(V, f) = FrameEnd(W, f) /\ FrameEnd(W, f) <= Len(W)
    BY ONLY <2>1, <2>5 DEF FrameEnd
  <2> QED BY ONLY <2>1, <2>4, <2>5, <2>6
<1> QED BY ONLY <1>2, <1>4, <1>5, <1>6

LEMMA FramesStay ==
    ASSUME NEW W, NEW F, NEW C, Shape(W, F, C), NEW u, NEW V, Adds(W, u, V),
           NEW D, CountsOn(W, C, V, D),
           NEW f \in F
    PROVE  IsFrame(V, D, f)
<1>0. \A c \in Channels : \A q \in 0 .. Len(W) : D[c][q] = C[c][q]
  BY DEF CountsOn
<1>1. W \in Seq(Byte) /\ Len(W) \in Nat /\ Len(u) \in Nat /\ IsFrame(W, C, f)
  BY DEF Shape, Adds
<1>2. /\ f \in Nat /\ LengthAt(W, f) \in Nat /\ Len(V) = Len(W) + Len(u)
      /\ FrameEnd(V, f) = FrameEnd(W, f) /\ FrameEnd(W, f) <= Len(W)
      /\ \A k \in 1 .. 8 : V[f + k] = W[f + k]
  BY ONLY Longer, Shape(W, F, C), Adds(W, u, V), f \in F
<1> DEFINE len == LengthAt(W, f)
<1>3. len \in Nat /\ f + 8 + len <= Len(W)
  BY ONLY <1>2 DEF FrameEnd
<1>4. V[f + 4] = W[f + 4] /\ LengthAt(V, f) = len /\ 2 * len < WORD
  <2>1. V[f + 4] = W[f + 4] /\ LengthAt(V, f) = LengthAt(W, f)
    BY ONLY Longer, Shape(W, F, C), Adds(W, u, V), f \in F
  <2>2. 2 * LengthAt(W, f) < WORD
    BY ONLY <1>1 DEF IsFrame
  <2> QED BY <2>1, <2>2
<1> HIDE DEF len
<1>5. /\ f \in 0 .. Len(W)
      /\ \A k \in 0 .. 8 : f + k \in 0 .. Len(W)
      /\ \A k \in 0 .. len : f + 8 + k \in 0 .. Len(W)
  <2>1. f \in Nat /\ Len(W) \in Nat
    BY <1>1, <1>2
  <2> QED BY ONLY <1>3, <2>1
<1>6. \A c \in Channels : D[c][f] = C[c][f]
  BY ONLY <1>5, <1>0
<1>7. \A c \in Channels : \A k \in 0 .. 8 : D[c][f + k] = D[c][f]
  <2>1. \A c \in Channels : \A k \in 0 .. 8 : C[c][f + k] = C[c][f]
    BY ONLY <1>1 DEF IsFrame
  <2> QED BY ONLY <1>5, <1>6, <2>1, <1>0
<1>8. \A c \in Channels : \A k \in 0 .. LengthAt(V, f) :
          D[c][f + 8 + k] = D[c][f] + (IF c = V[f + 4] THEN k ELSE 0)
  <2>1. \A c \in Channels : \A k \in 0 .. len :
            C[c][f + 8 + k] = C[c][f] + (IF c = W[f + 4] THEN k ELSE 0)
    BY ONLY <1>1 DEF IsFrame, len
  <2>2. \A c \in Channels : \A k \in 0 .. len :
            D[c][f + 8 + k] = D[c][f] + (IF c = W[f + 4] THEN k ELSE 0)
    BY ONLY <1>5, <1>6, <2>1, <1>0
  <2> QED BY ONLY <1>4, <2>2
<1>9. W[f + 1] = 18 /\ W[f + 2] = 52 /\ W[f + 3] = 86 /\ W[f + 4] \in Channels
  BY ONLY <1>1 DEF IsFrame
<1>10. V[f + 1] = 18 /\ V[f + 2] = 52 /\ V[f + 3] = 86 /\ V[f + 4] \in Channels
  <2>1. V[f + 1] = W[f + 1] /\ V[f + 2] = W[f + 2] /\ V[f + 3] = W[f + 3] /\ V[f + 4] = W[f + 4]
    BY ONLY <1>2
  <2> QED BY ONLY <1>9, <2>1
<1>11. f \in Nat /\ LengthAt(V, f) \in Nat /\ 2 * LengthAt(V, f) < WORD /\ FrameEnd(V, f) <= Len(V)
  <2>1. FrameEnd(V, f) = f + 8 + len
    BY ONLY <1>4 DEF FrameEnd
  <2> QED BY ONLY <1>1, <1>2, <1>3, <1>4, <2>1
<1> QED BY ONLY <1>7, <1>8, <1>10, <1>11 DEF IsFrame

(* The parser is where it was. *)
LEMMA ReadOn ==
    ASSUME TypeInv, NEW W, NEW F, NEW C, Stream(W, F, C), NEW u, NEW V, Adds(W, u, V),
           NEW G, F \subseteq G, \A g \in G \ F : g = Len(W),
           wire' = wire \o u, UNCHANGED <<parserVars, callVars>>
    PROVE  /\ Pos(V)' = Pos(W) /\ Pos(W) \in Nat /\ Pos(W) <= Len(W)
           /\ Unread(V)' /\ Place(V, G)'
<1>1. /\ W \in Seq(Byte) /\ Len(W) \in Nat /\ Len(u) \in Nat /\ wire \in Seq(Byte) /\ Len(wire) \in Nat
      /\ Len(chunk) - i \in Nat /\ Shape(W, F, C) /\ Unread(W) /\ Place(W, F)
  BY DEF Stream, Shape, TypeInv, HostT, CallT, Adds
<1>2. /\ V \in Seq(Byte) /\ Len(V) = Len(W) + Len(u)
      /\ \A k \in 1 .. Len(W) : V[k] = W[k]
      /\ \A k \in 1 .. Len(u) : V[Len(W) + k] = u[k]
      /\ \A f \in F : /\ FrameEnd(V, f) = FrameEnd(W, f)
                      /\ V[f + 4] = W[f + 4] /\ LengthAt(V, f) = LengthAt(W, f)
                      /\ \A n \in 0 .. 4 : LengthTo(V, f, n) = LengthTo(W, f, n)
  BY ONLY Longer, <1>1, Adds(W, u, V)
<1>3. Len(wire') = Len(wire) + Len(u)
      /\ \A k \in 1 .. Len(wire) + Len(u) :
             wire'[k] = IF k <= Len(wire) THEN wire[k] ELSE u[k - Len(wire)]
  BY ONLY <1>1, Adds(W, u, V), wire' = wire \o u, ConcatProperties DEF Adds
<1>4. /\ UNCHANGED <<state, cur_video_ch, cur_video_len, len_byte_cnt, cur_send_video_len, chunk, i>>
  BY DEF parserVars, header, callVars
<1>5. /\ Pos(W) = Len(W) - (Len(chunk) - i) - Len(wire) /\ Pos(W) \in Nat
      /\ Pos(V)' = Len(V) - (Len(chunk) - i) - Len(wire')
  BY ONLY <1>1, <1>4 DEF Pos, Unread
<1>6. Pos(V)' = Pos(W) /\ Pos(W) \in Nat /\ Pos(W) <= Len(W)
  <2>1. Len(V) = Len(W) + Len(u) /\ Len(wire') = Len(wire) + Len(u)
    BY <1>2, <1>3
  <2> DEFINE rest == Len(chunk) - i
  <2>2. /\ rest \in Nat /\ Pos(W) = Len(W) - rest - Len(wire) /\ Pos(W) \in Nat
        /\ Pos(V)' = Len(V) - rest - Len(wire')
    BY <1>1, <1>5
  <2> HIDE DEF rest
  <2> QED BY ONLY <1>1, <2>1, <2>2
<1>7. ASSUME NEW k \in 1 .. Len(wire') PROVE wire'[k] = V[Len(V) - Len(wire') + k]
  <2>0. /\ Len(V) = Len(W) + Len(u) /\ Len(wire') = Len(wire) + Len(u)
        /\ Len(W) - Len(wire) \in Nat
    <3>1. Len(V) = Len(W) + Len(u) /\ Len(wire') = Len(wire) + Len(u)
      BY <1>2, <1>3
    <3>2. Len(W) - Len(wire) \in Nat
      <4> DEFINE rest == Len(chunk) - i
      <4>1. rest \in Nat /\ Pos(W) = Len(W) - rest - Len(wire) /\ Pos(W) \in Nat
        BY <1>1, <1>5
      <4> HIDE DEF rest
      <4> QED BY ONLY <1>1, <4>1
    <3> QED BY <3>1, <3>2
  <2>1. CASE k <= Len(wire)
    <3>1. /\ k \in 1 .. Len(wire) /\ k \in 1 .. Len(wire) + Len(u)
          /\ Len(V) - Len(wire') + k = Len(W) - Len(wire) + k
          /\ Len(W) - Len(wire) + k \in 1 .. Len(W)
      BY ONLY <1>1, <2>0, <2>1, k \in 1 .. Len(wire')
    <3>2. wire[k] = W[Len(W) - Len(wire) + k]
      BY ONLY <1>1, <3>1 DEF Unread
    <3> QED BY ONLY <1>2, <1>3, <2>1, <3>1, <3>2
  <2>2. CASE ~(k <= Len(wire))
    <3>1. /\ k \in 1 .. Len(wire) + Len(u) /\ k - Len(wire) \in 1 .. Len(u)
          /\ Len(V) - Len(wire') + k = Len(W) + (k - Len(wire))
      BY ONLY <1>1, <2>0, <2>2, k \in 1 .. Len(wire')
    <3> QED BY ONLY <1>2, <1>3, <2>2, <3>1
  <2> QED BY <2>1, <2>2
<1>8. ASSUME NEW k \in 1 .. Len(chunk) - i PROVE chunk[i + k] = V[Pos(W) + k]
  <2>1. chunk[i + k] = W[Pos(W) + k]
    BY ONLY <1>1, k \in 1 .. Len(chunk) - i DEF Unread
  <2>2. Pos(W) + k \in 1 .. Len(W)
    <3> DEFINE rest == Len(chunk) - i
    <3>1. rest \in Nat /\ Pos(W) = Len(W) - rest - Len(wire) /\ Pos(W) \in Nat /\ k \in 1 .. rest
      BY <1>1, <1>5
    <3> HIDE DEF rest
    <3> QED BY ONLY <1>1, <3>1
  <2> QED BY ONLY <1>2, <2>1, <2>2
<1>9. Unread(V)'
  BY ONLY <1>4, <1>6, <1>7, <1>8 DEF Unread
<1>10. Outside(W, F, Pos(W)) => Outside(V, G, Pos(W))
  <2>1. \A g \in G \ F : ~(g < Pos(W))
    BY ONLY <1>1, <1>6, \A g \in G \ F : g = Len(W)
  <2> QED BY ONLY <1>2, <2>1 DEF Outside
<1>11. state <= 3 => Hunts(V, G, Pos(W), state)
  <2>1. ASSUME state <= 3, Matched(W, Pos(W), state) PROVE Matched(V, Pos(W), state)
    <3>1. state \in 0 .. 3
      BY <2>1 DEF TypeInv, ParserT
    <3>2. state <= Pos(W) /\ \A k \in 1 .. state : W[Pos(W) - state + k] = Marker[k]
      BY ONLY <2>1 DEF Matched
    <3> DEFINE q == Pos(W)
    <3>3. q \in Nat /\ q <= Len(W) /\ state <= q
      BY <1>6, <3>2
    <3>4. \A k \in 1 .. state : q - state + k \in 1 .. Len(W)
      <4> HIDE DEF q
      <4> QED BY ONLY <1>1, <3>1, <3>3
    <3>5. \A k \in 1 .. state : V[q - state + k] = W[q - state + k]
      BY ONLY <1>2, <3>4
    <3> QED BY <3>2, <3>5 DEF Matched
  <2>2. state <= 3 => Hunts(W, F, Pos(W), state)
    BY ONLY <1>1 DEF Place
  <2> QED BY ONLY <1>10, <2>1, <2>2, F \subseteq G DEF Hunts
<1>12. Place(V, G)'
  <2>1. state = 4 => len_byte_cnt \in 0 .. 4
    BY DEF TypeInv, ParserT
  <2>2. /\ state = 4 => \E f \in G : /\ Pos(W) = f + 4 + len_byte_cnt /\ cur_video_ch = V[f + 4]
                                     /\ cur_video_len = LengthTo(V, f, len_byte_cnt)
        /\ state = 5 => \E f \in G : /\ Pos(W) = f + 8 + cur_send_video_len
                                     /\ cur_video_ch = V[f + 4] /\ cur_video_len = LengthAt(V, f)
    BY ONLY <1>1, <1>2, <2>1, F \subseteq G DEF Place
  <2> QED BY ONLY <1>4, <1>6, <1>11, <2>2 DEF Place
<1> QED BY <1>6, <1>9, <1>12

(* What is added contains no header but that of a new frame, and completes *)
(* none.                                                                   *)
LEMMA HeadersStay ==
    ASSUME NEW W, NEW F, NEW C, Shape(W, F, C), NEW u, NEW V, Adds(W, u, V),
           NEW G, F \subseteq G, Len(u) > 0 => ~Continues(u[1]),
           \A k \in Nat : HeaderAt(u, k) =>
               \/ Len(W) + k \in G
               \/ \E g \in G : g < Len(W) + k /\ Len(W) + k + 4 <= FrameEnd(V, g)
    PROVE  Headers(V, G)
<1> DEFINE N == Len(W)
<1>1. /\ N \in Nat /\ Len(u) \in Nat /\ Len(V) = N + Len(u) /\ Headers(W, F)
      /\ \A k \in 1 .. N : V[k] = W[k]
      /\ \A k \in 1 .. Len(u) : V[N + k] = u[k]
      /\ \A f \in F : FrameEnd(V, f) = FrameEnd(W, f)
  <2>1. N \in Nat /\ Len(u) \in Nat /\ Headers(W, F)
    BY DEF Shape, Adds
  <2>2. /\ Len(V) = N + Len(u)
        /\ \A k \in 1 .. N : V[k] = W[k]
        /\ \A k \in 1 .. Len(u) : V[N + k] = u[k]
        /\ \A f \in F : FrameEnd(V, f) = FrameEnd(W, f)
    BY ONLY Longer, Shape(W, F, C), Adds(W, u, V)
  <2> QED BY ONLY <2>1, <2>2
<1> HIDE DEF N
<1>2. ASSUME NEW q \in Nat, HeaderAt(V, q)
      PROVE  q \in G \/ \E f \in G : f < q /\ q + 4 <= FrameEnd(V, f)
  <2>1. q + 4 <= N + Len(u) /\ (\A j \in 1 .. 3 : V[q + j] = Marker[j]) /\ V[q + 4] \in Channels
    BY ONLY <1>1, <1>2 DEF HeaderAt
  <2>2. CASE q + 4 <= N
    <3>1. \A j \in 1 .. 4 : q + j \in 1 .. N
      BY ONLY <1>1, <2>2, q \in Nat
    <3>2. \A j \in 1 .. 4 : V[q + j] = W[q + j]
      BY ONLY <1>1, <3>1
    <3>3. HeaderAt(W, q)
      BY ONLY <2>1, <2>2, <3>2 DEF HeaderAt, N
    <3>4. q \in F \/ \E f \in F : f < q /\ q + 4 <= FrameEnd(W, f)
      BY ONLY <1>1, <3>3 DEF Headers
    <3> QED BY ONLY <1>1, <3>4, F \subseteq G
  <2>3. CASE N <= q
    <3> DEFINE k == q - N
    <3>1. k \in Nat /\ N + k = q /\ k + 4 <= Len(u)
      BY ONLY <1>1, <2>1, <2>3, q \in Nat
    <3> HIDE DEF k
    <3>2. \A j \in 1 .. 4 : k + j \in 1 .. Len(u) /\ N + (k + j) = q + j
      BY ONLY <1>1, <3>1
    <3>3. \A j \in 1 .. 4 : V[q + j] = u[k + j]
      BY ONLY <1>1, <3>2
    <3>4. HeaderAt(u, k)
      BY ONLY <2>1, <3>1, <3>3 DEF HeaderAt
    <3>5. N + k \in G \/ \E g \in G : g < N + k /\ N + k + 4 <= FrameEnd(V, g)
      BY <3>1, <3>4 DEF N
    <3> QED BY ONLY <3>1, <3>5
  <2>4. CASE q < N /\ N < q + 4
    <3>1. Len(u) > 0 /\ 1 \in 1 .. Len(u) /\ N + 1 \in {q + 2, q + 3, q + 4}
      BY ONLY <1>1, <2>1, <2>4, q \in Nat
    <3>2. V[N + 1] = u[1]
      BY ONLY <1>1, <3>1
    <3>3. V[q + 2] = 52 /\ V[q + 3] = 86
      BY ONLY <2>1 DEF Marker
    <3>4. V[N + 1] \in {52, 86} \cup Channels
      BY ONLY <2>1, <3>1, <3>3
    <3> QED BY ONLY <3>1, <3>2, <3>4, Len(u) > 0 => ~Continues(u[1]) DEF Continues
  <2> QED BY ONLY <1>1, <2>2, <2>3, <2>4, q \in Nat
<1>3. Len(V) > 0 => ~Continues(V[1])
  <2>1. CASE N > 0
    <3>1. V[1] = W[1] /\ ~Continues(W[1])
      BY ONLY <1>1, <2>1 DEF Headers, N
    <3> QED BY ONLY <3>1
  <2>2. CASE N = 0
    <3>1. ASSUME Len(u) > 0 PROVE V[1] = u[1]
      <4>1. V[0 + 1] = u[1]
        BY ONLY <1>1, <2>2, <3>1
      <4> QED BY ONLY <4>1
    <3>2. Len(V) > 0 => Len(u) > 0
      BY ONLY <1>1, <2>2
    <3> QED BY ONLY <3>1, <3>2, Len(u) > 0 => ~Continues(u[1])
  <2> QED BY ONLY <1>1, <2>1, <2>2
<1> QED BY ONLY <1>2, <1>3 DEF Headers

(* Payload is counted on from where it was. *)
LEMMA CountOn ==
    ASSUME NEW W, NEW F, NEW C, Shape(W, F, C), NEW u, NEW V, Adds(W, u, V),
           NEW D, CountsOn(W, C, V, D)
    PROVE  Counts(V, D)
<1> DEFINE N == Len(W)
           M == Len(V)
<1>1. N \in Nat /\ M \in Nat /\ N <= M
  <2>1. /\ W \in Seq(Byte) /\ Len(W) \in Nat /\ Len(u) \in Nat
    BY DEF Shape, Adds
  <2>2. Len(V) = Len(W) + Len(u)
    BY ONLY Longer, Shape(W, F, C), Adds(W, u, V)
  <2> QED BY ONLY <2>1, <2>2
<1>2. /\ \A c \in Channels : \A q \in 0 .. N : D[c][q] = C[c][q] /\ D[c][q] \in Nat
      /\ \A c \in Channels : \A p, q \in 0 .. N : p <= q => D[c][p] <= D[c][q]
  BY DEF Shape, Counts, CountsOn
<1>3. /\ \A c \in Channels : \A q \in N .. M : D[c][q] \in Nat
      /\ \A c \in Channels : \A p, q \in N .. M : p <= q => D[c][p] <= D[c][q]
  BY DEF CountsOn
<1> HIDE DEF N, M
<1>4. ASSUME NEW c \in Channels, NEW q \in 0 .. M PROVE D[c][q] \in Nat
  <2>1. q \in 0 .. N \/ q \in N .. M
    BY ONLY <1>1, q \in 0 .. M
  <2> QED BY ONLY <1>2, <1>3, <2>1, c \in Channels
<1>5. ASSUME NEW c \in Channels, NEW p \in 0 .. M, NEW q \in 0 .. M, p <= q
      PROVE  D[c][p] <= D[c][q]
  <2>1. CASE q <= N
    <3>1. p \in 0 .. N /\ q \in 0 .. N
      BY ONLY <1>1, <1>5, <2>1, p \in 0 .. M, q \in 0 .. M
    <3> QED BY ONLY <1>2, <1>5, <3>1, c \in Channels
  <2>2. CASE N <= p
    <3>1. p \in N .. M /\ q \in N .. M
      BY ONLY <1>1, <1>5, <2>2, p \in 0 .. M, q \in 0 .. M
    <3> QED BY ONLY <1>3, <1>5, <3>1, c \in Channels
  <2>3. CASE p <= N /\ N <= q
    <3>1. p \in 0 .. N /\ N \in 0 .. N /\ N \in N .. M /\ q \in N .. M
      BY ONLY <1>1, <2>3, p \in 0 .. M, q \in 0 .. M
    <3>2. D[c][p] <= D[c][N] /\ D[c][N] <= D[c][q]
      BY ONLY <1>2, <1>3, <2>3, <3>1, c \in Channels
    <3>3. D[c][p] \in Nat /\ D[c][N] \in Nat /\ D[c][q] \in Nat
      BY ONLY <1>2, <1>3, <3>1, c \in Channels
    <3> QED BY ONLY <3>2, <3>3
  <2> QED BY ONLY <1>1, <2>1, <2>2, <2>3, p \in 0 .. M, q \in 0 .. M
<1>6. /\ \A c \in Channels : \A q \in 0 .. M : D[c][q] \in Nat
      /\ \A c \in Channels : \A p, q \in 0 .. M : p <= q => D[c][p] <= D[c][q]
  BY ONLY <1>4, <1>5
<1> QED BY ONLY <1>6 DEF Counts, M

(* The payload t of a new frame g is owed to its channel, after the rest. *)
LEMMA OwedMore ==
    ASSUME NEW W, NEW F, NEW C, Shape(W, F, C), NEW u, NEW V, Adds(W, u, V),
           NEW D, CountsOn(W, C, V, D),
           NEW p \in Nat, p <= Len(W),
           NEW o \in [Channels -> Seq(Byte)], OwedAt(W, F, C, p, o),
           NEW ch \in Channels, NEW t \in Seq(Byte), NEW G,
           Carries(W, F, C, V, G, D, ch, t)
    PROVE  OwedAt(V, G, D, p, [o EXCEPT ![ch] = @ \o t])
<1> DEFINE more == [o EXCEPT ![ch] = @ \o t]
           N == Len(W)
<1>0. /\ N \in Nat /\ Len(u) \in Nat /\ Len(t) \in Nat /\ p \in 0 .. N /\ N \in 0 .. N
      /\ \A c \in Channels : C[c][p] \in Nat /\ C[c][N] \in Nat
      /\ \A c \in Channels : D[c][p] = C[c][p]
      /\ \A c \in Channels : Len(o[c]) = C[c][N] - C[c][p] /\ o[c] \in Seq(Byte) /\ Len(o[c]) \in Nat
  <2>1. N \in Nat /\ Len(u) \in Nat /\ Len(t) \in Nat
    BY DEF Shape, Adds
  <2>2. p \in 0 .. N /\ N \in 0 .. N
    BY ONLY <2>1, p \in Nat, p <= Len(W)
  <2>3. \A c \in Channels : C[c][p] \in Nat /\ C[c][N] \in Nat
    BY ONLY <2>2, Shape(W, F, C) DEF Shape, Counts
  <2>4. \A c \in Channels : D[c][p] = C[c][p]
    BY ONLY <2>2, CountsOn(W, C, V, D) DEF CountsOn
  <2>5. \A c \in Channels : Len(o[c]) = C[c][N] - C[c][p]
    BY ONLY OwedAt(W, F, C, p, o) DEF OwedAt
  <2>6. \A c \in Channels : o[c] \in Seq(Byte) /\ Len(o[c]) \in Nat
    OBVIOUS
  <2> QED BY <2>1, <2>2, <2>3, <2>4, <2>5, <2>6
<1>1. /\ \A k \in 1 .. N : V[k] = W[k]
      /\ \A f \in F : V[f + 4] = W[f + 4] /\ LengthAt(V, f) = LengthAt(W, f)
  BY ONLY Longer, Shape(W, F, C), Adds(W, u, V)
<1>2. \A c \in Channels : more[c] = IF c = ch THEN o[c] \o t ELSE o[c]
  OBVIOUS
<1> HIDE DEF more
<1>3. ASSUME NEW c \in Channels
      PROVE  /\ Len(more[c]) = Len(o[c]) + (IF c = ch THEN Len(t) ELSE 0)
             /\ \A k \in 1 .. Len(o[c]) : more[c][k] = o[c][k]
             /\ c = ch => \A k \in 1 .. Len(t) : more[c][Len(o[c]) + k] = t[k]
  <2>1. CASE c # ch
    BY ONLY <1>0, <1>2, <2>1, c \in Channels
  <2>2. CASE c = ch
    <3> DEFINE d == o[c]
    <3>1. d \in Seq(Byte) /\ Len(d) \in Nat /\ more[c] = d \o t
      BY ONLY <1>0, <1>2, <2>2, c \in Channels
    <3> HIDE DEF d
    <3>2. /\ Len(d \o t) = Len(d) + Len(t)
          /\ \A k \in 1 .. Len(d) + Len(t) : (d \o t)[k] = IF k <= Len(d) THEN d[k] ELSE t[k - Len(d)]
      BY ONLY <3>1, t \in Seq(Byte), ConcatProperties
    <3>3. \A k \in 1 .. Len(d) : (d \o t)[k] = d[k]
      BY ONLY <1>0, <3>1, <3>2
    <3>4. ASSUME NEW k \in 1 .. Len(t) PROVE (d \o t)[Len(d) + k] = t[k]
      <4>1. /\ Len(d) + k \in 1 .. Len(d) + Len(t) /\ ~(Len(d) + k <= Len(d))
            /\ Len(d) + k - Len(d) = k
        BY ONLY <1>0, <3>1, k \in 1 .. Len(t)
      <4> QED BY ONLY <3>2, <4>1
    <3> QED BY ONLY <2>2, <3>1, <3>2, <3>3, <3>4 DEF d
  <2> QED BY <2>1, <2>2
<1>4. ASSUME NEW c \in Channels PROVE Len(more[c]) = D[c][Len(V)] - D[c][p]
  <2>1. /\ Len(more[c]) = Len(o[c]) + (IF c = ch THEN Len(t) ELSE 0)
        /\ Len(o[c]) = C[c][N] - C[c][p] /\ C[c][p] \in Nat /\ C[c][N] \in Nat /\ D[c][p] = C[c][p]
        /\ Len(t) \in Nat
    BY <1>0, <1>3
  <2>2. D[c][Len(V)] = C[c][N] + (IF c = ch THEN Len(t) ELSE 0)
    BY ONLY Carries(W, F, C, V, G, D, ch, t), c \in Channels DEF Carries
  <2> QED BY ONLY <2>1, <2>2
<1>5. ASSUME NEW c \in Channels, NEW f \in F, c = V[f + 4], NEW k \in 1 .. LengthAt(V, f), f + 8 + k > p
      PROVE  more[c][D[c][f + 8 + k] - D[c][p]] = V[f + 8 + k]
  <2>1. c = W[f + 4] /\ k \in 1 .. LengthAt(W, f)
    BY ONLY <1>1, <1>5, f \in F, k \in 1 .. LengthAt(V, f)
  <2>2. f + 8 + k \in 1 .. N /\ C[c][f + 8 + k] - C[c][p] \in 1 .. C[c][N] - C[c][p]
    BY ONLY <1>5, <2>1, Due, Shape(W, F, C), p \in Nat, c \in Channels, f \in F
  <2>3. f + 8 + k \in 0 .. N
    BY ONLY <1>0, <2>2
  <2>4. D[c][f + 8 + k] = C[c][f + 8 + k] /\ D[c][p] = C[c][p]
    BY ONLY <1>0, <2>3, CountsOn(W, C, V, D), c \in Channels DEF CountsOn
  <2>5. o[c][C[c][f + 8 + k] - C[c][p]] = W[f + 8 + k]
    BY ONLY <1>5, <2>1, OwedAt(W, F, C, p, o), c \in Channels, f \in F DEF OwedAt
  <2>6. more[c][C[c][f + 8 + k] - C[c][p]] = o[c][C[c][f + 8 + k] - C[c][p]]
    <3>1. C[c][f + 8 + k] - C[c][p] \in 1 .. Len(o[c])
      BY ONLY <1>0, <2>2, c \in Channels
    <3> QED BY ONLY <1>3, <3>1, c \in Channels
  <2> QED BY ONLY <1>1, <2>2, <2>4, <2>5, <2>6
<1>6. ASSUME NEW g \in G \ F, NEW c \in Channels, c = V[g + 4], NEW k \in 1 .. LengthAt(V, g)
      PROVE  more[c][D[c][g + 8 + k] - D[c][p]] = V[g + 8 + k]
  <2>1. /\ c = ch /\ k \in 1 .. Len(t)
        /\ D[ch][g + 8 + k] = C[ch][N] + k /\ V[g + 8 + k] = t[k]
    BY ONLY <1>6, Carries(W, F, C, V, G, D, ch, t), g \in G \ F, k \in 1 .. LengthAt(V, g) DEF Carries
  <2>2. more[ch][Len(o[ch]) + k] = t[k]
    BY ONLY <1>3, <2>1, ch \in Channels
  <2>4. D[ch][g + 8 + k] - D[ch][p] = Len(o[ch]) + k
    <3> DEFINE here == C[ch][p]
               end == C[ch][N]
               new == D[ch][g + 8 + k]
    <3>1. /\ Len(o[ch]) = end - here /\ D[ch][p] = here /\ here \in Nat /\ end \in Nat
          /\ new = end + k
      BY <1>0, <2>1
    <3>2. k \in Int
      BY ONLY <1>0, <2>1
    <3> HIDE DEF here, end, new
    <3>3. new - D[ch][p] = Len(o[ch]) + k
      BY ONLY <3>1, <3>2
    <3> QED BY <3>3 DEF new
  <2>5. c = ch /\ V[g + 8 + k] = t[k]
    BY <2>1
  <2> QED BY ONLY <2>2, <2>4, <2>5
<1>7. OwedAt(V, G, D, p, more)
  BY ONLY <1>4, <1>5, <1>6 DEF OwedAt
<1> QED BY <1>7 DEF more

(* Junk between two frames. *)
LEMMA JunkStep ==
    ASSUME TypeInv, NEW W, NEW F, NEW C, Stream(W, F, C), NEW j \in Junk, SendJunk(j)
    PROVE  \E V, G, D : Stream(V, G, D)'
<1> DEFINE N == Len(W)
           V == W \o j
           D == [c \in Channels |-> [q \in 0 .. Len(V) |-> IF q <= N THEN C[c][q] ELSE C[c][N]]]
<1>0. /\ Shape(W, F, C) /\ W \in Seq(Byte) /\ N \in Nat /\ OwedAt(W, F, C, Pos(W), owed)
      /\ owed \in [Channels -> Seq(Byte)]
  BY DEF Stream, Shape, TypeInv, HostT
<1>1. /\ j \in Seq(Byte) /\ Len(j) \in Nat /\ \A k \in Nat : ~HeaderAt(j, k)
      /\ Len(j) > 0 => ~Continues(j[1])
  <2>1. j \in Seq(Byte) /\ Len(j) \in Nat
    BY Sent
  <2>2. /\ \A k \in 0 .. Len(j) : ~HeaderAt(j, k)
        /\ j # <<>> => j[1] \notin {52, 86} \cup Channels
    BY ONLY StreamAssumption, j \in Junk DEF StreamAssumption
  <2>3. \A k \in Nat : HeaderAt(j, k) => k \in 0 .. Len(j)
    BY ONLY <2>1 DEF HeaderAt
  <2>4. Len(j) > 0 => j # <<>>
    BY ONLY <2>1
  <2> QED BY ONLY <2>1, <2>2, <2>3, <2>4 DEF Continues
<1>2. wire' = wire \o j /\ UNCHANGED <<parserVars, callVars, owed>>
  BY DEF SendJunk, Send
<1>3. Adds(W, j, V)
  BY <1>1 DEF Adds
<1> HIDE DEF V
<1>4. /\ V \in Seq(Byte) /\ Len(V) = N + Len(j)
      /\ \A k \in 1 .. N : V[k] = W[k]
      /\ \A k \in 1 .. Len(j) : V[N + k] = j[k]
      /\ \A f \in F : FrameEnd(V, f) = FrameEnd(W, f) /\ FrameEnd(W, f) <= N /\ f \in Nat
  BY ONLY Longer, <1>0, <1>3
<1>5. /\ Pos(V)' = Pos(W) /\ Pos(W) \in Nat /\ Pos(W) <= N
      /\ Unread(V)' /\ Place(V, F)'
  BY <1>2, <1>3, ReadOn
<1>6. Len(V) \in Nat /\ N <= Len(V)
  <2>1. Len(V) = N + Len(j)
    BY <1>4
  <2> QED BY ONLY <1>0, <1>1, <2>1
<1>7. /\ \A c \in Channels : \A q \in 0 .. N : D[c][q] = C[c][q]
      /\ \A c \in Channels : \A q \in N .. Len(V) : D[c][q] = C[c][N]
  <2>1. \A q \in 0 .. N : q \in 0 .. Len(V) /\ q <= N
    BY ONLY <1>0, <1>6
  <2>2. \A q \in N .. Len(V) : q \in 0 .. Len(V) /\ (q <= N => q = N)
    BY ONLY <1>0, <1>6
  <2> QED BY <2>1, <2>2
<1> HIDE DEF D
<1>8. \A c \in Channels : C[c][N] \in Nat
  <2>1. N \in 0 .. N
    BY ONLY <1>0
  <2> QED BY ONLY <1>0, <2>1 DEF Shape, Counts
<1>9. CountsOn(W, C, V, D)
  <2>1. \A c \in Channels : \A q \in N .. Len(V) : D[c][q] \in Nat
    BY ONLY <1>7, <1>8
  <2>2. \A c \in Channels : \A p, q \in N .. Len(V) : p <= q => D[c][p] <= D[c][q]
    BY ONLY <1>7, <1>8
  <2> QED BY ONLY <1>7, <2>1, <2>2 DEF CountsOn
<1>10. Counts(V, D) /\ \A f \in F : IsFrame(V, D, f)
  BY ONLY <1>0, <1>3, <1>9, FramesStay, CountOn
<1>11. Apart(V, F)
  BY ONLY <1>0, <1>4 DEF Shape, Apart
<1>12. Gaps(V, F, D)
  <2>1. ASSUME NEW q \in 0 .. Len(V) - 1, \A f \in F : ~(f <= q /\ q < FrameEnd(V, f))
        PROVE  \A c \in Channels : D[c][q + 1] = D[c][q]
    <3>1. CASE q < N
      <4>1. /\ q \in 0 .. N - 1 /\ q + 1 \in 1 .. N /\ q + 1 \in 0 .. N /\ q \in 0 .. N
        BY ONLY <1>0, <1>6, <3>1, q \in 0 .. Len(V) - 1
      <4>2. \A c \in Channels : C[c][q + 1] = C[c][q]
        BY ONLY <1>0, <1>4, <2>1, <4>1 DEF Shape, Gaps
      <4> QED BY ONLY <1>7, <4>1, <4>2
    <3>2. CASE ~(q < N)
      <4>1. q \in N .. Len(V) /\ q + 1 \in N .. Len(V)
        <5>1. Len(V) = N + Len(j)
          BY <1>4
        <5> QED BY ONLY <1>0, <1>1, <1>6, <5>1, <3>2, q \in 0 .. Len(V) - 1
      <4> QED BY ONLY <1>7, <4>1
    <3> QED BY <3>1, <3>2
  <2> QED BY ONLY <2>1 DEF Gaps
<1>13. OwedAt(V, F, D, Pos(W), owed)
  <2> DEFINE t == <<>>
             o == [owed EXCEPT ![0] = @ \o t]
  <2>1. t \in Seq(Byte) /\ Len(t) = 0 /\ 0 \in Channels
    BY DEF Channels
  <2>2. o = owed
    <3>1. owed[0] \o t = owed[0]
      BY ONLY <1>0, <2>1, ConcatEmptySeq
    <3> QED BY ONLY <1>0, <3>1
  <2> HIDE DEF t
  <2>3. \A c \in Channels : D[c][Len(V)] = C[c][N] + (IF c = 0 THEN Len(t) ELSE 0)
    <3>1. Len(V) \in N .. Len(V)
      BY ONLY <1>0, <1>6
    <3> QED BY ONLY <1>7, <1>8, <2>1, <3>1
  <2>4. \A g \in F \ F : /\ V[g + 4] = 0 /\ LengthAt(V, g) = Len(t)
                         /\ \A k \in 1 .. Len(t) : /\ D[0][g + 8 + k] = C[0][N] + k
                                                   /\ V[g + 8 + k] = t[k]
    OBVIOUS
  <2>5. Carries(W, F, C, V, F, D, 0, t)
    BY ONLY <2>3, <2>4 DEF Carries
  <2>6. OwedAt(V, F, D, Pos(W), o)
    BY ONLY <1>0, <1>3, <1>5, <1>9, <2>1, <2>5, OwedMore
  <2> QED BY ONLY <2>2, <2>6
<1>14. Shape(V, F, D)
  <2>1. Headers(V, F)
    BY ONLY <1>0, <1>1, <1>3, HeadersStay
  <2> QED BY ONLY <1>4, <1>9, <1>10, <1>11, <1>12, <2>1 DEF Shape
<1>15. Stream(V, F, D)'
  BY ONLY <1>2, <1>5, <1>13, <1>14 DEF Stream
<1> QED BY <1>15

(* The bytes of a frame. *)
FrameOf(ch, t) == Marker \o <<ch>> \o LengthBytes(Len(t)) \o t

FrameLayout(ch, t, u) ==
    /\ u \in Seq(Byte) /\ t \in Seq(Byte) /\ Len(t) \in Nat /\ 2 * Len(t) < WORD
    /\ Len(u) = 8 + Len(t)
    /\ u[1] = 18 /\ u[2] = 52 /\ u[3] = 86 /\ u[4] = ch
    /\ u[5] * Weight[1] + u[6] * Weight[2] + u[7] * Weight[3] + u[8] * Weight[4] = Len(t)
    /\ \A k \in 1 .. Len(t) : u[8 + k] = t[k]

LEMMA FrameBytes ==
    ASSUME NEW ch \in Channels, NEW t \in Payloads
    PROVE  FrameLayout(ch, t, FrameOf(ch, t))
<1> DEFINE u == FrameOf(ch, t)
           m == Marker \o <<ch>>
           l == LengthBytes(Len(t))
           h == m \o l
<1>1. t \in Seq(Byte) /\ Len(t) \in Nat /\ 2 * Len(t) < WORD
  BY Sent
<1>2. /\ h \in Seq(Byte) /\ Len(h) = 8
      /\ h[1] = 18 /\ h[2] = 52 /\ h[3] = 86 /\ h[4] = ch
      /\ h[5] * Weight[1] + h[6] * Weight[2] + h[7] * Weight[3] + h[8] * Weight[4] = Len(t)
  <2>1. m \in Seq(Byte) /\ Len(m) = 4 /\ m[1] = 18 /\ m[2] = 52 /\ m[3] = 86 /\ m[4] = ch
    <3>1. ch \in Byte /\ 18 \in Byte /\ 52 \in Byte /\ 86 \in Byte
      BY Words DEF Channels
    <3> DEFINE x == Marker
               y == <<ch>>
    <3>2. x \in Seq(Byte) /\ Len(x) = 3 /\ x[1] = 18 /\ x[2] = 52 /\ x[3] = 86
      BY ONLY <3>1 DEF Marker
    <3>3. y \in Seq(Byte) /\ Len(y) = 1 /\ y[1] = ch
      BY ONLY <3>1
    <3>4. m = x \o y
      OBVIOUS
    <3> HIDE DEF m, x, y
    <3>5. /\ x \o y \in Seq(Byte) /\ Len(x \o y) = Len(x) + Len(y)
          /\ \A k \in 1 .. Len(x) + Len(y) : (x \o y)[k] = IF k <= Len(x) THEN x[k] ELSE y[k - Len(x)]
      <4>1. x \in Seq(Byte) /\ y \in Seq(Byte)
        BY ONLY <3>2, <3>3
      <4> QED BY ONLY <4>1, ConcatProperties
    <3>6. /\ x \o y \in Seq(Byte) /\ Len(x \o y) = 4
          /\ \A k \in 1 .. 4 : (x \o y)[k] = IF k <= 3 THEN x[k] ELSE y[k - 3]
      BY ONLY <3>2, <3>3, <3>5
    <3>7. (x \o y)[1] = 18 /\ (x \o y)[2] = 52 /\ (x \o y)[3] = 86 /\ (x \o y)[4] = ch
      <4> DEFINE z == x \o y
      <4>0. z \in Seq(Byte) /\ \A k \in 1 .. 4 : z[k] = IF k <= 3 THEN x[k] ELSE y[k - 3]
        BY <3>6
      <4> HIDE DEF z
      <4>1. z[1] = x[1] /\ z[2] = x[2]
        BY ONLY <4>0, SMTT(30)
      <4>2. z[3] = x[3] /\ z[4] = y[1]
        BY ONLY <4>0, SMTT(30)
      <4>3. (x \o y)[1] = x[1] /\ (x \o y)[2] = x[2] /\ (x \o y)[3] = x[3] /\ (x \o y)[4] = y[1]
        BY <4>1, <4>2 DEF z
      <4> QED BY ONLY <3>2, <3>3, <4>3
    <3> QED BY ONLY <3>2, <3>3, <3>4, <3>5, <3>7
  <2>2. /\ l \in Seq(Byte) /\ Len(l) = 4
        /\ l[1] * Weight[1] + l[2] * Weight[2] + l[3] * Weight[3] + l[4] * Weight[4] = Len(t)
    <3>1. Len(t) \in Nat /\ Len(t) < WORD
      BY ONLY <1>1, Words
    <3> QED BY <3>1, Digits
  <2> HIDE DEF m, l
  <2>3. /\ m \o l \in Seq(Byte) /\ Len(m \o l) = 8
        /\ \A k \in 1 .. 8 : (m \o l)[k] = IF k <= 4 THEN m[k] ELSE l[k - 4]
    <3>0. m \in Seq(Byte) /\ l \in Seq(Byte) /\ Len(m) = 4 /\ Len(l) = 4
      BY ONLY <2>1, <2>2
    <3>1. /\ m \o l \in Seq(Byte) /\ Len(m \o l) = Len(m) + Len(l)
          /\ \A k \in 1 .. Len(m) + Len(l) : (m \o l)[k] = IF k <= Len(m) THEN m[k] ELSE l[k - Len(m)]
      BY ONLY <3>0, ConcatProperties
    <3>2. Len(m) + Len(l) = 8
      BY ONLY <3>0
    <3> QED BY ONLY <3>0, <3>1, <3>2
  <2>4. /\ (m \o l)[1] = m[1] /\ (m \o l)[2] = m[2] /\ (m \o l)[3] = m[3] /\ (m \o l)[4] = m[4]
        /\ (m \o l)[5] = l[1] /\ (m \o l)[6] = l[2] /\ (m \o l)[7] = l[3] /\ (m \o l)[8] = l[4]
    <3>1. (m \o l)[1] = m[1] /\ (m \o l)[2] = m[2] /\ (m \o l)[3] = m[3]
      BY ONLY <2>3, SMTT(30)
    <3>2. (m \o l)[4] = m[4] /\ (m \o l)[5] = l[1] /\ (m \o l)[6] = l[2]
      BY ONLY <2>3, SMTT(30)
    <3>3. (m \o l)[7] = l[3] /\ (m \o l)[8] = l[4]
      BY ONLY <2>3, SMTT(30)
    <3> QED BY ONLY <3>1, <3>2, <3>3
  <2> QED BY ONLY <2>1, <2>2, <2>3, <2>4
<1>3. u = h \o t
  BY DEF FrameOf
<1> HIDE DEF h, u
<1>4. /\ u \in Seq(Byte) /\ Len(u) = 8 + Len(t)
      /\ \A k \in 1 .. 8 + Len(t) : u[k] = IF k <= 8 THEN h[k] ELSE t[k - 8]
  <2>1. h \in Seq(Byte) /\ Len(h) = 8
    BY <1>2
  <2>2. /\ h \o t \in Seq(Byte) /\ Len(h \o t) = Len(h) + Len(t)
        /\ \A k \in 1 .. Len(h) + Len(t) : (h \o t)[k] = IF k <= Len(h) THEN h[k] ELSE t[k - Len(h)]
    BY ONLY <1>1, <2>1, ConcatProperties
  <2> QED BY ONLY <1>3, <2>1, <2>2
<1>5. /\ u[1] = h[1] /\ u[2] = h[2] /\ u[3] = h[3] /\ u[4] = h[4]
      /\ u[5] = h[5] /\ u[6] = h[6] /\ u[7] = h[7] /\ u[8] = h[8]
  <2>1. Len(t) \in Nat
    BY <1>1
  <2> QED BY ONLY <1>4, <2>1
<1>6. \A k \in 1 .. Len(t) : u[8 + k] = t[k]
  <2>1. ASSUME NEW k \in 1 .. Len(t) PROVE u[8 + k] = t[k]
    <3>1. 8 + k \in 1 .. 8 + Len(t) /\ ~(8 + k <= 8) /\ 8 + k - 8 = k
      BY ONLY <1>1, k \in 1 .. Len(t)
    <3> QED BY ONLY <1>4, <3>1
  <2> QED BY ONLY <2>1
<1>7. u[5] * Weight[1] + u[6] * Weight[2] + u[7] * Weight[3] + u[8] * Weight[4] = Len(t)
  BY ONLY <1>2, <1>5
<1>8. FrameLayout(ch, t, u)
  BY ONLY <1>1, <1>2, <1>4, <1>5, <1>6, <1>7 DEF FrameLayout
<1> QED BY <1>8 DEF u

(* One more frame. *)
LEMMA FrameStep ==
    ASSUME TypeInv, NEW W, NEW F, NEW C, Stream(W, F, C),
           NEW ch \in Channels, NEW t \in Payloads, SendFrame(ch, t)
    PROVE  \E V, G, D : Stream(V, G, D)'
<1> DEFINE N == Len(W)
           u == FrameOf(ch, t)
           V == W \o u
           G == F \cup {N}
           D == [c \in Channels |-> [q \in 0 .. Len(V) |->
                    IF q <= N THEN C[c][q]
                    ELSE IF q <= N + 8 \/ c # ch THEN C[c][N] ELSE C[c][N] + (q - N - 8)]]
<1>0. /\ Shape(W, F, C) /\ W \in Seq(Byte) /\ N \in Nat /\ OwedAt(W, F, C, Pos(W), owed)
      /\ owed \in [Channels -> Seq(Byte)]
  BY DEF Stream, Shape, TypeInv, HostT
<1>1. /\ u \in Seq(Byte) /\ t \in Seq(Byte) /\ Len(t) \in Nat /\ 2 * Len(t) < WORD
      /\ Len(u) = 8 + Len(t) /\ u[1] = 18 /\ u[2] = 52 /\ u[3] = 86 /\ u[4] = ch
      /\ u[5] * Weight[1] + u[6] * Weight[2] + u[7] * Weight[3] + u[8] * Weight[4] = Len(t)
      /\ \A k \in 1 .. Len(t) : u[8 + k] = t[k]
  BY FrameBytes DEF FrameLayout
<1>2. /\ wire' = wire \o u /\ owed' = [owed EXCEPT ![ch] = @ \o t]
      /\ UNCHANGED <<parserVars, callVars>>
  BY DEF SendFrame, Send, FrameOf
<1> HIDE DEF u
<1>3. Adds(W, u, V)
  BY <1>1 DEF Adds
<1> HIDE DEF V
<1>4. /\ V \in Seq(Byte) /\ Len(V) = N + Len(u)
      /\ \A k \in 1 .. N : V[k] = W[k]
      /\ \A k \in 1 .. Len(u) : V[N + k] = u[k]
      /\ \A f \in F : FrameEnd(V, f) = FrameEnd(W, f) /\ FrameEnd(W, f) <= N /\ f \in Nat /\ LengthAt(W, f) \in Nat
  BY ONLY Longer, <1>0, <1>3
<1>5. F \subseteq G /\ \A g \in G \ F : g = N
  OBVIOUS
<1>6. G = F \cup {N}
  OBVIOUS
<1> HIDE DEF G
<1>7. /\ Pos(V)' = Pos(W) /\ Pos(W) \in Nat /\ Pos(W) <= N
      /\ Unread(V)' /\ Place(V, G)'
  BY <1>2, <1>3, <1>5, ReadOn
<1>8. Len(V) \in Nat /\ N <= Len(V) /\ Len(V) = N + 8 + Len(t)
  <2>1. Len(V) = N + Len(u) /\ Len(u) = 8 + Len(t) /\ Len(t) \in Nat
    BY <1>1, <1>4
  <2> QED BY ONLY <1>0, <2>1
<1>9. /\ \A c \in Channels : \A q \in 0 .. N : D[c][q] = C[c][q]
      /\ \A c \in Channels : \A q \in N .. N + 8 : D[c][q] = C[c][N]
      /\ \A c \in Channels : \A q \in N + 8 .. Len(V) : D[c][q] = C[c][N] + (IF c = ch THEN q - N - 8 ELSE 0)
  <2>0. \A c \in Channels : C[c][N] \in Nat
    <3>1. N \in 0 .. N
      BY ONLY <1>0
    <3> QED BY ONLY <1>0, <3>1 DEF Shape, Counts
  <2>00. Len(t) \in Nat
    BY <1>1
  <2>1. \A q \in 0 .. N : q \in 0 .. Len(V) /\ q <= N
    BY ONLY <1>0, <1>8
  <2>2. \A q \in N .. N + 8 : q \in 0 .. Len(V) /\ (q <= N => q = N) /\ q <= N + 8
    BY ONLY <1>0, <1>8, <2>00
  <2>3. \A q \in N + 8 .. Len(V) : q \in 0 .. Len(V) /\ ~(q <= N) /\ (q <= N + 8 => q - N - 8 = 0)
    BY ONLY <1>0, <1>8, <2>00
  <2>4. \A c \in Channels : \A q \in 0 .. Len(V) : D[c][q] =
            IF q <= N THEN C[c][q]
            ELSE IF q <= N + 8 \/ c # ch THEN C[c][N] ELSE C[c][N] + (q - N - 8)
    OBVIOUS
  <2> HIDE DEF D, N
  <2>5. \A c \in Channels : \A q \in 0 .. N : D[c][q] = C[c][q]
    BY ONLY <2>1, <2>4
  <2>6. \A c \in Channels : \A q \in N .. N + 8 : D[c][q] = C[c][N]
    BY ONLY <2>2, <2>4
  <2>7. \A c \in Channels : \A q \in N + 8 .. Len(V) :
            D[c][q] = C[c][N] + (IF c = ch THEN q - N - 8 ELSE 0)
    BY ONLY <2>0, <2>3, <2>4
  <2> QED BY ONLY <2>5, <2>6, <2>7
<1> HIDE DEF D
<1>10. \A c \in Channels : C[c][N] \in Nat
  <2>1. N \in 0 .. N
    BY ONLY <1>0
  <2> QED BY ONLY <1>0, <2>1 DEF Shape, Counts
<1> HIDE DEF N
<1>11. CountsOn(W, C, V, D)
  <2>1. \A q \in N .. Len(V) : q \in N .. N + 8 \/ (q \in N + 8 .. Len(V) /\ q - N - 8 \in Nat)
    BY ONLY <1>0, <1>8
  <2>2. \A c \in Channels : \A q \in N .. Len(V) : D[c][q] \in Nat
    BY ONLY <1>9, <1>10, <2>1
  <2>3. ASSUME NEW c \in Channels, NEW p \in N .. Len(V), NEW q \in N .. Len(V), p <= q
        PROVE  D[c][p] <= D[c][q]
    <3>1. CASE q \in N .. N + 8
      <4>1. p \in N .. N + 8
        BY ONLY <1>0, <1>8, <2>3, <3>1
      <4> QED BY ONLY <1>9, <1>10, <3>1, <4>1, c \in Channels
    <3>2. CASE p \in N .. N + 8 /\ q \in N + 8 .. Len(V) /\ q - N - 8 \in Nat
      <4>1. /\ D[c][p] = C[c][N] /\ C[c][N] \in Nat
            /\ D[c][q] = C[c][N] + (IF c = ch THEN q - N - 8 ELSE 0)
        BY ONLY <1>9, <1>10, <3>2, c \in Channels
      <4> DEFINE x == q - N - 8
      <4> HIDE DEF x
      <4>2. D[c][q] = C[c][N] + (IF c = ch THEN x ELSE 0) /\ x \in Nat
        BY <3>2, <4>1 DEF x
      <4> QED BY ONLY <4>1, <4>2
    <3>3. CASE /\ p \in N + 8 .. Len(V) /\ p - N - 8 \in Nat
               /\ q \in N + 8 .. Len(V) /\ q - N - 8 \in Nat
      <4>1. /\ D[c][p] = C[c][N] + (IF c = ch THEN p - N - 8 ELSE 0) /\ C[c][N] \in Nat
            /\ D[c][q] = C[c][N] + (IF c = ch THEN q - N - 8 ELSE 0)
        BY ONLY <1>9, <1>10, <3>3, c \in Channels
      <4> DEFINE x == p - N - 8
                 y == q - N - 8
      <4>2. x <= y /\ x \in Nat /\ y \in Nat
        BY ONLY <1>0, <1>8, <2>3, <3>3
      <4>3. /\ D[c][p] = C[c][N] + (IF c = ch THEN x ELSE 0)
            /\ D[c][q] = C[c][N] + (IF c = ch THEN y ELSE 0)
        BY <4>1
      <4>4. C[c][N] \in Nat
        BY <4>1
      <4> HIDE DEF x, y
      <4> QED BY ONLY <4>2, <4>3, <4>4
    <3> QED BY ONLY <2>1, <3>1, <3>2, <3>3, p \in N .. Len(V), q \in N .. Len(V)
  <2> QED BY <1>9, <2>2, <2>3 DEF CountsOn, N
<1>12. Counts(V, D) /\ \A f \in F : IsFrame(V, D, f)
  BY ONLY <1>0, <1>3, <1>11, FramesStay, CountOn
<1>13. /\ V[N + 1] = 18 /\ V[N + 2] = 52 /\ V[N + 3] = 86 /\ V[N + 4] = ch
       /\ LengthAt(V, N) = Len(t)
       /\ \A k \in 1 .. Len(t) : V[N + 8 + k] = t[k]
  <2>1. /\ 1 \in 1 .. Len(u) /\ 2 \in 1 .. Len(u) /\ 3 \in 1 .. Len(u) /\ 4 \in 1 .. Len(u)
        /\ 5 \in 1 .. Len(u) /\ 6 \in 1 .. Len(u) /\ 7 \in 1 .. Len(u) /\ 8 \in 1 .. Len(u)
    <3>1. Len(u) = 8 + Len(t) /\ Len(t) \in Nat
      BY <1>1
    <3> QED BY ONLY <3>1
  <2>2. /\ V[N + 1] = u[1] /\ V[N + 2] = u[2] /\ V[N + 3] = u[3] /\ V[N + 4] = u[4]
        /\ V[N + 5] = u[5] /\ V[N + 6] = u[6] /\ V[N + 7] = u[7] /\ V[N + 8] = u[8]
    BY ONLY <1>4, <2>1
  <2>3. ASSUME NEW k \in 1 .. Len(t) PROVE V[N + 8 + k] = t[k]
    <3>0. Len(u) = 8 + Len(t) /\ Len(t) \in Nat /\ u[8 + k] = t[k]
      BY <1>1
    <3>1. 8 + k \in 1 .. Len(u) /\ N + (8 + k) = N + 8 + k
      BY ONLY <1>0, <3>0, k \in 1 .. Len(t)
    <3>2. V[N + (8 + k)] = u[8 + k]
      BY ONLY <1>4, <3>1
    <3> QED BY ONLY <3>0, <3>1, <3>2
  <2>4. LengthAt(V, N) = Len(t)
    <3>1. u[5] * Weight[1] + u[6] * Weight[2] + u[7] * Weight[3] + u[8] * Weight[4] = Len(t)
      BY <1>1
    <3> QED BY ONLY <2>2, <3>1 DEF LengthAt
  <2> QED BY <1>1, <2>2, <2>3, <2>4
<1>14. /\ D[ch][Len(V)] = C[ch][N] + Len(t)
       /\ \A c \in Channels \ {ch} : D[c][Len(V)] = C[c][N]
       /\ \A c \in Channels : \A k \in 0 .. 8 : D[c][N + k] = C[c][N]
       /\ \A c \in Channels : \A k \in 0 .. Len(t) : D[c][N + 8 + k] = C[c][N] + (IF c = ch THEN k ELSE 0)
  <2>0. Len(t) \in Nat
    BY <1>1
  <2>1. \A k \in 0 .. 8 : N + k \in N .. N + 8
    BY ONLY <1>0
  <2>2. \A k \in 0 .. Len(t) : N + 8 + k \in N + 8 .. Len(V) /\ N + 8 + k - N - 8 = k
    BY ONLY <1>0, <1>8, <2>0
  <2>3. \A c \in Channels : \A k \in 0 .. Len(t) : D[c][N + 8 + k] = C[c][N] + (IF c = ch THEN k ELSE 0)
    <3>1. ASSUME NEW c \in Channels, NEW k \in 0 .. Len(t)
          PROVE  D[c][N + 8 + k] = C[c][N] + (IF c = ch THEN k ELSE 0)
      <4> DEFINE q == N + 8 + k
      <4>1. q \in N + 8 .. Len(V) /\ q - N - 8 = k
        BY ONLY <1>0, <1>8, <2>0, k \in 0 .. Len(t)
      <4> HIDE DEF q
      <4>2. D[c][q] = C[c][N] + (IF c = ch THEN q - N - 8 ELSE 0)
        BY ONLY <1>9, <4>1, c \in Channels
      <4> QED BY <4>1, <4>2 DEF q
    <3> QED BY ONLY <3>1
  <2>4. N + 8 + Len(t) = Len(V) /\ Len(t) \in 0 .. Len(t)
    BY ONLY <1>0, <1>8, <2>0
  <2>5. \A c \in Channels : D[c][Len(V)] = C[c][N] + (IF c = ch THEN Len(t) ELSE 0)
    BY ONLY <2>3, <2>4
  <2>6. \A c \in Channels \ {ch} : D[c][Len(V)] = C[c][N]
    BY ONLY <1>10, <2>5
  <2>7. \A c \in Channels : \A k \in 0 .. 8 : D[c][N + k] = C[c][N]
    BY ONLY <1>9, <2>1
  <2> QED BY ONLY <2>3, <2>5, <2>6, <2>7, ch \in Channels
<1>15. IsFrame(V, D, N) /\ FrameEnd(V, N) = Len(V)
  <2>0. Len(t) \in Nat
    BY <1>1
  <2>1. FrameEnd(V, N) = Len(V) /\ FrameEnd(V, N) <= Len(V)
    BY ONLY <1>0, <1>8, <1>13, <2>0 DEF FrameEnd
  <2>2. \A c \in Channels : D[c][N] = C[c][N]
    <3>1. N \in 0 .. N
      BY ONLY <1>0
    <3> QED BY ONLY <1>9, <3>1
  <2>3. \A c \in Channels : /\ \A k \in 0 .. 8 : D[c][N + k] = D[c][N]
                            /\ \A k \in 0 .. Len(t) : D[c][N + 8 + k] = D[c][N] + (IF c = ch THEN k ELSE 0)
    BY ONLY <1>14, <2>2
  <2>4. \A c \in Channels : /\ \A k \in 0 .. 8 : D[c][N + k] = D[c][N]
                            /\ \A k \in 0 .. LengthAt(V, N) :
                                   D[c][N + 8 + k] = D[c][N] + (IF c = V[N + 4] THEN k ELSE 0)
    BY ONLY <1>13, <2>3
  <2>5. N \in Nat /\ LengthAt(V, N) \in Nat /\ 2 * LengthAt(V, N) < WORD /\ V[N + 4] \in Channels
    <3>1. 2 * Len(t) < WORD
      BY <1>1
    <3> QED BY ONLY <1>0, <1>13, <2>0, <3>1, ch \in Channels
  <2> QED BY ONLY <1>13, <2>1, <2>4, <2>5 DEF IsFrame
<1>16. Apart(V, G)
  <2>1. ASSUME NEW f \in G, NEW g \in G, f < g PROVE FrameEnd(V, f) <= g
    <3>1. CASE f \in F /\ g \in F
      BY ONLY <1>0, <1>4, <2>1, <3>1 DEF Shape, Apart
    <3>2. CASE f \in F /\ g = N
      BY ONLY <1>4, <3>2
    <3>3. CASE f = N /\ g \in F
      <4>1. g + 8 + LengthAt(W, g) <= N /\ g \in Nat /\ LengthAt(W, g) \in Nat
        BY ONLY <1>4, <3>3 DEF FrameEnd
      <4> QED BY ONLY <1>0, <2>1, <3>3, <4>1
    <3>4. CASE f = N /\ g = N
      BY ONLY <1>0, <2>1, <3>4
    <3> QED BY ONLY <1>6, <3>1, <3>2, <3>3, <3>4, f \in G, g \in G
  <2> QED BY ONLY <2>1 DEF Apart
<1>17. Gaps(V, G, D)
  <2>1. ASSUME NEW q \in 0 .. Len(V) - 1, \A f \in G : ~(f <= q /\ q < FrameEnd(V, f))
        PROVE  \A c \in Channels : D[c][q + 1] = D[c][q]
    <3>1. q < N
      <4>1. N \in G
        BY ONLY <1>6
      <4> QED BY ONLY <1>0, <1>8, <1>15, <2>1, <4>1
    <3>2. /\ q \in 0 .. N - 1 /\ q + 1 \in 1 .. N /\ q + 1 \in 0 .. N /\ q \in 0 .. N
      BY ONLY <1>0, <1>8, <3>1, q \in 0 .. Len(V) - 1
    <3>3. \A f \in F : ~(f <= q /\ q < FrameEnd(W, f))
      BY ONLY <1>4, <1>5, <2>1
    <3>4. \A c \in Channels : C[c][q + 1] = C[c][q]
      <4>1. q \in 0 .. Len(W) - 1
        BY <3>2 DEF N
      <4> QED BY ONLY <1>0, <3>3, <4>1 DEF Shape, Gaps
    <3> QED BY ONLY <1>9, <3>2, <3>4
  <2> QED BY ONLY <2>1 DEF Gaps
<1>18. OwedAt(V, G, D, Pos(W), owed')
  <2>0. t \in Seq(Byte)
    BY <1>1
  <2>1. \A c \in Channels : D[c][Len(V)] = C[c][N] + (IF c = ch THEN Len(t) ELSE 0)
    <3>1. ASSUME NEW c \in Channels PROVE D[c][Len(V)] = C[c][N] + (IF c = ch THEN Len(t) ELSE 0)
      <4>1. CASE c = ch
        BY ONLY <1>14, <4>1
      <4>2. CASE c # ch
        BY ONLY <1>10, <1>14, <4>2, c \in Channels
      <4> QED BY <4>1, <4>2
    <3> QED BY ONLY <3>1
  <2>2. \A k \in 1 .. Len(t) : D[ch][N + 8 + k] = C[ch][N] + k
    <3>1. \A k \in 1 .. Len(t) : k \in 0 .. Len(t)
      OBVIOUS
    <3> QED BY ONLY <1>14, <3>1, ch \in Channels
  <2>3. \A g \in G \ F : /\ V[g + 4] = ch /\ LengthAt(V, g) = Len(t)
                         /\ \A k \in 1 .. Len(t) : /\ D[ch][g + 8 + k] = C[ch][N] + k
                                                   /\ V[g + 8 + k] = t[k]
    BY ONLY <1>5, <1>13, <2>2, SMTT(20)
  <2>4. Carries(W, F, C, V, G, D, ch, t)
    BY <2>1, <2>3 DEF Carries, N
  <2>5. Pos(W) <= Len(W) /\ Pos(W) \in Nat
    BY <1>7 DEF N
  <2>6. OwedAt(V, G, D, Pos(W), [owed EXCEPT ![ch] = @ \o t])
    BY ONLY <1>0, <1>3, <1>11, <2>0, <2>4, <2>5, ch \in Channels, OwedMore
  <2> QED BY ONLY <1>2, <2>6
<1>19. Shape(V, G, D)
  <2>1. \A g \in G : IsFrame(V, D, g)
    BY ONLY <1>6, <1>12, <1>15
  <2>2. Headers(V, G)
    <3>1. ~Continues(u[1])
      BY <1>1 DEF Continues, Channels
    <3>2. ASSUME NEW k \in Nat, HeaderAt(u, k)
          PROVE  \/ N + k \in G
                 \/ \E g \in G : g < N + k /\ N + k + 4 <= FrameEnd(V, g)
      <4>1. k + 4 <= Len(u)
        BY ONLY <3>2 DEF HeaderAt
      <4>2. CASE k = 0
        <5>1. N + k = N
          BY ONLY <1>0, <4>2
        <5> QED BY ONLY <1>6, <5>1
      <4>3. CASE k # 0
        <5>1. N \in G
          BY ONLY <1>6
        <5>2. Len(u) \in Nat /\ Len(V) = N + Len(u)
          BY <1>1, <1>4
        <5>3. N < N + k /\ N + k + 4 <= FrameEnd(V, N)
          BY ONLY <1>0, <1>15, <4>1, <4>3, <5>2, k \in Nat
        <5> QED BY ONLY <5>1, <5>3
      <4> QED BY <4>2, <4>3
    <3>3. F \subseteq G
      BY ONLY <1>5
    <3> QED BY <1>0, <1>3, <3>1, <3>2, <3>3, HeadersStay DEF N
  <2> QED BY ONLY <1>4, <1>12, <1>16, <1>17, <2>1, <2>2 DEF Shape
<1>20. Stream(V, G, D)'
  BY ONLY <1>7, <1>18, <1>19 DEF Stream
<1> QED BY <1>20

(* The cable is pulled: another stream begins. *)
LEMMA PullStep ==
    ASSUME TypeInv, PullCable, ~cut'
    PROVE  \E V, G, D : Stream(V, G, D)'
<1> DEFINE V == <<>>
           G == {}
           D == [c \in Channels |-> [q \in {0} |-> 0]]
<1>1. /\ wire' = <<>> /\ owed' = [ch \in Channels |-> <<>>] /\ rPc = "idle" /\ state \notin {4, 5}
      /\ UNCHANGED <<state, chunk, i>>
  BY Zenon DEF PullCable, parserVars, callVars
<1>2. V \in Seq(Byte) /\ Len(V) = 0
  OBVIOUS
<1>3. Len(chunk) - i = 0 /\ Len(wire') = 0
  BY <1>1 DEF TypeInv, CallT
<1> HIDE DEF V
<1>4. Pos(V)' = 0
  BY ONLY <1>1, <1>2, <1>3 DEF Pos
<1>5. \A c \in Channels : D[c][0] = 0
  OBVIOUS
<1> HIDE DEF D
<1>6. Shape(V, G, D)
  <2>1. Counts(V, D)
    BY ONLY <1>2, <1>5 DEF Counts
  <2>2. Gaps(V, G, D)
    BY ONLY <1>2 DEF Gaps
  <2>3. Headers(V, G)
    BY ONLY <1>2 DEF Headers, HeaderAt
  <2> QED BY ONLY <1>2, <2>1, <2>2, <2>3 DEF Shape, Apart
<1>7. OwedAt(V, G, D, Pos(V)', owed')
  BY ONLY <1>1, <1>2, <1>4, <1>5 DEF OwedAt
<1>8. Unread(V)'
  BY ONLY <1>1, <1>3, <1>4 DEF Unread
<1>9. Place(V, G)'
  <2>1. Hunts(V, G, Pos(V)', state')
    BY ONLY <1>4 DEF Hunts, Outside
  <2> QED BY ONLY <1>1, <2>1 DEF Place
<1>10. Stream(V, G, D)'
  BY ONLY <1>6, <1>7, <1>8, <1>9 DEF Stream
<1> QED BY <1>10

(* The parser starts in step, and stays in step until a cable is pulled    *)
(* inside a frame.                                                         *)
LEMMA StreamInitially == Init => StreamInv
<1> SUFFICES ASSUME Init PROVE StreamInv
  OBVIOUS
<1> DEFINE V == <<>>
           G == {}
           D == [c \in Channels |-> [q \in {0} |-> 0]]
<1>1. /\ wire = <<>> /\ owed = [ch \in Channels |-> <<>>] /\ state = 0 /\ chunk = <<>> /\ i = 0
      /\ ~wrong
  BY DEF Init
<1>2. V \in Seq(Byte) /\ Len(V) = 0
  OBVIOUS
<1>3. Len(chunk) - i = 0 /\ Len(wire) = 0
  BY <1>1
<1> HIDE DEF V
<1>4. Pos(V) = 0
  BY ONLY <1>1, <1>2, <1>3 DEF Pos
<1>5. \A c \in Channels : D[c][0] = 0
  OBVIOUS
<1> HIDE DEF D
<1>6. Shape(V, G, D)
  <2>1. Counts(V, D)
    BY ONLY <1>2, <1>5 DEF Counts
  <2>2. Gaps(V, G, D)
    BY ONLY <1>2 DEF Gaps
  <2>3. Headers(V, G)
    BY ONLY <1>2 DEF Headers, HeaderAt
  <2> QED BY ONLY <1>2, <2>1, <2>2, <2>3 DEF Shape, Apart
<1>7. OwedAt(V, G, D, Pos(V), owed)
  BY ONLY <1>1, <1>2, <1>4, <1>5 DEF OwedAt
<1>8. Unread(V)
  BY ONLY <1>1, <1>3, <1>4 DEF Unread
<1>9. Place(V, G)
  <2>1. Hunts(V, G, Pos(V), state)
    BY ONLY <1>4 DEF Hunts, Outside
  <2> QED BY ONLY <1>1, <2>1 DEF Place
<1>10. Stream(V, G, D)
  BY ONLY <1>6, <1>7, <1>8, <1>9 DEF Stream
<1> QED BY <1>1, <1>10 DEF StreamInv

LEMMA StreamInductive == ASSUME TypeInv, StreamInv, [Next]_vars PROVE StreamInv'
<1>1. CASE PullCable
  <2>1. wrong' = wrong /\ (~cut' => ~cut)
    BY <1>1, Zenon DEF PullCable
  <2> QED BY <1>1, <2>1, PullStep, Zenon DEF StreamInv
<1>2. ASSUME ~PullCable, ~cut' PROVE ~cut /\ ~wrong
  <2>1. cut' = cut
    BY <1>2, Zenon DEF Next, Host, SendFrame, SendJunk, Send, Receive, Arrive, MatchMarker, SkipByte,
       RestartHunt, TakeChannel, TakeLengthByte, ParseUnchanged, BeginPayload, ClearFlag, Transfer,
       Event, PlugOut, DisableOther, Disable, SetFlag0, SetFlag1, SetFlag, vars, history
  <2> QED BY <1>2, <2>1, Zenon DEF StreamInv
<1>3. ASSUME ~PullCable, ~cut', NEW W, NEW F, NEW C, Stream(W, F, C), ~wrong
      PROVE  ~wrong' /\ \E V, G, D : Stream(V, G, D)'
  <2>1. ASSUME NEW ch \in Channels, NEW p \in Payloads, SendFrame(ch, p)
        PROVE  ~wrong' /\ \E V, G, D : Stream(V, G, D)'
    <3>1. wrong' = wrong
      BY <2>1, Zenon DEF SendFrame, Send
    <3> QED BY <1>3, <2>1, <3>1, FrameStep, Zenon
  <2>2. ASSUME NEW j \in Junk, SendJunk(j) PROVE ~wrong' /\ \E V, G, D : Stream(V, G, D)'
    <3>1. wrong' = wrong
      BY <2>2, Zenon DEF SendJunk, Send
    <3> QED BY <1>3, <2>2, <3>1, JunkStep, Zenon
  <2>3. ASSUME NEW n \in ChunkLens, Arrive(n) PROVE ~wrong' /\ Stream(W, F, C)'
    <3>1. wrong' = wrong
      BY <2>3, Zenon DEF Arrive, history
    <3> QED BY <1>3, <2>3, <3>1, ArriveStep, Zenon
  <2>4. CASE MatchMarker \/ SkipByte \/ RestartHunt \/ TakeChannel
    <3>1. wrong' = wrong
      BY <2>4, Zenon DEF MatchMarker, SkipByte, RestartHunt, TakeChannel, ParseUnchanged, history
    <3>2. Stream(W, F, C)'
      BY <1>3, <2>4, HuntingStep, Zenon
    <3> QED BY <1>3, <3>1, <3>2, Zenon
  <2>5. CASE TakeLengthByte
    <3>1. wrong' = wrong
      BY <2>5, Zenon DEF TakeLengthByte, ParseUnchanged, history
    <3>2. Stream(W, F, C)'
      BY <1>3, <2>5, LengthStep, Zenon
    <3> QED BY <1>3, <3>1, <3>2, Zenon
  <2>6. CASE Transfer
    <3>1. Stream(W, F, C)' /\ (wrong' => wrong)
      BY <1>3, <2>6, TransferStep, Zenon
    <3> QED BY <1>3, <3>1, Zenon
  <2>7. CASE BeginPayload \/ ClearFlag \/ Event \/ UNCHANGED vars
    <3>1. wrong' = wrong /\ UNCHANGED <<wire, owed, chunk, i, state, header, cur_send_video_len>>
      BY <2>7, Zenon DEF BeginPayload, ClearFlag, Event, PlugOut, DisableOther, Disable, SetFlag0, SetFlag1,
         SetFlag, vars, hostVars, parserVars, callVars, history
    <3>2. Stream(W, F, C)'
      BY <1>3, <3>1, StreamFrame
    <3> QED BY <1>3, <3>1, <3>2, Zenon
  <2> QED BY <1>3, <2>1, <2>2, <2>3, <2>4, <2>5, <2>6, <2>7, Zenon DEF Next, Host, Receive
<1> QED BY <1>1, <1>2, <1>3, Zenon DEF StreamInv
-------------------------------------------------------------------------------
IInv == TypeInv /\ SwitchInv /\ ReachInv /\ StreamInv

(* However the host's chunks, the pulled cable and the plug-out callback   *)
(* interleave, the parser's variables are consistent (TypeInv), a channel  *)
(* whose flag is clear is on or overtaken (SwitchInv, ReachInv), and the   *)
(* parser is at the place of the stream where it takes itself to be        *)
(* (StreamInv).                                                            *)
THEOREM Invariance == Spec => []IInv
<1>1. Init => IInv
  BY Initially, StreamInitially DEF IInv
<1>2. IInv /\ [Next]_vars => IInv'
  BY TypeInductive, SwitchInductive, ReachInductive, StreamInductive, Zenon DEF IInv
<1> QED BY <1>1, <1>2, PTL DEF Spec

(* The static variables and the locals of receive_video_stream, the flags  *)
(* and the channels keep their types: the parser never reads behind its    *)
(* chunk, and never sends more of a frame than its length.                 *)
THEOREM TypeCorrect == Spec => []TypeOK
<1>1. IInv => TypeOK
  BY DEF IInv, TypeInv, ParserT, CallT, PlugT, TypeOK
<1> QED BY <1>1, Invariance, PTL

(* What receive_video_stream hands to a channel is what the host sent next *)
(* to it, for every cutting of the stream into chunks and whatever stands  *)
(* between two frames, unless the cable was pulled inside a frame.         *)
THEOREM StaysInStep == Spec => []InStep
<1>1. IInv => InStep
  BY Zenon DEF IInv, StreamInv, InStep
<1> QED BY <1>1, Invariance, PTL

(* Until usb_plug_out_callback runs for the first time, the parser has     *)
(* enabled every channel it transfers to.                                  *)
THEOREM AlwaysReaches == Spec => []ReachesChannel
<1>1. IInv => ReachesChannel
  BY Zenon DEF IInv, ReachInv, ReachesChannel
<1> QED BY <1>1, Invariance, PTL

(* A clear flag means an enabled channel again as soon as                  *)
(* usb_plug_out_callback has returned, unless it set the flag between the  *)
(* parser's enabling and its clearing.                                     *)
THEOREM EnabledAgain == Spec => []EnabledUnlessOvertaken
<1>1. IInv => EnabledUnlessOvertaken
  BY Zenon DEF IInv, SwitchInv, Switched, EnabledUnlessOvertaken
<1> QED BY <1>1, Invariance, PTL
===============================================================================
