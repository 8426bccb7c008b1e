----------------------------- MODULE NetRepeater -----------------------------
(***************************************************************************)
(* Example/test_net_repeater_ground.c: the ground repeater between the USB *)
(* network card and baseband session 3.  repeater_ground_input (the USB    *)
(* network callback) fills the slots of session_ring, sessionSend_task     *)
(* empties them.  No lock protects the ring: the two share rd_ptr, wr_ptr, *)
(* buffer[] and buffer_size[], and interleave at every access to them.     *)
(*                                                                         *)
(* A frame is an opaque value with a size.  capacity[i] is the size of the *)
(* heap block behind buffer[i] (0: the pointer is NULL), content[i] what   *)
(* the block holds.  buffer_size[i] is the code's own record, which it     *)
(* uses both as the length of the message and as the size of the block.    *)
(*                                                                         *)
(* The command that starts the repeater is modelled once: a second one     *)
(* adds a second consumer, which the ring does not support.                *)
(***************************************************************************)
EXTENDS Naturals, Sequences

CONSTANTS Frames,      \* the frames the network card may hand over
          FrameSize,   \* the length of each frame
          MAX_BUFFER,  \* the slots of session_ring (50 in the code)
          MaxSize,     \* the longest frame taken (2000 in the code)
          MaxFrames,   \* bound of the model: how many frames are accepted
          Torn         \* the content of a block in the middle of a memcpy

ASSUME NetAssumption ==
    /\ MAX_BUFFER \in Nat /\ MAX_BUFFER > 1
    /\ MaxSize \in Nat
    /\ MaxFrames \in Nat
    /\ FrameSize \in [Frames -> Nat \ {0}]
    /\ Torn \notin Frames

VARIABLES rd_ptr, wr_ptr,         \* session_ring's indices
          buffer_size,            \* session_ring.buffer_size[]
          capacity, content,      \* the heap blocks behind session_ring.buffer[]
          sPc, rd_idx, sLen,      \* sessionSend_task: where it is, its locals
          iPc, frame,             \* repeater_ground_input: where it is, (data, size)
          accepted, delivered     \* history: <<frame, length>> in and out

senderVars == <<sPc, rd_idx, sLen>>
inputVars == <<iPc, frame>>
ringVars == <<rd_ptr, wr_ptr, buffer_size, capacity, content>>
history == <<accepted, delivered>>
vars == <<ringVars, senderVars, inputVars, history>>

Slots == 0 .. MAX_BUFFER - 1
Messages == (Frames \union {Torn}) \X (0 .. MaxSize)

Init == /\ rd_ptr = 0 /\ wr_ptr = 0
        /\ buffer_size = [i \in Slots |-> 0]
        /\ capacity = [i \in Slots |-> 0]
        /\ content = [i \in Slots |-> Torn]
        /\ sPc = "off" /\ rd_idx = 0 /\ sLen = 0
        /\ iPc = "unregistered" /\ frame \in Frames
        /\ accepted = <<>> /\ delivered = <<>>
------------------------------------------------------------------------------
(* The ring's arithmetic. *)

NextIdxNoWrap(i) == IF i + 1 > MAX_BUFFER THEN 0 ELSE i + 1
NextIdx(i) == (i + 1) % MAX_BUFFER

FullOneLate(rd, wr) == FALSE
Full(rd, wr) == NextIdx(wr) = rd

OutOfRange(rd, wr) == rd >= MAX_BUFFER \/ wr >= MAX_BUFFER
------------------------------------------------------------------------------
(* sessionSend_task *)

Start == /\ sPc = "off"
         /\ rd_ptr' = 0 /\ wr_ptr' = 0
         /\ buffer_size' = [i \in Slots |-> 0]
         /\ sPc' = "mac"
         /\ UNCHANGED <<capacity, content, rd_idx, sLen, inputVars, history>>

(* The camera's MAC address is known: only now is the callback registered. *)
GetMac == /\ sPc = "mac"
          /\ sPc' = "poll"
          /\ iPc' = "idle"
          /\ UNCHANGED <<ringVars, rd_idx, sLen, frame, history>>

SampleRd == /\ sPc = "poll"
            /\ rd_idx' = rd_ptr
            /\ sPc' = "sampled"
            /\ UNCHANGED <<ringVars, sLen, inputVars, history>>

SampleWr == /\ sPc = "sampled"
            /\ sPc' = IF OutOfRange(rd_idx, wr_ptr) \/ rd_idx = wr_ptr
                      THEN "poll" ELSE "load"
            /\ UNCHANGED <<ringVars, rd_idx, sLen, inputVars, history>>

LoadArguments == /\ sPc = "load"
                 /\ sLen' = buffer_size[rd_idx]
                 /\ sPc' = "send"
                 /\ UNCHANGED <<ringVars, rd_idx, inputVars, history>>

SendOk == /\ sPc = "send"
          /\ delivered' = Append(delivered, <<content[rd_idx], sLen>>)
          /\ sPc' = "advance"
          /\ UNCHANGED <<ringVars, rd_idx, sLen, inputVars, accepted>>

SendFailsAdvances == /\ sPc = "send"
                     /\ sPc' = "advance"
                     /\ UNCHANGED <<ringVars, rd_idx, sLen, inputVars, history>>

SendFails == /\ sPc = "send"
             /\ sPc' = "poll"
             /\ UNCHANGED <<ringVars, rd_idx, sLen, inputVars, history>>

AdvanceRd == /\ sPc = "advance"
             /\ rd_ptr' = NextIdx(rd_idx)
             /\ sPc' = "poll"
             /\ UNCHANGED <<wr_ptr, buffer_size, capacity, content, rd_idx, sLen,
                            inputVars, history>>
------------------------------------------------------------------------------
(* repeater_ground_input.  A frame for another MAC address, one that finds *)
(* the ring full and one that is too long are dropped: nothing changes.    *)

InputEnter(f) == /\ iPc = "idle"
                 /\ Len(accepted) < MaxFrames
                 /\ ~OutOfRange(rd_ptr, wr_ptr)
                 /\ ~Full(rd_ptr, wr_ptr)
                 /\ FrameSize[f] <= MaxSize
                 /\ frame' = f
                 /\ iPc' = "alloc"
                 /\ UNCHANGED <<ringVars, senderVars, history>>

(* The slot's record says that its block is large enough. *)
InputKeepBlock == /\ iPc = "alloc"
                  /\ FrameSize[frame] <= buffer_size[wr_ptr]
                  /\ iPc' = IF capacity[wr_ptr] = 0 THEN "idle" ELSE "copy"
                  /\ UNCHANGED <<ringVars, senderVars, frame, history>>

InputGrowBlock == /\ iPc = "alloc"
                  /\ FrameSize[frame] > buffer_size[wr_ptr]
                  /\ capacity' = [capacity EXCEPT ![wr_ptr] = FrameSize[frame]]
                  /\ iPc' = "copy"
                  /\ UNCHANGED <<rd_ptr, wr_ptr, buffer_size, content, senderVars,
                                 frame, history>>

InputGrowUnchecked == /\ iPc = "alloc"
                      /\ FrameSize[frame] > buffer_size[wr_ptr]
                      /\ capacity' = [capacity EXCEPT ![wr_ptr] = 0]
                      /\ iPc' = "copy"
                      /\ UNCHANGED <<rd_ptr, wr_ptr, buffer_size, content, senderVars,
                                     frame, history>>

(* The failure of realloc_safe overwrites the slot's pointer with NULL. *)
InputGrowFails == /\ iPc = "alloc"
                  /\ FrameSize[frame] > buffer_size[wr_ptr]
                  /\ capacity' = [capacity EXCEPT ![wr_ptr] = 0]
                  /\ iPc' = "idle"
                  /\ UNCHANGED <<rd_ptr, wr_ptr, buffer_size, content, senderVars,
                                 frame, history>>

InputBeginCopy == /\ iPc = "copy"
                  /\ content' = [content EXCEPT ![wr_ptr] = Torn]
                  /\ iPc' = "copying"
                  /\ UNCHANGED <<rd_ptr, wr_ptr, buffer_size, capacity, senderVars,
                                 frame, history>>

InputEndCopy == /\ iPc = "copying"
                /\ content' = [content EXCEPT ![wr_ptr] = frame]
                /\ iPc' = "size"
                /\ UNCHANGED <<rd_ptr, wr_ptr, buffer_size, capacity, senderVars,
                               frame, history>>

InputSetSize == /\ iPc = "size"
                /\ buffer_size' = [buffer_size EXCEPT ![wr_ptr] = FrameSize[frame]]
                /\ iPc' = "publish"
                /\ UNCHANGED <<rd_ptr, wr_ptr, capacity, content, senderVars,
                               frame, history>>

InputPublish == /\ iPc = "publish"
                /\ wr_ptr' = NextIdx(wr_ptr)
                /\ accepted' = Append(accepted, <<frame, FrameSize[frame]>>)
                /\ iPc' = "idle"
                /\ UNCHANGED <<rd_ptr, buffer_size, capacity, content, senderVars,
                               frame, delivered>>
------------------------------------------------------------------------------
Sender == \/ GetMac \/ SampleRd \/ SampleWr \/ LoadArguments
          \/ SendOk \/ SendFails \/ AdvanceRd

Input == \/ \E f \in Frames : InputEnter(f)
         \/ InputKeepBlock \/ InputGrowBlock \/ InputGrowFails
         \/ InputBeginCopy \/ InputEndCopy \/ InputSetSize \/ InputPublish

Next == Start \/ Sender \/ Input

Spec == Init /\ [][Next]_vars

(* The sender is a thread that the scheduler runs, and the link takes a    *)
(* message infinitely often when it is offered one infinitely often.       *)
FairSpec == Spec /\ WF_vars(Sender) /\ SF_vars(SendOk)
------------------------------------------------------------------------------
TypeOK == /\ rd_ptr \in Slots /\ wr_ptr \in Slots /\ rd_idx \in Slots
          /\ buffer_size \in [Slots -> 0 .. MaxSize]
          /\ capacity \in [Slots -> 0 .. MaxSize]
          /\ content \in [Slots -> Frames \union {Torn}]
          /\ sPc \in {"off", "mac", "poll", "sampled", "load", "send", "advance"}
          /\ sLen \in 0 .. MaxSize
          /\ iPc \in {"unregistered", "idle", "alloc", "copy", "copying", "size", "publish"}
          /\ frame \in Frames
          /\ accepted \in Seq(Messages) /\ delivered \in Seq(Messages)

(* A memcpy into a slot never writes past the heap block behind it, and a  *)
(* send never reads past it: buffer_size, reused as the size of the block, *)
(* never exceeds it where it matters, whatever malloc_safe and             *)
(* realloc_safe answered before (lines 175-190 and 87).                    *)
WithinBlock == /\ iPc \in {"copy", "copying"} => capacity[wr_ptr] >= FrameSize[frame]
               /\ sPc = "send" => capacity[rd_idx] >= sLen

(* What went out over the baseband is a prefix of what was accepted from   *)
(* the network card: no frame is lost, sent twice, overtaken, cut or mixed *)
(* with another one, although the sender samples rd_ptr and wr_ptr at      *)
(* different moments and retries a failed send from the start.             *)
DeliveredInOrder == /\ Len(delivered) <= Len(accepted)
                    /\ \A k \in 1 .. Len(delivered) : delivered[k] = accepted[k]

(* The ring is a bounded FIFO channel of MAX_BUFFER - 1 messages, and every *)
(* accepted frame is sent in the end, however often the link refuses it.   *)
Channel == INSTANCE FrameChannel WITH Capacity <- MAX_BUFFER - 1
ImplementsChannel == Channel!ChanSpec
=============================================================================
