-------------------------- MODULE NetRepeaterProofs --------------------------
(***************************************************************************)
(* Proofs about NetRepeater for every MAX_BUFFER, every set of frames and  *)
(* every sequence of sizes, allocation failures and refused sends.         *)
(***************************************************************************)
EXTENDS NetRepeater, Integers, TLAPS

(* How many slots after slot r slot i comes. *)
Dist(r, i) == IF i >= r THEN i - r ELSE i + MAX_BUFFER - r

(* How many frames the sender has taken out of the ring: between a send    *)
(* that succeeded and the store to rd_ptr the delivered one is still in.   *)
Removed == IF sPc = "advance" THEN Len(delivered) - 1 ELSE Len(delivered)

SenderActive == sPc \in {"load", "send", "advance"}
InputActive == iPc \in {"alloc", "copy", "copying", "size", "publish"}

(* The slots from rd_ptr up to wr_ptr hold the accepted frames that are    *)
(* not removed yet, in order, each in a block at least as long as it.      *)
RingInv ==
    /\ Removed >= 0
    /\ Len(accepted) = Removed + Dist(rd_ptr, wr_ptr)
    /\ \A i \in Slots : Dist(rd_ptr, i) < Dist(rd_ptr, wr_ptr) =>
           /\ accepted[Removed + Dist(rd_ptr, i) + 1] = <<content[i], buffer_size[i]>>
           /\ capacity[i] >= buffer_size[i]

(* A block that exists is as long as its record says. *)
BlockInv == \A i \in Slots : capacity[i] # 0 => capacity[i] >= buffer_size[i]

SenderInv ==
    /\ sPc \in {"sampled", "load", "send", "advance"} => rd_idx = rd_ptr
    /\ SenderActive => rd_ptr # wr_ptr
    /\ sPc = "send" => sLen = buffer_size[rd_ptr]
    /\ (iPc = "unregistered") = (sPc \in {"off", "mac"})
    /\ sPc = "off" => rd_ptr = 0 /\ wr_ptr = 0

InputInv ==
    /\ InputActive => NextIdx(wr_ptr) # rd_ptr /\ FrameSize[frame] <= MaxSize
    /\ iPc \in {"copy", "copying", "size", "publish"} => capacity[wr_ptr] >= FrameSize[frame]
    /\ iPc \in {"size", "publish"} => content[wr_ptr] = frame
    /\ iPc = "publish" => buffer_size[wr_ptr] = FrameSize[frame]

IInv == TypeOK /\ RingInv /\ BlockInv /\ SenderInv /\ InputInv /\ DeliveredInOrder
------------------------------------------------------------------------------
LEMMA NextIdxWraps ==
    ASSUME NetAssumption, NEW i \in Slots
    PROVE  /\ NextIdx(i) \in Slots
           /\ NextIdx(i) = IF i + 1 = MAX_BUFFER THEN 0 ELSE i + 1
  BY DEF NextIdx, Slots, NetAssumption

LEMMA DistFacts ==
    ASSUME NetAssumption, NEW r \in Slots, NEW i \in Slots
    PROVE  /\ Dist(r, i) \in Nat /\ Dist(r, i) < MAX_BUFFER
           /\ Dist(r, r) = 0
           /\ r # i => Dist(r, i) > 0
           /\ r # i => Dist(NextIdx(r), i) = Dist(r, i) - 1
           /\ NextIdx(i) # r => Dist(r, NextIdx(i)) = Dist(r, i) + 1
           /\ Dist(NextIdx(i), i) = MAX_BUFFER - 1
           /\ \A j \in Slots : Dist(r, i) = Dist(r, j) => i = j
  BY NextIdxWraps DEF Dist, Slots, NetAssumption

(* The type invariant and the inductive invariant hold in every initial    *)
(* state: the ring is empty and nothing has been accepted.                 *)
LEMMA InitIInv == ASSUME NetAssumption PROVE Init => IInv
  <1> SUFFICES ASSUME Init PROVE IInv
    OBVIOUS
  <1> USE DEF Init, Slots, NetAssumption
  <1>1. TypeOK
    BY DEF TypeOK
  <1>2. RingInv /\ BlockInv
    BY DEF RingInv, BlockInv, Removed, Dist
  <1>3. SenderInv /\ InputInv /\ DeliveredInOrder
    BY DEF SenderInv, InputInv, DeliveredInOrder, SenderActive, InputActive
  <1> QED
    BY <1>1, <1>2, <1>3 DEF IInv

LEMMA StepType == ASSUME NetAssumption, IInv, Next PROVE TypeOK'
  <1> USE NextIdxWraps DEF IInv, TypeOK, vars, ringVars, senderVars, inputVars, history
  <1>1. ASSUME Start PROVE TypeOK'
    BY <1>1, SMTT(20) DEF Start, Slots, NetAssumption
  <1>2. ASSUME GetMac \/ SampleRd \/ SampleWr \/ SendFails PROVE TypeOK'
    BY <1>2 DEF GetMac, SampleRd, SampleWr, SendFails
  <1>3. ASSUME LoadArguments PROVE TypeOK'
    BY <1>3 DEF LoadArguments
  <1>4. ASSUME SendOk PROVE TypeOK'
    <2>1. <<content[rd_idx], sLen>> \in Messages
      BY DEF Messages
    <2> QED
      BY <1>4, <2>1 DEF SendOk
  <1>5. ASSUME AdvanceRd PROVE TypeOK'
    BY <1>5 DEF AdvanceRd
  <1>6. ASSUME NEW f \in Frames, InputEnter(f) PROVE TypeOK'
    BY <1>6 DEF InputEnter
  <1>7. ASSUME InputKeepBlock PROVE TypeOK'
    BY <1>7 DEF InputKeepBlock
  <1>11. ASSUME InputGrowFails PROVE TypeOK'
    <2>1. 0 \in 0 .. MaxSize
      BY DEF NetAssumption
    <2> QED
      BY <1>11, <2>1 DEF InputGrowFails
  <1>8. ASSUME InputGrowBlock \/ InputSetSize PROVE TypeOK'
    <2>1. FrameSize[frame] \in 0 .. MaxSize
      BY <1>8 DEF InputInv, InputActive, NetAssumption, InputGrowBlock, InputSetSize
    <2>2. CASE InputGrowBlock
      BY <2>1, <2>2 DEF InputGrowBlock
    <2>3. CASE InputSetSize
      BY <2>1, <2>3 DEF InputSetSize
    <2> QED
      BY <1>8, <2>2, <2>3
  <1>9. ASSUME InputBeginCopy \/ InputEndCopy PROVE TypeOK'
    BY <1>9, ZenonT(40) DEF InputBeginCopy, InputEndCopy
  <1>10. ASSUME InputPublish PROVE TypeOK'
    <2>1. <<frame, FrameSize[frame]>> \in Messages
      BY <1>10 DEF Messages, InputInv, InputActive, NetAssumption, InputPublish
    <2> QED
      BY <1>10, <2>1, SMTT(20) DEF InputPublish
  <1> QED
    BY <1>1, <1>2, <1>3, <1>4, <1>5, <1>6, <1>7, <1>8, <1>9, <1>10, <1>11
    DEF Next, Sender, Input

(* A step that touches at most the slot that wr_ptr designates, and neither *)
(* the indices nor the histories, leaves the pending frames as they are.   *)
LEMMA RingFrame ==
    ASSUME NetAssumption, TypeOK, RingInv,
           UNCHANGED <<rd_ptr, wr_ptr, accepted, Removed>>,
           \A i \in Slots \ {wr_ptr} : /\ content'[i] = content[i]
                                        /\ buffer_size'[i] = buffer_size[i]
                                        /\ capacity'[i] = capacity[i]
    PROVE  RingInv'
  <1>1. \A i \in Slots : Dist(rd_ptr, i) < Dist(rd_ptr, wr_ptr) => i # wr_ptr
    BY DistFacts DEF TypeOK
  <1> QED
    BY <1>1 DEF RingInv

LEMMA StepRing == ASSUME NetAssumption, IInv, TypeOK', Next PROVE RingInv'
  <1> USE DEF IInv, vars, ringVars, senderVars, inputVars, history
  <1>1. ASSUME Start PROVE RingInv'
    <2>1. 0 \in Slots
      BY DEF Slots, NetAssumption
    <2>2. rd_ptr = 0 /\ wr_ptr = 0 /\ Removed' = Removed
      BY <1>1 DEF Start, SenderInv, Removed
    <2>3. (\A i \in Slots : Dist(0, i) \in Nat) /\ Dist(0, 0) = 0
      BY <2>1, DistFacts DEF Slots
    <2>4. UNCHANGED <<rd_ptr, wr_ptr, accepted>>
      BY <1>1, <2>2 DEF Start
    <2>5. ~ \E i \in Slots : Dist(rd_ptr, i) < Dist(rd_ptr, wr_ptr)
      BY <2>2, <2>3
    <2> QED
      BY <2>2, <2>4, <2>5 DEF RingInv
  <1>2. ASSUME GetMac \/ SampleRd \/ SampleWr \/ LoadArguments \/ SendFails PROVE RingInv'
    <2>1. UNCHANGED <<rd_ptr, wr_ptr, accepted, Removed, content, buffer_size, capacity>>
      BY <1>2 DEF GetMac, SampleRd, SampleWr, LoadArguments, SendFails, Removed
    <2> QED
      BY <2>1, RingFrame
  <1>3. ASSUME SendOk PROVE RingInv'
    <2>1. UNCHANGED <<rd_ptr, wr_ptr, accepted, Removed, content, buffer_size, capacity>>
      BY <1>3 DEF SendOk, Removed, TypeOK
    <2> QED
      BY <2>1, RingFrame
  <1>4. ASSUME AdvanceRd PROVE RingInv'
    <2>1. rd_ptr' = NextIdx(rd_ptr) /\ rd_ptr \in Slots /\ wr_ptr \in Slots /\ rd_ptr # wr_ptr
      BY <1>4 DEF AdvanceRd, TypeOK, SenderInv, SenderActive
    <2>2. Removed' = Removed + 1 /\ Removed \in Int
      BY <1>4 DEF AdvanceRd, Removed, TypeOK
    <2>3. Dist(rd_ptr', wr_ptr) = Dist(rd_ptr, wr_ptr) - 1
      BY <2>1, DistFacts
    <2>4. ASSUME NEW i \in Slots, Dist(rd_ptr', i) < Dist(rd_ptr', wr_ptr)
          PROVE  i # rd_ptr /\ Dist(rd_ptr', i) = Dist(rd_ptr, i) - 1
      <3>1. Dist(rd_ptr, wr_ptr) \in Nat /\ Dist(rd_ptr, wr_ptr) < MAX_BUFFER
        BY <2>1, DistFacts
      <3>2. Dist(rd_ptr', rd_ptr) = MAX_BUFFER - 1
        BY <2>1, DistFacts
      <3>3. i # rd_ptr
        BY <2>3, <2>4, <3>1, <3>2 DEF NetAssumption
      <3> QED
        BY <2>1, <3>3, DistFacts
    <2>5. \A i \in Slots : Dist(rd_ptr, i) \in Int
      BY <2>1, DistFacts DEF Slots
    <2>6. UNCHANGED <<wr_ptr, accepted, content, buffer_size, capacity>>
      BY <1>4 DEF AdvanceRd
    <2>7. Removed' >= 0 /\ Len(accepted') = Removed' + Dist(rd_ptr', wr_ptr')
      BY <2>1, <2>2, <2>3, <2>5, <2>6 DEF RingInv
    <2>8. ASSUME NEW i \in Slots, Dist(rd_ptr', i) < Dist(rd_ptr', wr_ptr)
          PROVE  /\ accepted[Removed' + Dist(rd_ptr', i) + 1] = <<content[i], buffer_size[i]>>
                 /\ capacity[i] >= buffer_size[i]
      <3>1. Dist(rd_ptr, i) < Dist(rd_ptr, wr_ptr)
        BY <2>1, <2>3, <2>4, <2>5, <2>8
      <3>2. Removed' + Dist(rd_ptr', i) + 1 = Removed + Dist(rd_ptr, i) + 1
        BY <2>2, <2>4, <2>5, <2>8
      <3> QED
        BY <3>1, <3>2 DEF RingInv
    <2> QED
      BY <2>6, <2>7, <2>8 DEF RingInv
  <1>5. ASSUME NEW f \in Frames, InputEnter(f) PROVE RingInv'
    <2>1. UNCHANGED <<rd_ptr, wr_ptr, accepted, Removed, content, buffer_size, capacity>>
      BY <1>5 DEF InputEnter, Removed
    <2> QED
      BY <2>1, RingFrame
  <1>6. ASSUME InputKeepBlock PROVE RingInv'
    <2>1. UNCHANGED <<rd_ptr, wr_ptr, accepted, Removed, content, buffer_size, capacity>>
      BY <1>6 DEF InputKeepBlock, Removed
    <2> QED
      BY <2>1, RingFrame
  <1>7. ASSUME \/ InputGrowBlock \/ InputGrowFails
               \/ InputBeginCopy \/ InputEndCopy \/ InputSetSize
        PROVE  RingInv'
    <2>1. UNCHANGED <<rd_ptr, wr_ptr, accepted, Removed>>
      BY <1>7 DEF InputGrowBlock, InputGrowFails, InputBeginCopy, InputEndCopy,
                  InputSetSize, Removed
    <2>2. \A i \in Slots \ {wr_ptr} : /\ content'[i] = content[i]
                                       /\ buffer_size'[i] = buffer_size[i]
                                       /\ capacity'[i] = capacity[i]
      BY <1>7 DEF InputGrowBlock, InputGrowFails, InputBeginCopy, InputEndCopy,
                  InputSetSize, TypeOK
    <2> QED
      BY <2>1, <2>2, RingFrame
  <1>8. ASSUME InputPublish PROVE RingInv'
    <2>1. /\ wr_ptr' = NextIdx(wr_ptr) /\ NextIdx(wr_ptr) # rd_ptr
          /\ rd_ptr \in Slots /\ wr_ptr \in Slots
      BY <1>8 DEF InputPublish, TypeOK, InputInv, InputActive
    <2>2. Dist(rd_ptr, wr_ptr') = Dist(rd_ptr, wr_ptr) + 1
      BY <2>1, DistFacts
    <2>3. /\ accepted' = Append(accepted, <<content[wr_ptr], buffer_size[wr_ptr]>>)
          /\ capacity[wr_ptr] >= buffer_size[wr_ptr]
      BY <1>8 DEF InputPublish, InputInv
    <2>4. \A i \in Slots : /\ Dist(rd_ptr, i) \in Nat
                           /\ Dist(rd_ptr, i) = Dist(rd_ptr, wr_ptr) => i = wr_ptr
      BY <2>1, DistFacts DEF Slots
    <2>5. Removed' = Removed /\ Removed \in Int /\ accepted \in Seq(Messages)
      BY <1>8 DEF InputPublish, Removed, TypeOK
    <2>6. UNCHANGED <<rd_ptr, content, buffer_size, capacity>>
      BY <1>8 DEF InputPublish
    <2>7. Len(accepted) = Removed + Dist(rd_ptr, wr_ptr) /\ Removed >= 0
      BY DEF RingInv
    <2>8. /\ Len(accepted') = Len(accepted) + 1
          /\ accepted'[Len(accepted) + 1] = <<content[wr_ptr], buffer_size[wr_ptr]>>
          /\ \A k \in 1 .. Len(accepted) : accepted'[k] = accepted[k]
      BY <2>3, <2>5
    <2>11. Dist(rd_ptr, wr_ptr) \in Nat
      BY <2>1, <2>4
    <2>9. Len(accepted') = Removed' + Dist(rd_ptr', wr_ptr')
      BY <2>2, <2>5, <2>6, <2>7, <2>8, <2>11
    <2>10. ASSUME NEW i \in Slots, Dist(rd_ptr, i) < Dist(rd_ptr, wr_ptr) + 1
           PROVE  /\ accepted'[Removed + Dist(rd_ptr, i) + 1] = <<content[i], buffer_size[i]>>
                  /\ capacity[i] >= buffer_size[i]
      <3>1. CASE i = wr_ptr
        BY <2>3, <2>7, <2>8, <3>1
      <3>2. CASE i # wr_ptr
        <4>3. Dist(rd_ptr, i) # Dist(rd_ptr, wr_ptr)
          BY <2>4, <3>2
        <4>4. Dist(rd_ptr, i) \in Nat
          BY <2>4
        <4>1. Dist(rd_ptr, i) < Dist(rd_ptr, wr_ptr)
          BY <2>11, <2>10, <4>3, <4>4
        <4>2. Removed + Dist(rd_ptr, i) + 1 \in 1 .. Len(accepted)
          BY <2>5, <2>7, <2>11, <4>1, <4>4
        <4> QED
          BY <2>8, <4>1, <4>2 DEF RingInv
      <3> QED
        BY <3>1, <3>2
    <2> QED
      BY <2>2, <2>5, <2>6, <2>7, <2>9, <2>10 DEF RingInv
  <1> QED
    BY <1>1, <1>2, <1>3, <1>4, <1>5, <1>6, <1>7, <1>8 DEF Next, Sender, Input

LEMMA StepBlock == ASSUME NetAssumption, IInv, Next PROVE BlockInv'
  <1> USE DEF IInv, BlockInv, TypeOK
  <1>1. ASSUME Start PROVE BlockInv'
    BY <1>1 DEF Start
  <1>2. ASSUME InputGrowBlock PROVE BlockInv'
    BY <1>2 DEF InputGrowBlock
  <1>3. ASSUME InputGrowFails PROVE BlockInv'
    BY <1>3 DEF InputGrowFails
  <1>4. ASSUME InputSetSize PROVE BlockInv'
    <2>1. capacity[wr_ptr] >= FrameSize[frame]
      BY <1>4 DEF InputSetSize, InputInv
    <2> QED
      BY <1>4, <2>1 DEF InputSetSize
  <1>5. ASSUME UNCHANGED <<buffer_size, capacity>> PROVE BlockInv'
    BY <1>5
  <1>6. ASSUME \/ GetMac \/ SampleRd \/ SampleWr \/ LoadArguments \/ SendOk \/ SendFails
               \/ AdvanceRd \/ (\E f \in Frames : InputEnter(f)) \/ InputKeepBlock
               \/ InputBeginCopy \/ InputEndCopy \/ InputPublish
        PROVE  UNCHANGED <<buffer_size, capacity>>
    BY <1>6 DEF GetMac, SampleRd, SampleWr, LoadArguments, SendOk, SendFails, AdvanceRd,
                InputEnter, InputKeepBlock, InputBeginCopy, InputEndCopy, InputPublish,
                ringVars
  <1> QED
    BY <1>1, <1>2, <1>3, <1>4, <1>5, <1>6 DEF Next, Sender, Input

LEMMA StepSender == ASSUME NetAssumption, IInv, Next PROVE SenderInv'
  <1> USE DEF IInv, TypeOK, SenderInv, SenderActive, vars, ringVars, senderVars, inputVars
  <1>1. ASSUME Start \/ GetMac PROVE SenderInv'
    BY <1>1 DEF Start, GetMac
  <1>2. ASSUME SampleRd \/ SampleWr \/ LoadArguments PROVE SenderInv'
    BY <1>2 DEF SampleRd, SampleWr, LoadArguments
  <1>3. ASSUME SendOk \/ SendFails \/ AdvanceRd PROVE SenderInv'
    BY <1>3 DEF SendOk, SendFails, AdvanceRd
  <1>4. ASSUME NEW f \in Frames, InputEnter(f) PROVE SenderInv'
    BY <1>4 DEF InputEnter
  <1>5. ASSUME InputKeepBlock \/ InputGrowBlock \/ InputGrowFails PROVE SenderInv'
    BY <1>5 DEF InputKeepBlock, InputGrowBlock, InputGrowFails
  <1>6. ASSUME InputBeginCopy \/ InputEndCopy PROVE SenderInv'
    BY <1>6 DEF InputBeginCopy, InputEndCopy
  <1>7. ASSUME InputSetSize PROVE SenderInv'
    BY <1>7 DEF InputSetSize
  <1>8. ASSUME InputPublish PROVE SenderInv'
    BY <1>8, NextIdxWraps DEF InputPublish, InputInv, InputActive
  <1> QED
    BY <1>1, <1>2, <1>3, <1>4, <1>5, <1>6, <1>7, <1>8 DEF Next, Sender, Input

LEMMA StepInput == ASSUME NetAssumption, IInv, Next PROVE InputInv'
  <1> USE DEF IInv, TypeOK, InputInv, InputActive, vars, ringVars, senderVars, inputVars
  <1>1. ASSUME Start \/ GetMac PROVE InputInv'
    BY <1>1 DEF Start, GetMac, SenderInv
  <1>2. ASSUME SampleRd \/ SampleWr \/ LoadArguments \/ SendOk \/ SendFails PROVE InputInv'
    BY <1>2 DEF SampleRd, SampleWr, LoadArguments, SendOk, SendFails
  <1>3. ASSUME AdvanceRd PROVE InputInv'
    <2>1. /\ rd_ptr' = NextIdx(rd_ptr) /\ rd_ptr # wr_ptr
          /\ rd_ptr \in 0 .. MAX_BUFFER - 1 /\ wr_ptr \in 0 .. MAX_BUFFER - 1
      BY <1>3 DEF AdvanceRd, SenderInv, SenderActive, Slots
    <2>2. NextIdx(wr_ptr) # NextIdx(rd_ptr)
      <3>1. /\ NextIdx(wr_ptr) = IF wr_ptr + 1 = MAX_BUFFER THEN 0 ELSE wr_ptr + 1
            /\ NextIdx(rd_ptr) = IF rd_ptr + 1 = MAX_BUFFER THEN 0 ELSE rd_ptr + 1
        BY <2>1, NextIdxWraps DEF Slots
      <3> QED
        BY <2>1, <3>1
    <2> QED
      BY <1>3, <2>1, <2>2 DEF AdvanceRd
  <1>4. ASSUME NEW f \in Frames, InputEnter(f) PROVE InputInv'
    BY <1>4 DEF InputEnter, Full
  <1>5. ASSUME InputKeepBlock PROVE InputInv'
    BY <1>5 DEF InputKeepBlock, BlockInv, NetAssumption
  <1>6. ASSUME InputGrowBlock PROVE InputInv'
    BY <1>6 DEF InputGrowBlock, NetAssumption
  <1>7. ASSUME InputGrowFails PROVE InputInv'
    BY <1>7 DEF InputGrowFails
  <1>8. ASSUME InputBeginCopy \/ InputEndCopy \/ InputSetSize PROVE InputInv'
    BY <1>8 DEF InputBeginCopy, InputEndCopy, InputSetSize
  <1>9. ASSUME InputPublish PROVE InputInv'
    BY <1>9 DEF InputPublish
  <1> QED
    BY <1>1, <1>2, <1>3, <1>4, <1>5, <1>6, <1>7, <1>8, <1>9 DEF Next, Sender, Input

(* What a successful send hands over is the oldest frame not yet delivered. *)
LEMMA SendsOldest ==
    ASSUME NetAssumption, IInv, SendOk
    PROVE  /\ Len(delivered) < Len(accepted)
           /\ delivered' = Append(delivered, accepted[Len(delivered) + 1])
  <1>1. /\ rd_ptr \in Slots /\ wr_ptr \in Slots /\ rd_ptr # wr_ptr
        /\ rd_idx = rd_ptr /\ sLen = buffer_size[rd_ptr] /\ Removed = Len(delivered)
    BY DEF IInv, TypeOK, SendOk, SenderInv, SenderActive, Removed
  <1>2. Dist(rd_ptr, rd_ptr) = 0 /\ Dist(rd_ptr, wr_ptr) \in Nat /\ Dist(rd_ptr, wr_ptr) > 0
    BY <1>1, DistFacts
  <1>3. Len(delivered) \in Nat
    BY DEF IInv, TypeOK
  <1>4. accepted[Len(delivered) + 1] = <<content[rd_ptr], buffer_size[rd_ptr]>>
    BY <1>1, <1>2, <1>3 DEF IInv, RingInv
  <1>5. Len(accepted) = Len(delivered) + Dist(rd_ptr, wr_ptr)
    BY <1>1 DEF IInv, RingInv
  <1> QED
    BY <1>1, <1>2, <1>3, <1>4, <1>5 DEF SendOk

LEMMA StepOrder == ASSUME NetAssumption, IInv, Next PROVE DeliveredInOrder'
  <1> USE DEF IInv, TypeOK, DeliveredInOrder
  <1>1. ASSUME SendOk PROVE DeliveredInOrder'
    <2>1. /\ Len(delivered) < Len(accepted)
          /\ delivered' = Append(delivered, accepted[Len(delivered) + 1])
      BY <1>1, SendsOldest
    <2>2. accepted' = accepted
      BY <1>1 DEF SendOk
    <2> QED
      BY <2>1, <2>2
  <1>2. ASSUME InputPublish PROVE DeliveredInOrder'
    BY <1>2 DEF InputPublish
  <1>3. ASSUME \/ Start \/ GetMac \/ SampleRd \/ SampleWr \/ LoadArguments \/ SendFails
               \/ AdvanceRd \/ (\E f \in Frames : InputEnter(f)) \/ InputKeepBlock
               \/ InputGrowBlock \/ InputGrowFails \/ InputBeginCopy \/ InputEndCopy
               \/ InputSetSize
        PROVE  UNCHANGED history
    BY <1>3 DEF Start, GetMac, SampleRd, SampleWr, LoadArguments, SendFails, AdvanceRd,
                InputEnter, InputKeepBlock, InputGrowBlock, InputGrowFails,
                InputBeginCopy, InputEndCopy, InputSetSize, history
  <1>4. ASSUME UNCHANGED history PROVE DeliveredInOrder'
    BY <1>4 DEF history
  <1> QED
    BY <1>1, <1>2, <1>3, <1>4 DEF Next, Sender, Input
------------------------------------------------------------------------------
(* The inductive invariant holds in every reachable state. *)
THEOREM Invariance == ASSUME NetAssumption PROVE Spec => []IInv
  <1>1. Init => IInv
    BY InitIInv
  <1>2. IInv /\ [Next]_vars => IInv'
    <2> SUFFICES ASSUME IInv, [Next]_vars PROVE IInv'
      OBVIOUS
    <2>1. CASE Next
      <3>1. TypeOK'
        BY <2>1, StepType
      <3> QED
        BY <2>1, <3>1, StepRing, StepBlock, StepSender, StepInput, StepOrder DEF IInv
    <2>2. CASE UNCHANGED vars
      BY <2>2 DEF vars, ringVars, senderVars, inputVars, history, IInv, TypeOK, RingInv,
                  Removed, Dist, BlockInv, SenderInv, SenderActive, InputInv, InputActive,
                  DeliveredInOrder
    <2> QED
      BY <2>1, <2>2
  <1> QED
    BY <1>1, <1>2, PTL DEF Spec

(* Every variable keeps its type; in particular both indices always name a *)
(* slot, so that the "race condition" branches are never taken.            *)
THEOREM TypeCorrect == ASSUME NetAssumption PROVE Spec => []TypeOK
  <1>1. IInv => TypeOK
    BY DEF IInv
  <1> QED
    BY <1>1, Invariance, PTL

(* The frames sent over the baseband are a prefix of the frames accepted   *)
(* from the network card, whole and in order.                              *)
THEOREM InOrder == ASSUME NetAssumption PROVE Spec => []DeliveredInOrder
  <1>1. IInv => DeliveredInOrder
    BY DEF IInv
  <1> QED
    BY <1>1, Invariance, PTL

(* No memcpy into a slot and no send out of one leaves the heap block,     *)
(* although the code keeps no record of how long the block is.             *)
THEOREM BlocksRespected == ASSUME NetAssumption PROVE Spec => []WithinBlock
  <1>1. IInv => WithinBlock
    <2> SUFFICES ASSUME IInv PROVE WithinBlock
      OBVIOUS
    <2>1. iPc \in {"copy", "copying"} => capacity[wr_ptr] >= FrameSize[frame]
      BY DEF IInv, InputInv
    <2>2. ASSUME sPc = "send" PROVE capacity[rd_idx] >= sLen
      <3>1. /\ rd_ptr \in Slots /\ wr_ptr \in Slots /\ rd_ptr # wr_ptr
            /\ rd_idx = rd_ptr /\ sLen = buffer_size[rd_ptr]
        BY <2>2 DEF IInv, TypeOK, SenderInv, SenderActive
      <3>2. Dist(rd_ptr, rd_ptr) = 0 /\ Dist(rd_ptr, wr_ptr) > 0
        BY <3>1, DistFacts DEF Slots
      <3> QED
        BY <3>1, <3>2 DEF IInv, RingInv
    <2> QED
      BY <2>1, <2>2 DEF WithinBlock
  <1> QED
    BY <1>1, Invariance, PTL

(* The ring implements a FIFO channel of MAX_BUFFER - 1 messages: every    *)
(* step of the two contexts accepts a message, delivers the oldest one, or *)
(* changes nothing that the channel shows.                                 *)
THEOREM Refinement == ASSUME NetAssumption PROVE Spec => Channel!ChanSafety
  <1>1. Init => Channel!ChanInit
    BY DEF Init, Channel!ChanInit
  <1>2. IInv /\ [Next]_vars => [Channel!ChanNext]_(Channel!chanVars)
    <2> SUFFICES ASSUME IInv, [Next]_vars
                 PROVE  Channel!ChanNext \/ UNCHANGED Channel!chanVars
      OBVIOUS
    <2>1. CASE SendOk
      <3>1. Channel!Deliver
        BY <2>1, SendsOldest DEF SendOk, Channel!Deliver
      <3> QED
        BY <3>1 DEF Channel!ChanNext
    <2>2. CASE InputPublish
      <3>1. <<frame, FrameSize[frame]>> \in Messages
        BY <2>2 DEF InputPublish, IInv, TypeOK, InputInv, InputActive, Messages, NetAssumption
      <3>2. Len(accepted) - Len(delivered) < MAX_BUFFER - 1
        <4>1. /\ rd_ptr \in Slots /\ wr_ptr \in Slots /\ NextIdx(wr_ptr) # rd_ptr
              /\ Len(accepted) \in Nat /\ Len(delivered) \in Nat
          BY <2>2 DEF InputPublish, IInv, TypeOK, InputInv, InputActive
        <4>2. Dist(rd_ptr, wr_ptr) \in Nat /\ Dist(rd_ptr, wr_ptr) + 1 < MAX_BUFFER
          <5>1. Dist(rd_ptr, NextIdx(wr_ptr)) < MAX_BUFFER
            BY <4>1, DistFacts, NextIdxWraps
          <5> QED
            BY <4>1, <5>1, DistFacts
        <4>3. Len(accepted) = Removed + Dist(rd_ptr, wr_ptr) /\ Removed <= Len(delivered)
              /\ Removed \in Int
          BY <4>1 DEF IInv, RingInv, Removed
        <4> QED
          BY <4>1, <4>2, <4>3 DEF NetAssumption
      <3>3. Channel!Accept(<<frame, FrameSize[frame]>>)
        BY <2>2, <3>2 DEF InputPublish, Channel!Accept
      <3> QED
        BY <3>1, <3>3 DEF Channel!ChanNext
    <2>3. CASE UNCHANGED history
      BY <2>3 DEF history, Channel!chanVars
    <2>4. SendOk \/ InputPublish \/ UNCHANGED history
      BY DEF Next, Sender, Input, Start, GetMac, SampleRd, SampleWr, LoadArguments,
             SendFails, AdvanceRd, InputEnter, InputKeepBlock, InputGrowBlock,
             InputGrowFails, InputBeginCopy, InputEndCopy, InputSetSize, vars, history
    <2> QED
      BY <2>1, <2>2, <2>3, <2>4
  <1> QED
    BY <1>1, <1>2, Invariance, PTL DEF Spec, Channel!ChanSafety
=============================================================================
