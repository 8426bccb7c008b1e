--------------------------- MODULE BypassVideoProofs ---------------------------
(***************************************************************************)
(* Proofs about BypassVideo for every set of channels, every length of the *)
(* file and any number of commands and of plugs.                           *)
(***************************************************************************)
EXTENDS BypassVideo, TLAPS

(* A buffer has been chosen, and the file is about to be read into it. *)
InUse == hPc = "open" \/ taskState = "TRANS"

(* The flag, the file object and the state of the task agree. *)
FileInv == /\ fileOpened = (usbhAppFile = "open")
           /\ fileOpened = (taskState = "TRANS")
           /\ hPc = "open" => taskState = "IDLE"
           /\ hPc = "read" => taskState = "TRANS"

(* The console enables the selected channel before it registers the        *)
(* handler, and disables it before it takes the handler out.               *)
SelectedInv == /\ registered => bypassChannel \in enabled \/ cPc \in {"enable", "unregister"}
               /\ cPc = "register" => bypassChannel \in enabled

BufferInv == InUse => \/ videoBuff \in enabled
                      \/ stopped
                      \/ cPc = "enable" /\ bypassChannel = videoBuff

IInv == TypeOK /\ FileInv /\ SelectedInv /\ BufferInv
-------------------------------------------------------------------------------
LEMMA InitInv == Init => IInv
<1> SUFFICES ASSUME Init PROVE IInv
  OBVIOUS
<1> USE DEF Init
<1>1. TypeOK
  <2>1. left \in 0 .. FileChunks /\ commands \in Nat /\ plugs \in Nat
    BY BypassAssumption DEF BypassAssumption
  <2>2. bypassChannel \in Channels /\ videoBuff \in Channels /\ enabled \subseteq Channels
    BY BypassAssumption DEF BypassAssumption
  <2> QED BY <2>1, <2>2, Zenon DEF TypeOK
<1>2. FileInv
  BY DEF FileInv
<1>3. SelectedInv /\ BufferInv
  BY DEF SelectedInv, BufferInv, InUse
<1> QED BY <1>1, <1>2, <1>3 DEF IInv

LEMMA TypeInductive == ASSUME TypeOK, [Next]_vars PROVE TypeOK'
<1> USE BypassAssumption DEF BypassAssumption, TypeOK
<1>1. ASSUME NEW c \in Channels, SelectChannel(c) PROVE TypeOK'
  BY <1>1 DEF SelectChannel, control, handler, library
<1>2. CASE DisableChannel
  BY <1>2 DEF DisableChannel, control, handler
<1>3. CASE Command
  BY <1>3 DEF Command, EnableChannel, Register, Unregister, control, handler
<1>4. CASE ChooseBuffer
  BY <1>4 DEF ChooseBuffer, control, library, console
<1>5. CASE OpenFile
  <2>1. taskState' \in {"TRANS", "STOP"}
    BY <1>5 DEF OpenFile
  <2>2. fileOpened' \in BOOLEAN
    BY <1>5 DEF OpenFile
  <2>3. usbhAppFile' \in {"open", "closed"} /\ left' \in 0 .. FileChunks
    BY <1>5 DEF OpenFile
  <2> QED BY <1>5, <2>1, <2>2, <2>3 DEF OpenFile, library, console
<1>6. CASE CallRead
  BY <1>6 DEF CallRead, control, library, console
<1>7. CASE ReadChunk
  BY <1>7 DEF ReadChunk, control, library, console
<1>10. CASE ReadShort
  BY <1>10 DEF ReadShort, library, console
<1>8. CASE Plug
  BY <1>8 DEF Plug, control, handler, library, console
<1>9. CASE UNCHANGED vars
  BY <1>9 DEF vars, control, handler, library, console
<1> QED BY <1>1, <1>2, <1>3, <1>4, <1>5, <1>6, <1>7, <1>8, <1>9, <1>10 DEF Next, Handler

(* The file: only OpenFile, ReadShort and the steps of the handler matter. *)
LEMMA FileInductive == ASSUME TypeOK, FileInv, [Next]_vars PROVE FileInv'
<1> USE DEF FileInv
<1>1. CASE ChooseBuffer
  BY <1>1 DEF ChooseBuffer, control
<1>2. CASE OpenFile
  BY <1>2 DEF OpenFile, TypeOK
<1>3. CASE CallRead
  BY <1>3 DEF CallRead, control
<1>4. CASE ReadChunk
  BY <1>4 DEF ReadChunk, control
<1>5. CASE ReadShort
  BY <1>5 DEF ReadShort
<1>6. ASSUME UNCHANGED <<control, handler>> PROVE FileInv'
  BY <1>6 DEF control, handler
<1>7. (\E c \in Channels : SelectChannel(c)) \/ DisableChannel \/ Command \/ Plug \/ UNCHANGED vars
      => UNCHANGED <<control, handler>>
  BY DEF SelectChannel, DisableChannel, Command, EnableChannel, Register, Unregister, Plug, vars
<1> QED BY <1>1, <1>2, <1>3, <1>4, <1>5, <1>6, <1>7 DEF Next, Handler

LEMMA SelectedInductive == ASSUME SelectedInv, [Next]_vars PROVE SelectedInv'
<1> USE DEF SelectedInv
<1>1. ASSUME NEW c \in Channels, SelectChannel(c) PROVE SelectedInv'
  BY <1>1 DEF SelectChannel, library
<1>2. CASE DisableChannel
  BY <1>2 DEF DisableChannel
<1>3. CASE EnableChannel
  BY <1>3 DEF EnableChannel
<1>4. CASE Register \/ Unregister
  BY <1>4 DEF Register, Unregister
<1>5. ASSUME UNCHANGED <<library, console>> PROVE SelectedInv'
  BY <1>5 DEF library, console
<1>6. Handler \/ Plug \/ UNCHANGED vars => UNCHANGED <<library, console>>
  BY DEF Handler, ChooseBuffer, OpenFile, CallRead, ReadChunk, ReadShort, Plug, vars
<1> QED BY <1>1, <1>2, <1>3, <1>4, <1>5, <1>6 DEF Next, Command

LEMMA BufferInductive ==
    ASSUME TypeOK, FileInv, SelectedInv, BufferInv, [Next]_vars PROVE BufferInv'
<1> USE DEF BufferInv, InUse
<1>1. ASSUME NEW c \in Channels, SelectChannel(c) PROVE BufferInv'
  BY <1>1 DEF SelectChannel, control, handler, library
<1>2. CASE DisableChannel
  BY <1>2 DEF DisableChannel, control, handler
<1>3. CASE EnableChannel
  BY <1>3 DEF EnableChannel, control, handler
<1>4. CASE Register \/ Unregister
  BY <1>4 DEF Register, Unregister, control, handler
<1>5. CASE ChooseBuffer
  BY <1>5 DEF ChooseBuffer, SelectedInv, control, library, console
<1>6. CASE OpenFile
  BY <1>6 DEF OpenFile, library, console
<1>7. CASE CallRead \/ ReadChunk
  BY <1>7 DEF CallRead, ReadChunk, control, library, console
<1>8. CASE ReadShort
  BY <1>8 DEF ReadShort
<1>9. CASE Plug \/ UNCHANGED vars
  BY <1>9 DEF Plug, vars, control, handler, library, console
<1> QED BY <1>1, <1>2, <1>3, <1>4, <1>5, <1>6, <1>7, <1>8, <1>9 DEF Next, Command, Handler
-------------------------------------------------------------------------------
(* The handler's three pieces of state about the file agree, and the       *)
(* buffer in use belongs to an enabled channel or a command is under way,  *)
(* whichever command falls between two steps of the handler.               *)
THEOREM Invariance == Spec => []IInv
<1>1. IInv /\ [Next]_vars => IInv'
  BY TypeInductive, FileInductive, SelectedInductive, BufferInductive DEF IInv
<1> QED BY InitInv, <1>1, PTL DEF Spec

(* Type correctness. *)
THEOREM TypeCorrect == Spec => []TypeOK
<1>1. IInv => TypeOK
  BY DEF IInv
<1> QED BY Invariance, <1>1, PTL

(* USBH_BypassVideo reads only from an open file, and opens it only when   *)
(* it is closed.                                                           *)
THEOREM FileCorrect == Spec => []FileInStep
<1>1. IInv => FileInStep
  BY DEF IInv, TypeOK, FileInv, FileInStep
<1> QED BY Invariance, <1>1, PTL

(* A chunk is read into the buffer of an enabled channel unless a stop has *)
(* come since the buffer was chosen or a start is about to enable it.      *)
THEOREM BufferCorrect == Spec => []WritesEnabled
<1>1. IInv => WritesEnabled
  BY DEF IInv, FileInv, BufferInv, InUse, WritesEnabled
<1> QED BY Invariance, <1>1, PTL
===============================================================================
