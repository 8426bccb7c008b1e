------------------------------ MODULE BypassVideo -----------------------------
(***************************************************************************)
(* Example/test_usbh.c: the USB host task plays a video file from a disk   *)
(* into the buffer of a video channel, over and over.  The library calls   *)
(* USBH_BypassVideo for every event of the disk while it is registered;    *)
(* console commands choose the channel, enable it and register the         *)
(* handler, or disable it and take the handler out.  The handler waits for *)
(* the disk in f_open and f_read: a command may run in between.            *)
(***************************************************************************)
EXTENDS Integers

CONSTANTS Channels,     \* the video channels (two in the code)
          FileChunks,   \* full chunks in the file, before the short one
          MaxCommands,  \* bound of the model: commands given
          MaxPlugs      \* bound of the model: times the disk is put in or pulled

ASSUME BypassAssumption == /\ 0 \in Channels /\ Channels \subseteq Nat
                           /\ FileChunks \in Nat
                           /\ MaxCommands \in Nat /\ MaxPlugs \in Nat

VARIABLES taskState, fileOpened, bypassChannel,  \* g_usbhBypassVideoCtrl
          videoBuff,            \* the channel whose buffer is written to
          hPc,                  \* where the handler waits
          usbhAppFile, left,    \* the file object, the full chunks it has left
          mounted,              \* s_u8MountFlag
          registered, enabled,  \* the library: the handler, the channels
          disk,                 \* whether the disk is there
          cPc, commands, plugs, \* the console; bounds of the model
          stopped               \* history: a stop under way or after the buffer was chosen

control == <<taskState, fileOpened>>
handler == <<videoBuff, hPc, usbhAppFile, left, mounted>>
library == <<registered, enabled>>
console == <<cPc, commands, bypassChannel>>
vars == <<control, handler, library, console, disk, plugs, stopped>>

Init == /\ taskState = "IDLE" /\ fileOpened = FALSE /\ bypassChannel = 0
        /\ videoBuff = 0 /\ hPc = "return"
        /\ usbhAppFile = "closed" /\ left = 0 /\ mounted \in BOOLEAN
        /\ registered = FALSE /\ enabled = {}
        /\ disk \in BOOLEAN
        /\ cPc = "prompt" /\ commands = 0 /\ plugs = 0
        /\ stopped = FALSE
-------------------------------------------------------------------------------
(* command_startBypassVideo and command_stopBypassVideo.  The event that a *)
(* start sends to the host task has type 1, at which the task only waits.  *)

SelectNextChannel(c) == /\ cPc = "prompt"
                        /\ commands < MaxCommands
                        /\ commands' = commands + 1
                        /\ bypassChannel' = c + 1
                        /\ cPc' = "enable"
                        /\ UNCHANGED <<control, handler, library, disk, plugs, stopped>>

SelectChannel(c) == /\ cPc = "prompt"
                    /\ commands < MaxCommands
                    /\ commands' = commands + 1
                    /\ bypassChannel' = c
                    /\ cPc' = "enable"
                    /\ UNCHANGED <<control, handler, library, disk, plugs, stopped>>

EnableZero == /\ cPc = "enable"
              /\ enabled' = enabled \cup {0}
              /\ cPc' = "register"
              /\ UNCHANGED <<control, handler, registered, commands, bypassChannel,
                             disk, plugs, stopped>>

EnableChannel == /\ cPc = "enable"
                 /\ enabled' = enabled \cup {bypassChannel}
                 /\ cPc' = "register"
                 /\ UNCHANGED <<control, handler, registered, commands, bypassChannel,
                                disk, plugs, stopped>>

Register == /\ cPc = "register"
            /\ registered' = TRUE
            /\ cPc' = "prompt"
            /\ UNCHANGED <<control, handler, enabled, commands, bypassChannel,
                           disk, plugs, stopped>>

DisableChannel == /\ cPc = "prompt"
                  /\ commands < MaxCommands
                  /\ commands' = commands + 1
                  /\ enabled' = enabled \ {bypassChannel}
                  /\ stopped' = TRUE
                  /\ cPc' = "unregister"
                  /\ UNCHANGED <<control, handler, registered, bypassChannel, disk, plugs>>

Unregister == /\ cPc = "unregister"
              /\ registered' = FALSE
              /\ cPc' = "prompt"
              /\ UNCHANGED <<control, handler, enabled, commands, bypassChannel,
                             disk, plugs, stopped>>
-------------------------------------------------------------------------------
(* USBH_BypassVideo. *)

ChooseBufferOnce == /\ hPc = "return" /\ registered
                    /\ taskState = "IDLE"
                    /\ videoBuff' = IF mounted THEN videoBuff ELSE bypassChannel
                    /\ stopped' = (stopped /\ mounted)
                    /\ mounted' \in {mounted, TRUE}
                    /\ hPc' = "open"
                    /\ UNCHANGED <<control, usbhAppFile, left, library, console, disk, plugs>>

(* USBH_MountUSBDisk, called at start-up and here, may fail each time. *)
ChooseBuffer == /\ hPc = "return" /\ registered
                /\ taskState = "IDLE"
                /\ videoBuff' = bypassChannel
                /\ stopped' = (cPc = "unregister")
                /\ mounted' \in {mounted, TRUE}
                /\ hPc' = "open"
                /\ UNCHANGED <<control, usbhAppFile, left, library, console, disk, plugs>>

OpenFile == /\ hPc = "open"
            /\ IF fileOpened
               THEN taskState' = "TRANS" /\ UNCHANGED <<fileOpened, usbhAppFile, left>>
               ELSE \/ /\ mounted /\ disk
                       /\ usbhAppFile' = "open" /\ left' = FileChunks
                       /\ fileOpened' = TRUE
                       /\ taskState' = "TRANS"
                    \/ /\ taskState' = "STOP"
                       /\ UNCHANGED <<fileOpened, usbhAppFile, left>>
            /\ hPc' = "return"
            /\ UNCHANGED <<videoBuff, mounted, library, console, disk, plugs, stopped>>

CallRead == /\ hPc = "return" /\ registered
            /\ taskState = "TRANS"
            /\ hPc' = "read"
            /\ UNCHANGED <<control, videoBuff, usbhAppFile, left, mounted, library, console,
                           disk, plugs, stopped>>

ReadChunk == /\ hPc = "read"
             /\ disk /\ left > 0
             /\ left' = left - 1
             /\ hPc' = "return"
             /\ UNCHANGED <<control, videoBuff, usbhAppFile, mounted, library, console,
                            disk, plugs, stopped>>

(* The end of the file, or an error, which may come with the disk in its   *)
(* place as well: f_read gives less than a chunk.  At an error the file is *)
(* closed twice, which the second f_close refuses.                         *)
ReadShortStays == /\ hPc = "read"
                  /\ fileOpened' = FALSE
                  /\ usbhAppFile' = "closed"
                  /\ taskState' = IF disk THEN "IDLE" ELSE taskState
                  /\ hPc' = "return"
                  /\ UNCHANGED <<videoBuff, left, mounted, library, console,
                                 disk, plugs, stopped>>

ReadShort == /\ hPc = "read"
             /\ fileOpened' = FALSE
             /\ usbhAppFile' = "closed"
             /\ taskState' = "IDLE"
             /\ hPc' = "return"
             /\ UNCHANGED <<videoBuff, left, mounted, library, console, disk, plugs, stopped>>

Plug == /\ plugs < MaxPlugs
        /\ plugs' = plugs + 1
        /\ disk' = ~disk
        /\ UNCHANGED <<control, handler, library, console, stopped>>
-------------------------------------------------------------------------------
Command == EnableChannel \/ Register \/ Unregister
Handler == ChooseBuffer \/ OpenFile \/ CallRead \/ ReadChunk \/ ReadShort

Next == \/ \E c \in Channels : SelectChannel(c)
        \/ DisableChannel \/ Command \/ Handler \/ Plug

Spec == Init /\ [][Next]_vars

(* A command ends, and the library calls a registered handler again and    *)
(* again.  Nobody has to give a command or touch the disk.                 *)
FairSpec == Spec /\ WF_vars(Command) /\ WF_vars(Handler)
-------------------------------------------------------------------------------
TypeOK == /\ taskState \in {"IDLE", "TRANS", "STOP"}
          /\ fileOpened \in BOOLEAN /\ bypassChannel \in Channels
          /\ videoBuff \in Channels
          /\ hPc \in {"return", "open", "read"}
          /\ usbhAppFile \in {"open", "closed"} /\ left \in 0 .. FileChunks
          /\ mounted \in BOOLEAN /\ registered \in BOOLEAN /\ disk \in BOOLEAN
          /\ enabled \subseteq Channels
          /\ cPc \in {"prompt", "enable", "register", "unregister"}
          /\ commands \in Nat /\ plugs \in Nat /\ stopped \in BOOLEAN

(* The handler reads from a file that is open, and never opens the file    *)
(* object a second time before it is closed, whatever disk and console do. *)
FileInStep == /\ hPc = "read" => usbhAppFile = "open"
              /\ hPc = "open" => usbhAppFile = "closed"

(* What is read goes into a channel that is enabled, unless a stop has     *)
(* come or was under way since the buffer was chosen, or a start is about  *)
(* to enable it.                                                           *)
WritesEnabled == hPc = "read" => \/ videoBuff \in enabled
                                 \/ stopped
                                 \/ cPc = "enable" /\ bypassChannel = videoBuff

(* A start that selects another channel while a file is being played is    *)
(* followed in the end: the buffer in use is that of the channel selected. *)
FollowsChannel == <>[](registered /\ hPc = "read" => videoBuff = bypassChannel)
===============================================================================
