-------------------------------- MODULE Upgrade -------------------------------
(***************************************************************************)
(* Example/test_upgrade.c: the ground station sends a firmware file to the *)
(* aircraft ("sky").  A console command writes the name of the file to the *)
(* global path and starts a task; the record with the task's argument is a *)
(* local variable of the command, which returns 100 ticks later.  The task *)
(* sends the file block by block, sends again the blocks that the sky has  *)
(* lost, and repeats an end notice until the sky says END or FAIL.         *)
(*                                                                         *)
(* The radio link, the sky, the status flags and the file system are in    *)
(* libraries; they are modelled from the calls the task makes.  A block is *)
(* the piece of a file that one f_read gives: its file, its first byte and *)
(* its length.  Whether it is at its place depends on the number it is     *)
(* sent under, which has 16 bits, and on where in the file it was read.    *)
(***************************************************************************)
EXTENDS Integers, FiniteSets, Sequences

CONSTANTS Files,        \* the files on the disk
          Size,         \* per file, its length in bytes
          Good,         \* the files that the sky accepts
          UPGRADE_DATACHUNK_SIZE,       \* bytes of a block: 496
          UPGRADE_MAX_BLOCKARRAYSIZE,   \* lost blocks that one answer can name: 300
          UINT16,       \* the block numbers there are: 65536
          Leftovers,    \* the names that the memory of a dead argument may hold
          MaxUploads,   \* bound of the model: upload commands
          MaxOther,     \* bound of the model: other commands that write path
          MaxLosses,    \* bound of the model: messages that the link loses
          MaxAcks       \* answers of the sky that are on their way at a time

ASSUME UpgradeAssumption ==
    /\ Size \in [Files -> Nat] /\ Good \subseteq Files
    /\ "" \notin Files /\ Leftovers \subseteq Files \cup {""}
    /\ {UPGRADE_DATACHUNK_SIZE, UPGRADE_MAX_BLOCKARRAYSIZE, UINT16} \subseteq Nat \ {0}
    /\ MaxUploads \in Nat /\ MaxOther \in Nat /\ MaxLosses \in Nat /\ MaxAcks \in Nat \ {0}

VARIABLES path,              \* the global name of the file; "" names no file
          cmd,               \* the upload whose command has not returned, 0: none
          started, others,   \* the number of commands so far
          argument,          \* per upload: "none", then "live" or "dead"
          pc, file, pos,     \* per upload: its task, the file it has open, the place in it
          blk,               \* per upload: u16_upgradeReturnStatus, the number of the next block
          lost,              \* per upload: the lost blocks still to be sent again
          status, lostArray, \* the flags and the list that the sky's answers leave
          sky,               \* the blocks that the sky holds
          acks, losses,      \* the answers on their way, the messages lost
          alone              \* history, per upload: nothing of another one has got in its way

console == <<path, cmd, started, others, argument>>
task == <<pc, file, pos, blk, lost>>
flags == <<status, lostArray>>
link == <<sky, acks, losses>>
vars == <<console, task, flags, link, alone>>

Upload == 1 .. MaxUploads
NoFile == ""
BlockNo == 0 .. UINT16 - 1

(* f_lseek stops at the end of a file opened for reading; f_read gives a   *)
(* whole block, or what is left of the file.                               *)
f_lseek(f, place) == IF place <= Size[f] THEN place ELSE Size[f]
f_read(f, place) == [of |-> f, at |-> place,
                     len |-> IF place + UPGRADE_DATACHUNK_SIZE <= Size[f]
                             THEN UPGRADE_DATACHUNK_SIZE ELSE Size[f] - place]

(* The numbers that the blocks of a file go under.  The last block is the  *)
(* first that is not whole: it is empty if the file ends with a whole one. *)
(* A larger file than there are numbers uses some of them twice.           *)
Numbers(f) == {k \in BlockNo : k * UPGRADE_DATACHUNK_SIZE <= Size[f]}
Numbered(f) == Size[f] < UINT16 * UPGRADE_DATACHUNK_SIZE
BlockOf(f, k) == f_read(f, k * UPGRADE_DATACHUNK_SIZE)

NoBlock == [of |-> NoFile, at |-> 0, len |-> 0]
Blocks == {NoBlock} \cup UNION {{f_read(f, p) : p \in 0 .. Size[f]} : f \in Files}
Ended == {"ok", "fail", "silent", "returned"}
Running == {t \in Upload : pc[t] \notin Ended \cup {"none", "start"}}

Init == /\ path = NoFile /\ cmd = 0 /\ started = 0 /\ others = 0
        /\ argument = [t \in Upload |-> "none"]
        /\ pc = [t \in Upload |-> "none"]
        /\ file = [t \in Upload |-> NoFile]
        /\ pos = [t \in Upload |-> 0]
        /\ blk = [t \in Upload |-> 0]
        /\ lost = [t \in Upload |-> {}]
        /\ status = {} /\ lostArray = {}
        /\ sky = [k \in BlockNo |-> NoBlock]
        /\ acks = <<>> /\ losses = 0
        /\ alone = [t \in Upload |-> FALSE]
-------------------------------------------------------------------------------
(* The console. *)

gndforskyupgrade(name) ==
    /\ cmd = 0
    /\ started + 1 \in Upload
    /\ started' = started + 1
    /\ path' = name
    /\ cmd' = started'
    /\ argument' = [argument EXCEPT ![started'] = "live"]
    /\ pc' = [pc EXCEPT ![started'] = "start"]
    /\ UNCHANGED <<others, file, pos, blk, lost, flags, link, alone>>

(* The command returns after vTaskDelay(100).  Timing assumption: the task *)
(* has taken the name for its check by then, its first call.               *)
CommandReturns == /\ cmd # 0
                  /\ pc[cmd] # "start"
                  /\ argument' = [argument EXCEPT ![cmd] = "dead"]
                  /\ cmd' = 0
                  /\ UNCHANGED <<path, started, others, task, flags, link, alone>>

(* A name that is too long clears path before it is refused; the command   *)
(* upgrade, which programs the ground station itself, uses path as well.   *)
OtherCommand(name) == /\ cmd = 0
                      /\ others < MaxOther
                      /\ others' = others + 1
                      /\ path' = name
                      /\ UNCHANGED <<cmd, started, argument, task, flags, link, alone>>
-------------------------------------------------------------------------------
(* The link and the sky.  The sky forgets its blocks at an init notice.    *)
(* At an end notice it names blocks that it has not got, as many as an     *)
(* answer holds, or says whether what it has got is one good file.         *)

Missing == IF sky[0] = NoBlock THEN {0}
           ELSE {k \in Numbers(sky[0].of) : sky[k] = NoBlock}

HoldsFile(f) == Numbered(f) /\ \A k \in Numbers(f) : sky[k] = BlockOf(f, k)

Answers ==
    IF Missing # {}
    THEN {[kind |-> "LOSTDATA", lost |-> some] :
             some \in {b \in SUBSET Missing : /\ b # {}
                                              /\ Cardinality(b) <= UPGRADE_MAX_BLOCKARRAYSIZE}}
    ELSE {[kind |-> IF HoldsFile(sky[0].of) /\ sky[0].of \in Good THEN "END" ELSE "FAIL",
           lost |-> {}]}

Lose == /\ losses < MaxLosses
        /\ losses' = losses + 1
        /\ UNCHANGED <<sky, acks>>

(* A notice is refused, and sent again, while MaxAcks answers are awaited. *)
Reply(answer) == Len(acks) < MaxAcks /\ acks' = Append(acks, answer)

InitNotice == \/ Lose
              \/ /\ sky' = [k \in BlockNo |-> NoBlock]
                 /\ Reply([kind |-> "INIT", lost |-> {}])
                 /\ UNCHANGED losses

Deliver(block, k) == \/ Lose
                     \/ /\ sky' = [sky EXCEPT ![k] = block]
                        /\ UNCHANGED <<acks, losses>>

EndNotice == \/ Lose
             \/ /\ \E answer \in Answers : Reply(answer)
                /\ UNCHANGED <<sky, losses>>

AckArrives == /\ acks # <<>>
              /\ status' = status \cup {Head(acks).kind}
              /\ lostArray' = IF Head(acks).kind = "LOSTDATA" THEN Head(acks).lost ELSE lostArray
              /\ acks' = Tail(acks)
              /\ UNCHANGED <<console, task, sky, losses, alone>>

AckLost == /\ acks # <<>>
           /\ losses < MaxLosses
           /\ acks' = Tail(acks)
           /\ losses' = losses + 1
           /\ UNCHANGED <<console, task, flags, sky, alone>>
-------------------------------------------------------------------------------
(* The task, UPGRADE_GndForSky.  What UPGRADE_UseUsbUpgrade finds out about *)
(* the file is not looked at.  That UPGRADE_Start clears the flags is an   *)
(* assumption about the library: it is the call made before a new upload,  *)
(* and with flags left set the loop at line 87 could not be used twice.    *)

Goto(t, label) == pc' = [pc EXCEPT ![t] = label]

CheckFile(t) == /\ pc[t] = "start"
                /\ alone' = [u \in Upload |-> IF u = t THEN Running = {} /\ acks = <<>>
                                              ELSE alone[u] /\ u \notin Running]
                /\ Goto(t, "begin")
                /\ UNCHANGED <<console, file, pos, blk, lost, flags, link>>

StartKeepsFlags(t) == /\ pc[t] = "begin"
                      /\ Goto(t, "lock")
                      /\ UNCHANGED <<console, file, pos, blk, lost, flags, link, alone>>

Start(t) == /\ pc[t] = "begin"
            /\ status' = {}
            /\ Goto(t, "lock")
            /\ UNCHANGED <<console, file, pos, blk, lost, lostArray, link, alone>>

WaitLock(t) == /\ pc[t] = "lock"
               /\ Goto(t, "init")
               /\ UNCHANGED <<console, file, pos, blk, lost, flags, link, alone>>

(* UPGRADE_GndSendInit sends a notice and says whether one was answered.   *)
SendInit(t) == /\ pc[t] = "init"
               /\ IF "INIT" \in status
                  THEN Goto(t, "open") /\ UNCHANGED link
                  ELSE InitNotice /\ UNCHANGED pc
               /\ UNCHANGED <<console, file, pos, blk, lost, flags, alone>>

(* The name is read again through the argument, which is dead by now if    *)
(* the command has returned: the memory holds what was there, or what was  *)
(* left by another call, a name or not.  A file that cannot be opened ends *)
(* the task by a return instead of vTaskDelete.                            *)
FilePath(t) == IF argument[t] = "live" THEN {path} ELSE {path} \cup Leftovers

Open(t) == /\ pc[t] = "open"
           /\ \E name \in FilePath(t) :
                 IF name \in Files
                 THEN /\ file' = [file EXCEPT ![t] = name]
                      /\ pos' = [pos EXCEPT ![t] = 0]
                      /\ blk' = [blk EXCEPT ![t] = 0]
                      /\ Goto(t, "send")
                 ELSE Goto(t, "returned") /\ UNCHANGED <<file, pos, blk>>
           /\ UNCHANGED <<console, lost, flags, link, alone>>

(* The end of a task: what it has open and its variables go with it. *)
End(t, label) == /\ Goto(t, label)
                 /\ file' = [file EXCEPT ![t] = NoFile]
                 /\ pos' = [pos EXCEPT ![t] = 0]
                 /\ blk' = [blk EXCEPT ![t] = 0]
                 /\ lost' = [lost EXCEPT ![t] = {}]
                 /\ UNCHANGED <<console, flags, link, alone>>

ReadFails(t) == /\ pc[t] = "send" \/ (pc[t] = "resend" /\ lost[t] # {})
                /\ End(t, "returned")

(* A block that UPGRADE_SendDataBlock refuses is offered again.  The loop  *)
(* goes on as long as the blocks read are whole.                           *)
SendBlockOneMore(t) ==
    /\ pc[t] = "send"
    /\ LET block == f_read(file[t], pos[t])
       IN  /\ Deliver(block, blk[t])
           /\ pos' = [pos EXCEPT ![t] = @ + block.len]
           /\ IF block.len > 0 THEN UNCHANGED pc ELSE Goto(t, "poll")
    /\ blk' = [blk EXCEPT ![t] = (@ + 1) % UINT16]
    /\ UNCHANGED <<console, file, lost, flags, alone>>

SendBlock(t) ==
    /\ pc[t] = "send"
    /\ LET block == f_read(file[t], pos[t])
       IN  /\ Deliver(block, blk[t])
           /\ pos' = [pos EXCEPT ![t] = @ + block.len]
           /\ IF block.len = UPGRADE_DATACHUNK_SIZE THEN UNCHANGED pc ELSE Goto(t, "poll")
    /\ blk' = [blk EXCEPT ![t] = (@ + 1) % UINT16]
    /\ UNCHANGED <<console, file, lost, flags, alone>>

PollOnlyEnd(t) == /\ pc[t] = "poll"
                  /\ IF "END" \in status
                     THEN Goto(t, "result") /\ UNCHANGED status
                     ELSE /\ status' = status \ {"LOSTDATA"}
                          /\ Goto(t, IF "LOSTDATA" \in status THEN "list" ELSE "end")
                  /\ UNCHANGED <<console, file, pos, blk, lost, lostArray, link, alone>>

(* The flag LOSTDATA is cleared as it is read; the list is read later. *)
Poll(t) == /\ pc[t] = "poll"
           /\ IF status \cap {"END", "FAIL"} # {}
              THEN Goto(t, "result") /\ UNCHANGED status
              ELSE /\ status' = status \ {"LOSTDATA"}
                   /\ Goto(t, IF "LOSTDATA" \in status THEN "list" ELSE "end")
           /\ UNCHANGED <<console, file, pos, blk, lost, lostArray, link, alone>>

GetStatus(t) == /\ pc[t] = "list"
                /\ lost' = [lost EXCEPT ![t] = lostArray]
                /\ Goto(t, "resend")
                /\ UNCHANGED <<console, file, pos, blk, flags, link, alone>>

(* A block that was lost is looked for at its place in the file. *)
ResendFrom(t, k, place) ==
    LET block == f_read(file[t], place)
    IN  /\ Deliver(block, k)
        /\ pos' = [pos EXCEPT ![t] = place + block.len]
        /\ lost' = [lost EXCEPT ![t] = @ \ {k}]

ResendNoSeek(t) == /\ pc[t] = "resend"
                   /\ IF lost[t] = {}
                      THEN Goto(t, "end") /\ UNCHANGED <<pos, lost, link>>
                      ELSE (\E k \in lost[t] : ResendFrom(t, k, pos[t])) /\ UNCHANGED pc
                   /\ UNCHANGED <<console, file, blk, flags, alone>>

Resend(t) ==
    /\ pc[t] = "resend"
    /\ IF lost[t] = {}
       THEN Goto(t, "end") /\ UNCHANGED <<pos, lost, link>>
       ELSE /\ \E k \in lost[t] : ResendFrom(t, k, f_lseek(file[t], k * UPGRADE_DATACHUNK_SIZE))
            /\ UNCHANGED pc
    /\ UNCHANGED <<console, file, blk, flags, alone>>

SendEnd(t) == /\ pc[t] = "end"
              /\ EndNotice
              /\ Goto(t, "poll")
              /\ UNCHANGED <<console, file, pos, blk, lost, flags, alone>>

Result(t) == /\ pc[t] = "result"
             /\ End(t, IF "END" \in status THEN "ok"
                       ELSE IF "FAIL" \in status THEN "fail" ELSE "silent")
-------------------------------------------------------------------------------
Task(t) == \/ CheckFile(t) \/ Start(t) \/ WaitLock(t) \/ SendInit(t) \/ Open(t)
           \/ SendBlock(t) \/ Poll(t) \/ GetStatus(t) \/ Resend(t) \/ SendEnd(t)
           \/ Result(t)

Console == \/ \E name \in Files : gndforskyupgrade(name)
           \/ CommandReturns
           \/ \E name \in Files \cup {NoFile} : OtherCommand(name)

Next == \/ Console
        \/ \E t \in Upload : Task(t) \/ ReadFails(t)
        \/ AckArrives \/ AckLost

Spec == Init /\ [][Next]_vars

(* The scheduler runs the tasks, the sky answers, and the link gets locked *)
(* in the end; that it delivers is the bound on what it loses.             *)
FairSpec == Spec /\ WF_vars(AckArrives) /\ \A t \in Upload : WF_vars(Task(t))
-------------------------------------------------------------------------------
Labels == {"none", "start", "begin", "lock", "init", "open", "send", "poll", "list",
           "resend", "end", "result"} \cup Ended

AckSet == [kind : {"INIT", "LOSTDATA", "END", "FAIL"}, lost : SUBSET BlockNo]

TypeOK == /\ path \in Files \cup {NoFile}
          /\ cmd \in Upload \cup {0} /\ started \in Nat /\ others \in Nat
          /\ argument \in [Upload -> {"none", "live", "dead"}]
          /\ pc \in [Upload -> Labels]
          /\ file \in [Upload -> Files \cup {NoFile}]
          /\ \A t \in Upload : pc[t] \in {"send", "poll", "list", "resend", "end"}
                                  => file[t] \in Files
          /\ pos \in [Upload -> Nat] /\ blk \in [Upload -> BlockNo]
          /\ \A t \in Upload : file[t] \in Files => pos[t] <= Size[file[t]]
          /\ \A t \in Upload : pc[t] = "send" => blk[t] \in Numbers(file[t])
          /\ lost \in [Upload -> SUBSET BlockNo]
          /\ status \subseteq {"INIT", "LOSTDATA", "END", "FAIL"}
          /\ lostArray \subseteq BlockNo
          /\ sky \in [BlockNo -> Blocks]
          /\ acks \in Seq(AckSet) /\ losses \in Nat
          /\ alone \in [Upload -> BOOLEAN]

(* What the sky holds under a number was read at the place of that number, *)
(* or is the empty block at the end of a file that has no such block.  In  *)
(* an upload that no other got in the way of it is of this file and one of *)
(* its numbers: no list of an earlier upload is sent again.  A file with   *)
(* more blocks than there are numbers is excepted: its blocks collide.     *)
BlocksInPlace ==
    /\ \A k \in BlockNo :
          LET f == sky[k].of
          IN  sky[k] # NoBlock /\ Numbered(f)
                 => sky[k] = f_read(f, f_lseek(f, k * UPGRADE_DATACHUNK_SIZE))
    /\ \A t \in Running : \A k \in BlockNo :
          alone[t] /\ file[t] # NoFile /\ sky[k] # NoBlock
             => sky[k].of = file[t] /\ k \in Numbers(file[t])

(* "upgrade ok" is logged only when the sky holds the whole file, unless   *)
(* another upload, or an answer to one, got in the way.                    *)
OkMeansComplete ==
    [][\A t \in Upload : alone[t] /\ pc'[t] = "ok" /\ pc[t] # "ok"
                             => HoldsFile(file[t]) /\ file[t] \in Good]_vars

(* An upload ends: blocks and notices that are lost are sent again.        *)
UploadEnds == \A t \in Upload : pc[t] = "start" ~> pc[t] \in Ended
===============================================================================
