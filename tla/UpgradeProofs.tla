---------------------------- MODULE UpgradeProofs -----------------------------
(***************************************************************************)
(* Proofs about Upgrade for every set of files, every size of file, block, *)
(* list and number, every number of uploads, of other commands and of lost *)
(* messages.  What the sky holds under a number was read at the place of   *)
(* that number, whichever uploads overlap (IInv); in an upload that no     *)
(* other got in the way of it is of that file and one of its numbers, and  *)
(* "upgrade ok" means a complete and good file at the sky (AloneInv).      *)
(***************************************************************************)
EXTENDS Upgrade, SequenceTheorems, TLAPS

Statuses == {"INIT", "LOSTDATA", "END", "FAIL"}
Names == Files \cup {NoFile}

ConsoleT == /\ path \in Names /\ cmd \in Upload \cup {0}
            /\ started \in Nat /\ started <= MaxUploads /\ others \in Nat
            /\ argument \in [Upload -> {"none", "live", "dead"}]

TaskT == /\ pc \in [Upload -> Labels] /\ file \in [Upload -> Names]
         /\ pos \in [Upload -> Nat] /\ blk \in [Upload -> BlockNo] /\ lost \in [Upload -> SUBSET BlockNo]

FlagT == status \subseteq Statuses /\ lostArray \subseteq BlockNo

LinkT == sky \in [BlockNo -> Blocks] /\ acks \in Seq(AckSet) /\ losses \in Nat

AloneT == alone \in [Upload -> BOOLEAN]

(* What a place of the task says of its file and of its next block; a task *)
(* that was not started is nowhere.  The n-th block read in turn goes      *)
(* under the 16 low bits of n.                                             *)
Opening == {"none", "start", "begin", "lock", "init", "open"}
Sending == {"send", "poll", "list", "resend", "end"}

PlaceInv(t) == /\ pc[t] \in Opening => file[t] = NoFile
               /\ pc[t] \in Sending => file[t] \in Files
               /\ file[t] \in Files => pos[t] <= Size[file[t]]
               /\ pc[t] = "send" => \E n \in Nat : /\ pos[t] = n * UPGRADE_DATACHUNK_SIZE
                                                   /\ blk[t] = n % UINT16
               /\ t > started => pc[t] = "none"

AtPlace(b, k) == b # NoBlock /\ Numbered(b.of)
                    => b = f_read(b.of, f_lseek(b.of, k * UPGRADE_DATACHUNK_SIZE))

SkyInv == \A k \in BlockNo : AtPlace(sky[k], k)

IInv == /\ ConsoleT /\ TaskT /\ FlagT /\ LinkT /\ AloneT
        /\ \A t \in Upload : PlaceInv(t)
        /\ SkyInv
-------------------------------------------------------------------------------
LEMMA NoFileIsNone == NoFile \notin Files
  BY UpgradeAssumption DEF UpgradeAssumption, NoFile

LEMMA Constants ==
    /\ UPGRADE_DATACHUNK_SIZE \in Nat /\ UPGRADE_DATACHUNK_SIZE > 0
    /\ UINT16 \in Nat /\ UINT16 > 0
    /\ \A f \in Files : Size[f] \in Nat
<1>1. \A x \in {UPGRADE_DATACHUNK_SIZE, UPGRADE_MAX_BLOCKARRAYSIZE, UINT16} : x \in Nat \ {0}
  BY UpgradeAssumption DEF UpgradeAssumption
<1>2. UPGRADE_DATACHUNK_SIZE \in Nat \ {0} /\ UINT16 \in Nat \ {0}
  BY ONLY <1>1
<1>3. Size \in [Files -> Nat]
  BY UpgradeAssumption DEF UpgradeAssumption
<1> QED BY ONLY <1>2, <1>3

LEMMA Zero == 0 \in BlockNo /\ \A f \in Files : 0 \in Numbers(f)
<1>1. 0 \in BlockNo
  BY Constants DEF BlockNo
<1>2. ASSUME NEW f \in Files PROVE 0 * UPGRADE_DATACHUNK_SIZE <= Size[f]
  <2>1. 0 * UPGRADE_DATACHUNK_SIZE = 0
    BY Constants
  <2> QED BY <2>1, Constants
<1> QED BY <1>1, <1>2 DEF Numbers

(* A piece of a file. *)
LEMMA Piece ==
    ASSUME NEW f \in Files, NEW p \in Nat, p <= Size[f]
    PROVE  /\ f_read(f, p) \in Blocks \ {NoBlock} /\ f_read(f, p).of = f
           /\ f_read(f, p).len \in Nat /\ p + f_read(f, p).len <= Size[f]
<1>1. f # NoFile
  BY NoFileIsNone
<1>2. f_read(f, p).of = f /\ NoBlock.of = NoFile
  BY DEF f_read, NoBlock
<1>3. p \in 0 .. Size[f]
  BY Constants
<1>4. f_read(f, p) \in Blocks
  BY <1>3 DEF Blocks
<1>5. f_read(f, p).len = IF p + UPGRADE_DATACHUNK_SIZE <= Size[f] THEN UPGRADE_DATACHUNK_SIZE ELSE Size[f] - p
  BY DEF f_read
<1>6. f_read(f, p).len \in Nat /\ p + f_read(f, p).len <= Size[f]
  BY <1>5, Constants
<1> QED BY ONLY <1>1, <1>2, <1>4, <1>6

(* Where a number is looked for in a file. *)
LEMMA Sought ==
    ASSUME NEW f \in Files, NEW k \in BlockNo
    PROVE  /\ k \in Nat /\ k * UPGRADE_DATACHUNK_SIZE \in Nat
           /\ f_lseek(f, k * UPGRADE_DATACHUNK_SIZE) \in Nat
           /\ f_lseek(f, k * UPGRADE_DATACHUNK_SIZE) <= Size[f]
           /\ k \in Numbers(f) => f_lseek(f, k * UPGRADE_DATACHUNK_SIZE) = k * UPGRADE_DATACHUNK_SIZE
<1>1. k \in Nat
  BY Constants DEF BlockNo
<1>2. k * UPGRADE_DATACHUNK_SIZE \in Nat
  BY <1>1, Constants
<1>3. Size[f] \in Nat
  BY Constants
<1> QED BY ONLY <1>1, <1>2, <1>3 DEF f_lseek, Numbers

(* Counting with a width counts modulo it. *)
LEMMA Remainder ==
    ASSUME NEW M \in Nat \ {0}, NEW q \in Nat, NEW r \in 0 .. M - 1, NEW a \in Nat, a = q * M + r
    PROVE  a % M = r
  OBVIOUS

LEMMA NextNumber ==
    ASSUME NEW M \in Nat, M > 0, NEW n \in Nat
    PROVE  ((n % M) + 1) % M \in 0 .. M - 1 /\ ((n % M) + 1) % M = (n + 1) % M
<1> DEFINE m == n % M
           x == m + 1
           y == n + 1
<1>1. m \in 0 .. M - 1 /\ n \div M \in Nat /\ n = M * (n \div M) + m
  OBVIOUS
<1>2. PICK q \in Nat : n = q * M + m
  BY <1>1
<1> HIDE DEF m
<1>3. x \in Nat /\ y \in Nat /\ M \in Nat \ {0} /\ 0 \in Nat /\ 1 \in Nat /\ 0 \in 0 .. M - 1
  BY <1>1
<1>4. CASE x < M
  <2>1. y = q * M + x /\ x = 0 * M + x /\ x \in 0 .. M - 1
    BY <1>1, <1>2, <1>4
  <2> HIDE DEF x, y
  <2>2. y % M = x /\ x % M = x
    BY ONLY <1>3, <2>1, Remainder, q \in Nat
  <2> QED BY ONLY <2>1, <2>2 DEF x, y, m
<1>5. CASE ~(x < M)
  <2> DEFINE p == q + 1
  <2>1. y = p * M + 0 /\ x = 1 * M + 0 /\ p \in Nat
    BY <1>1, <1>2, <1>5
  <2> HIDE DEF x, y, p
  <2>2. y % M = 0 /\ x % M = 0
    BY ONLY <1>3, <2>1, Remainder
  <2> QED BY ONLY <1>3, <2>2 DEF x, y, m
<1> QED BY ONLY <1>4, <1>5

(* The number of the n-th block read in turn: one of the file's, and n if  *)
(* there are enough numbers.                                               *)
LEMMA InTurn ==
    ASSUME NEW f \in Files, NEW n \in Nat, n * UPGRADE_DATACHUNK_SIZE <= Size[f]
    PROVE  n % UINT16 \in Numbers(f) /\ (Numbered(f) => n % UINT16 = n)
<1> DEFINE C == UPGRADE_DATACHUNK_SIZE
           N == UINT16
<1>1. C \in Nat /\ C > 0 /\ N \in Nat /\ N > 0 /\ Size[f] \in Nat
  BY Constants
<1>2. n * C <= Size[f]
  OBVIOUS
<1>3. BlockNo = 0 .. N - 1
  BY DEF BlockNo
<1>4. Numbers(f) = {k \in BlockNo : k * C <= Size[f]} /\ (Numbered(f) <=> Size[f] < N * C)
  BY DEF Numbers, Numbered
<1> HIDE DEF C, N
<1>5. n % N \in 0 .. N - 1 /\ n % N <= n
  BY ONLY <1>1, n \in Nat
<1>6. (n % N) * C <= n * C
  <2> DEFINE m == n % N
             d == n - m
  <2>1. m \in Nat /\ d \in Nat /\ n = m + d
    BY ONLY <1>1, <1>5, n \in Nat
  <2> HIDE DEF m, d
  <2>2. (m + d) * C = m * C + d * C /\ d * C \in Nat /\ m * C \in Nat
    BY ONLY <1>1, <2>1
  <2>3. m * C <= n * C
    BY ONLY <2>1, <2>2
  <2> QED BY ONLY <2>3 DEF m
<1>7. n % N \in Numbers(f)
  <2>1. (n % N) * C \in Nat /\ n * C \in Nat
    BY ONLY <1>1, <1>5, n \in Nat
  <2>2. (n % N) * C <= Size[f]
    BY ONLY <1>1, <1>2, <1>6, <2>1
  <2> QED BY ONLY <1>3, <1>4, <1>5, <2>2
<1>8. ASSUME Numbered(f) PROVE n < N
  <2>1. ASSUME n >= N PROVE FALSE
    <3> DEFINE d == n - N
    <3>1. d \in Nat /\ n = N + d
      BY ONLY <1>1, <2>1, n \in Nat
    <3> HIDE DEF d
    <3>2. (N + d) * C = N * C + d * C /\ d * C \in Nat /\ N * C \in Nat
      BY ONLY <1>1, <3>1
    <3> QED BY ONLY <1>1, <1>2, <1>4, <1>8, <3>1, <3>2
  <2> QED BY ONLY <1>1, <2>1, n \in Nat
<1>9. ASSUME Numbered(f) PROVE n % N = n
  BY ONLY <1>1, <1>8, <1>9, n \in Nat
<1> QED BY ONLY <1>7, <1>9 DEF N
-------------------------------------------------------------------------------
(* The console. *)
LEMMA ConsoleStep == ASSUME IInv, Console PROVE IInv'
<1>0. /\ ConsoleT /\ TaskT /\ FlagT /\ LinkT /\ AloneT /\ SkyInv
      /\ \A t \in Upload : PlaceInv(t)
  BY DEF IInv
<1>00. UNCHANGED <<file, pos, blk, lost, flags, link, alone>>
  BY DEF Console, gndforskyupgrade, CommandReturns, OtherCommand, task
<1>01. FlagT' /\ LinkT' /\ AloneT' /\ SkyInv'
  BY ONLY <1>0, <1>00 DEF FlagT, LinkT, AloneT, SkyInv, flags, link
<1>1. ASSUME NEW name \in Files, gndforskyupgrade(name) PROVE IInv'
  <2>1. /\ started + 1 \in Upload /\ started' = started + 1 /\ path' = name /\ cmd' = started'
        /\ argument' = [argument EXCEPT ![started'] = "live"]
        /\ pc' = [pc EXCEPT ![started'] = "start"]
        /\ UNCHANGED <<others, file, pos, blk, lost>>
    BY ONLY <1>1 DEF gndforskyupgrade
  <2>2. started' \in Upload /\ started \in Nat /\ started' <= MaxUploads /\ Upload = 1 .. MaxUploads
        /\ name \in Names
    <3>1. MaxUploads \in Nat
      BY UpgradeAssumption DEF UpgradeAssumption
    <3>2. started + 1 \in 1 .. MaxUploads /\ started \in Nat
      BY ONLY <1>0, <2>1 DEF ConsoleT, Upload
    <3>3. started + 1 <= MaxUploads
      BY ONLY <3>1, <3>2
    <3>4. name \in Names /\ Upload = 1 .. MaxUploads
      BY DEF Names, Upload
    <3> QED BY ONLY <2>1, <3>2, <3>3, <3>4
  <2>3. ConsoleT'
    BY ONLY <1>0, <2>1, <2>2 DEF ConsoleT
  <2>4. TaskT'
    <3>1. "start" \in Labels
      BY DEF Labels
    <3> QED BY ONLY <1>0, <2>1, <2>2, <3>1 DEF TaskT
  <2>5. \A t \in Upload : file[t] = NoFile \/ t <= started
    BY ONLY <1>0, <2>2 DEF PlaceInv, Opening
  <2>6. \A t \in Upload : pc'[t] = IF t = started' THEN "start" ELSE pc[t]
    BY ONLY <1>0, <2>1 DEF TaskT
  <2>7. ASSUME NEW t \in Upload PROVE PlaceInv(t)'
    <3>1. CASE t = started'
      <4>1. file'[t] = NoFile /\ pc'[t] = "start"
        BY ONLY <2>1, <2>2, <2>5, <2>6, <3>1, t \in Upload
      <4>2. ~(t > started')
        BY ONLY <2>1, <2>2, <3>1
      <4>3. file'[t] \notin Files
        BY ONLY <4>1, NoFileIsNone
      <4> QED BY ONLY <4>1, <4>2, <4>3 DEF PlaceInv, Sending
    <3>2. CASE t # started'
      <4>1. pc'[t] = pc[t] /\ file'[t] = file[t] /\ pos'[t] = pos[t] /\ blk'[t] = blk[t]
        BY ONLY <2>1, <2>6, <3>2, t \in Upload
      <4>2. t > started' => t > started
        BY ONLY <2>1, <2>2, t \in Upload
      <4> QED BY ONLY <1>0, <4>1, <4>2, t \in Upload DEF PlaceInv
    <3> QED BY ONLY <3>1, <3>2
  <2> QED BY ONLY <1>01, <2>3, <2>4, <2>7 DEF IInv
<1>2. CASE CommandReturns
  <2>1. /\ cmd # 0 /\ cmd' = 0 /\ argument' = [argument EXCEPT ![cmd] = "dead"]
        /\ UNCHANGED <<path, started, others, task>>
    BY ONLY <1>2 DEF CommandReturns
  <2>2. ConsoleT'
    BY ONLY <1>0, <2>1 DEF ConsoleT
  <2>3. TaskT' /\ \A t \in Upload : PlaceInv(t)'
    BY ONLY <1>0, <2>1 DEF task, TaskT, PlaceInv
  <2> QED BY ONLY <1>01, <2>2, <2>3 DEF IInv
<1>3. ASSUME NEW name \in Names, OtherCommand(name) PROVE IInv'
  <2>1. others' = others + 1 /\ path' = name /\ UNCHANGED <<cmd, started, argument, task>>
    BY ONLY <1>3 DEF OtherCommand
  <2>2. ConsoleT'
    BY ONLY <1>0, <1>3, <2>1 DEF ConsoleT
  <2>3. TaskT' /\ \A t \in Upload : PlaceInv(t)'
    BY ONLY <1>0, <2>1 DEF task, TaskT, PlaceInv
  <2> QED BY ONLY <1>01, <2>2, <2>3 DEF IInv
<1> QED BY <1>1, <1>2, <1>3 DEF Console, Names
-------------------------------------------------------------------------------
(* A task that goes on in the same file, or from one place before the file *)
(* is open to another. *)
LEMMA Moved ==
    ASSUME IInv, NEW t \in Upload, pc[t] # "none", NEW l \in Labels, l # "send",
           l \in Opening => pc[t] \in Opening, l \in Sending => pc[t] \in Sending,
           UNCHANGED <<console, file>>, Goto(t, l),
           file[t] \in Files => pos'[t] <= Size[file[t]],
           \A u \in Upload : u # t => pos'[u] = pos[u] /\ blk'[u] = blk[u]
    PROVE  /\ ConsoleT' /\ pc' \in [Upload -> Labels] /\ file' \in [Upload -> Names]
           /\ \A u \in Upload : PlaceInv(u)'
<1>0. ConsoleT /\ TaskT /\ \A u \in Upload : PlaceInv(u)
  BY DEF IInv
<1>1. UNCHANGED <<path, cmd, started, others, argument, file>>
  BY DEF console
<1>2. pc' = [pc EXCEPT ![t] = l] /\ pc \in [Upload -> Labels] /\ file \in [Upload -> Names]
  BY <1>0 DEF Goto, TaskT
<1>3. ConsoleT'
  BY ONLY <1>0, <1>1 DEF ConsoleT
<1>4. ASSUME NEW u \in Upload PROVE PlaceInv(u)'
  <2>1. CASE u = t
    <3>1. pc'[u] = l
      BY ONLY <1>2, <2>1, t \in Upload
    <3>2. ~(u > started')
      BY <1>0, <1>1, <2>1 DEF PlaceInv
    <3>3. l \in Opening => file[u] = NoFile
      BY <1>0, <2>1 DEF PlaceInv
    <3>4. l \in Sending => file[u] \in Files
      BY <1>0, <2>1 DEF PlaceInv
    <3>5. file[u] \in Files => pos'[u] <= Size[file[u]]
      BY <2>1
    <3> QED BY ONLY <1>1, <3>1, <3>2, <3>3, <3>4, <3>5, l # "send" DEF PlaceInv
  <2>2. CASE u # t
    <3>1. pc'[u] = pc[u] /\ pos'[u] = pos[u] /\ blk'[u] = blk[u]
      BY <1>2, <2>2
    <3> QED BY ONLY <1>0, <1>1, <3>1, u \in Upload DEF PlaceInv
  <2> QED BY ONLY <2>1, <2>2
<1>5. pc' \in [Upload -> Labels]
  BY ONLY <1>2
<1> QED BY ONLY <1>1, <1>2, <1>3, <1>4, <1>5

(* A task that has ended has nothing open. *)
LEMMA Over ==
    ASSUME IInv, NEW t \in Upload, pc[t] # "none", NEW l \in Ended, End(t, l)
    PROVE  IInv'
<1>0. /\ ConsoleT /\ TaskT /\ FlagT /\ LinkT /\ AloneT /\ SkyInv
      /\ \A u \in Upload : PlaceInv(u)
  BY DEF IInv
<1>1. /\ pc' = [pc EXCEPT ![t] = l] /\ file' = [file EXCEPT ![t] = NoFile]
      /\ pos' = [pos EXCEPT ![t] = 0] /\ blk' = [blk EXCEPT ![t] = 0]
      /\ lost' = [lost EXCEPT ![t] = {}]
      /\ UNCHANGED <<path, cmd, started, others, argument, status, lostArray, sky, acks, losses, alone>>
  BY DEF End, Goto, console, flags, link
<1>2. NoFile \in Names /\ l \in Labels /\ l \notin Opening \cup Sending /\ l # "send"
  BY DEF Names, Labels, Ended, Opening, Sending
<1>3. ConsoleT' /\ FlagT' /\ LinkT' /\ AloneT' /\ SkyInv'
  BY ONLY <1>0, <1>1, <1>2 DEF ConsoleT, FlagT, LinkT, AloneT, SkyInv
<1>4. TaskT'
  BY ONLY <1>0, <1>1, <1>2, Zero DEF TaskT
<1>5. ASSUME NEW u \in Upload PROVE PlaceInv(u)'
  <2>1. CASE u = t
    <3>1. pc'[u] = l /\ file'[u] = NoFile
      BY ONLY <1>0, <1>1, <2>1, t \in Upload DEF TaskT
    <3>2. ~(u > started')
      BY <1>0, <1>1, <2>1 DEF PlaceInv
    <3> QED BY ONLY <1>2, <3>1, <3>2, NoFileIsNone DEF PlaceInv
  <2>2. CASE u # t
    <3>1. pc'[u] = pc[u] /\ file'[u] = file[u] /\ pos'[u] = pos[u] /\ blk'[u] = blk[u]
      BY ONLY <1>0, <1>1, <2>2, u \in Upload DEF TaskT
    <3> QED BY ONLY <1>0, <1>1, <3>1, u \in Upload DEF PlaceInv
  <2> QED BY ONLY <2>1, <2>2
<1> QED BY ONLY <1>3, <1>4, <1>5 DEF IInv

(* What a message does to the link, arrived or lost. *)
LEMMA Delivered ==
    ASSUME IInv, NEW b \in Blocks, NEW k \in BlockNo, AtPlace(b, k), Deliver(b, k)
    PROVE  LinkT' /\ SkyInv'
<1>0. LinkT /\ SkyInv /\ losses \in Nat
  BY DEF IInv, LinkT
<1>1. CASE Lose
  BY ONLY <1>0, <1>1 DEF Lose, LinkT, SkyInv
<1>2. CASE sky' = [sky EXCEPT ![k] = b] /\ UNCHANGED <<acks, losses>>
  <2>1. LinkT'
    BY ONLY <1>0, <1>2, b \in Blocks DEF LinkT
  <2>2. \A j \in BlockNo : sky'[j] = IF j = k THEN b ELSE sky[j]
    BY ONLY <1>0, <1>2, k \in BlockNo DEF LinkT
  <2>3. SkyInv'
    BY ONLY <1>0, <2>2, AtPlace(b, k) DEF SkyInv
  <2> QED BY ONLY <2>1, <2>3
<1> QED BY <1>1, <1>2 DEF Deliver

(* Both ways to send a block take it from the place of its number. *)
LEMMA SentInTurn ==
    ASSUME NEW f \in Files, NEW n \in Nat, n * UPGRADE_DATACHUNK_SIZE <= Size[f]
    PROVE  /\ n % UINT16 \in Numbers(f) /\ n % UINT16 \in BlockNo
           /\ AtPlace(f_read(f, n * UPGRADE_DATACHUNK_SIZE), n % UINT16)
<1>1. n % UINT16 \in Numbers(f) /\ (Numbered(f) => n % UINT16 = n)
  BY InTurn
<1>2. n % UINT16 \in BlockNo
  BY <1>1 DEF Numbers
<1>3. f_read(f, n * UPGRADE_DATACHUNK_SIZE).of = f
  BY DEF f_read
<1>4. ASSUME Numbered(f)
      PROVE  f_lseek(f, (n % UINT16) * UPGRADE_DATACHUNK_SIZE) = n * UPGRADE_DATACHUNK_SIZE
  BY ONLY <1>1, <1>2, <1>4, Sought, f \in Files
<1> QED BY ONLY <1>1, <1>2, <1>3, <1>4 DEF AtPlace

LEMMA SentAgain ==
    ASSUME NEW f \in Files, NEW k \in BlockNo
    PROVE  AtPlace(f_read(f, f_lseek(f, k * UPGRADE_DATACHUNK_SIZE)), k)
<1>1. f_read(f, f_lseek(f, k * UPGRADE_DATACHUNK_SIZE)).of = f
  BY DEF f_read
<1> QED BY ONLY <1>1 DEF AtPlace

LEMMA Answered ==
    ASSUME LinkT, NEW a \in AckSet, Reply(a)
    PROVE  acks' \in Seq(AckSet)
  BY AppendProperties DEF LinkT, Reply

LEMMA AnswerType ==
    ASSUME LinkT, NEW a \in Answers
    PROVE  a \in AckSet /\ a.lost \subseteq Missing
<1>1. 0 \in BlockNo
  BY Zero
<1>2. Missing \subseteq BlockNo
  <2>1. CASE sky[0] = NoBlock
    BY <1>1, <2>1 DEF Missing
  <2>2. CASE sky[0] # NoBlock
    BY ONLY <2>2 DEF Missing, Numbers
  <2> QED BY ONLY <2>1, <2>2
<1>3. {} \subseteq BlockNo
  OBVIOUS
<1>4. CASE Missing # {}
  <2>1. PICK b \in SUBSET Missing : a = [kind |-> "LOSTDATA", lost |-> b]
    BY ONLY <1>4, a \in Answers DEF Answers
  <2> QED BY ONLY <1>2, <2>1 DEF AckSet
<1>5. CASE Missing = {}
  <2>1. a.lost = {} /\ a \in {[kind |-> "END", lost |-> {}], [kind |-> "FAIL", lost |-> {}]}
    BY ONLY <1>5, a \in Answers DEF Answers
  <2> QED BY ONLY <1>3, <2>1 DEF AckSet
<1> QED BY ONLY <1>4, <1>5
-------------------------------------------------------------------------------
(* The answers of the sky. *)
LEMMA AckStep == ASSUME IInv, AckArrives \/ AckLost PROVE IInv'
<1>0. /\ ConsoleT /\ TaskT /\ FlagT /\ LinkT /\ AloneT /\ SkyInv
      /\ \A t \in Upload : PlaceInv(t)
  BY DEF IInv
<1>1. UNCHANGED <<console, task, sky, alone>> /\ acks # <<>> /\ acks' = Tail(acks)
  BY DEF AckArrives, AckLost
<1>2. UNCHANGED <<path, cmd, started, others, argument, pc, file, pos, blk, lost, sky, alone>>
  BY ONLY <1>1 DEF console, task
<1>3. ConsoleT' /\ TaskT' /\ AloneT' /\ SkyInv' /\ \A t \in Upload : PlaceInv(t)'
  BY ONLY <1>0, <1>2 DEF ConsoleT, TaskT, AloneT, SkyInv, PlaceInv
<1>4. acks \in Seq(AckSet) /\ acks # <<>>
  BY ONLY <1>0, <1>1 DEF LinkT
<1>5. acks' \in Seq(AckSet) /\ Head(acks) \in AckSet
  BY ONLY <1>1, <1>4, HeadTailProperties
<1>6. LinkT'
  <2>1. losses' \in Nat
    BY <1>0 DEF LinkT, AckArrives, AckLost, Lose
  <2> QED BY ONLY <1>0, <1>2, <1>5, <2>1 DEF LinkT
<1>7. FlagT'
  <2>1. Head(acks).kind \in Statuses /\ Head(acks).lost \subseteq BlockNo
    BY ONLY <1>5 DEF AckSet, Statuses
  <2>2. CASE AckArrives
    BY ONLY <1>0, <2>1, <2>2 DEF AckArrives, FlagT
  <2>3. CASE AckLost
    BY ONLY <1>0, <2>3 DEF AckLost, FlagT, flags
  <2> QED BY <2>2, <2>3
<1> QED BY ONLY <1>3, <1>6, <1>7 DEF IInv
-------------------------------------------------------------------------------
(* The task of an upload. *)
LEMMA TaskStep == ASSUME IInv, NEW t \in Upload, Task(t) \/ ReadFails(t) PROVE IInv'
<1>0. /\ ConsoleT /\ TaskT /\ FlagT /\ LinkT /\ AloneT /\ SkyInv
      /\ \A u \in Upload : PlaceInv(u)
  BY DEF IInv
<1>01. ASSUME UNCHANGED link PROVE LinkT' /\ SkyInv'
  BY ONLY <1>0, <1>01 DEF LinkT, SkyInv, link
<1>02. ASSUME UNCHANGED flags PROVE FlagT'
  BY ONLY <1>0, <1>02 DEF FlagT, flags
<1>03. ASSUME UNCHANGED alone PROVE AloneT'
  BY ONLY <1>0, <1>03 DEF AloneT
<1>04. ASSUME NEW l \in Labels, pc[t] # "none", l # "send",
              l \in Opening => pc[t] \in Opening, l \in Sending => pc[t] \in Sending,
              UNCHANGED <<console, file, pos, blk>>, Goto(t, l), lost' \in [Upload -> SUBSET BlockNo]
       PROVE  /\ ConsoleT' /\ TaskT' /\ \A u \in Upload : PlaceInv(u)'
  <2>1. /\ ConsoleT' /\ pc' \in [Upload -> Labels] /\ file' \in [Upload -> Names]
        /\ \A u \in Upload : PlaceInv(u)'
    <3>1. /\ file[t] \in Files => pos'[t] <= Size[file[t]]
          /\ \A u \in Upload : u # t => pos'[u] = pos[u] /\ blk'[u] = blk[u]
      BY ONLY <1>0, <1>04, t \in Upload DEF PlaceInv
    <3> QED BY ONLY <1>04, <3>1, Moved, IInv, t \in Upload
  <2> QED BY ONLY <1>0, <1>04, <2>1 DEF TaskT
<1>05. ASSUME UNCHANGED lost PROVE lost' \in [Upload -> SUBSET BlockNo]
  BY ONLY <1>0, <1>05 DEF TaskT
<1>06. {"begin", "lock", "init", "open", "returned", "poll", "list", "end", "result", "resend",
        "ok", "fail", "silent"} \subseteq Labels
  BY DEF Labels, Ended
<1>07. ASSUME UNCHANGED <<console, pc, file, pos, blk>>, lost' \in [Upload -> SUBSET BlockNo]
       PROVE  ConsoleT' /\ TaskT' /\ \A u \in Upload : PlaceInv(u)'
  BY ONLY <1>0, <1>07 DEF console, ConsoleT, TaskT, PlaceInv
<1>1. CASE CheckFile(t)
  <2>1. /\ pc[t] = "start" /\ Goto(t, "begin") /\ UNCHANGED <<console, file, pos, blk, lost, flags, link>>
        /\ alone' = [u \in Upload |-> IF u = t THEN Running = {} /\ acks = <<>>
                                      ELSE alone[u] /\ u \notin Running]
    BY ONLY <1>1 DEF CheckFile
  <2>2. AloneT'
    BY ONLY <2>1 DEF AloneT
  <2>3. ConsoleT' /\ TaskT' /\ \A u \in Upload : PlaceInv(u)'
    BY ONLY <1>04, <1>05, <1>06, <2>1 DEF Opening, Sending
  <2> QED BY ONLY <1>01, <1>02, <2>1, <2>2, <2>3, <1>0 DEF IInv
<1>2. CASE Start(t)
  <2>1. /\ pc[t] = "begin" /\ Goto(t, "lock") /\ status' = {}
        /\ UNCHANGED <<console, file, pos, blk, lost, lostArray, link, alone>>
    BY ONLY <1>2 DEF Start
  <2>2. FlagT'
    BY ONLY <1>0, <2>1 DEF FlagT
  <2>3. ConsoleT' /\ TaskT' /\ \A u \in Upload : PlaceInv(u)'
    BY ONLY <1>04, <1>05, <1>06, <2>1 DEF Opening, Sending
  <2> QED BY ONLY <1>01, <1>03, <2>1, <2>2, <2>3 DEF IInv
<1>3. CASE WaitLock(t)
  <2>1. /\ pc[t] = "lock" /\ Goto(t, "init")
        /\ UNCHANGED <<console, file, pos, blk, lost, flags, link, alone>>
    BY ONLY <1>3 DEF WaitLock
  <2>2. ConsoleT' /\ TaskT' /\ \A u \in Upload : PlaceInv(u)'
    BY ONLY <1>04, <1>05, <1>06, <2>1 DEF Opening, Sending
  <2> QED BY ONLY <1>01, <1>02, <1>03, <2>1, <2>2 DEF IInv
<1>4. CASE SendInit(t)
  <2>1. pc[t] = "init" /\ UNCHANGED <<console, file, pos, blk, lost, flags, alone>>
    BY ONLY <1>4 DEF SendInit
  <2>2. CASE "INIT" \in status
    <3>1. Goto(t, "open") /\ UNCHANGED link
      BY ONLY <1>4, <2>2 DEF SendInit
    <3>2. ConsoleT' /\ TaskT' /\ \A u \in Upload : PlaceInv(u)'
      BY ONLY <1>04, <1>05, <1>06, <2>1, <3>1 DEF Opening, Sending
    <3> QED BY ONLY <1>01, <1>02, <1>03, <2>1, <3>1, <3>2 DEF IInv
  <2>3. CASE "INIT" \notin status
    <3>1. InitNotice /\ UNCHANGED pc
      BY ONLY <1>4, <2>3 DEF SendInit
    <3>2. LinkT' /\ SkyInv'
      <4>1. CASE Lose
        BY ONLY <1>0, <2>1, <4>1 DEF Lose, LinkT, SkyInv
      <4>2. CASE ~Lose
        <5>1. sky' = [k \in BlockNo |-> NoBlock] /\ Reply([kind |-> "INIT", lost |-> {}]) /\ UNCHANGED losses
          BY ONLY <3>1, <4>2 DEF InitNotice
        <5>2. [kind |-> "INIT", lost |-> {}] \in AckSet
          BY DEF AckSet
        <5>3. acks' \in Seq(AckSet)
          BY ONLY <1>0, <5>1, <5>2, Answered
        <5>4. NoBlock \in Blocks
          BY DEF Blocks
        <5> QED BY ONLY <1>0, <5>1, <5>3, <5>4 DEF LinkT, SkyInv, AtPlace
      <4> QED BY ONLY <4>1, <4>2
    <3>3. ConsoleT' /\ TaskT' /\ \A u \in Upload : PlaceInv(u)'
      BY ONLY <1>05, <1>07, <2>1, <3>1
    <3> QED BY ONLY <1>02, <1>03, <2>1, <3>2, <3>3 DEF IInv
  <2> QED BY ONLY <2>2, <2>3
<1>5. CASE Open(t)
  <2>1. pc[t] = "open" /\ UNCHANGED <<console, lost, flags, link, alone>>
    BY ONLY <1>5 DEF Open
  <2>2. PICK name \in FilePath(t) :
            IF name \in Files
            THEN /\ file' = [file EXCEPT ![t] = name] /\ pos' = [pos EXCEPT ![t] = 0]
                 /\ blk' = [blk EXCEPT ![t] = 0] /\ Goto(t, "send")
            ELSE Goto(t, "returned") /\ UNCHANGED <<file, pos, blk>>
    BY ONLY <1>5 DEF Open
  <2>3. CASE name \notin Files
    <3>1. Goto(t, "returned") /\ UNCHANGED <<file, pos, blk>>
      BY ONLY <2>2, <2>3
    <3>2. ConsoleT' /\ TaskT' /\ \A u \in Upload : PlaceInv(u)'
      BY ONLY <1>04, <1>05, <1>06, <2>1, <3>1 DEF Opening, Sending
    <3> QED BY ONLY <1>01, <1>02, <1>03, <2>1, <3>1, <3>2 DEF IInv
  <2>4. CASE name \in Files
    <3>1. /\ file' = [file EXCEPT ![t] = name] /\ pos' = [pos EXCEPT ![t] = 0]
          /\ blk' = [blk EXCEPT ![t] = 0] /\ pc' = [pc EXCEPT ![t] = "send"]
      BY ONLY <2>2, <2>4 DEF Goto
    <3>3. file[t] = NoFile /\ t <= started
      <4>1. t \in Int /\ started \in Int
        BY <1>0 DEF ConsoleT, Upload
      <4> QED BY ONLY <1>0, <2>1, <4>1, t \in Upload DEF PlaceInv, Opening
    <3>4. \A u \in Upload : u # t => /\ file'[u] = file[u] /\ pos'[u] = pos[u] /\ blk'[u] = blk[u]
                                     /\ pc'[u] = pc[u]
      BY ONLY <1>0, <3>1 DEF TaskT
    <3>5. file'[t] = name /\ pos'[t] = 0 /\ blk'[t] = 0 /\ pc'[t] = "send"
      BY ONLY <1>0, <3>1, t \in Upload DEF TaskT
    <3>6. UNCHANGED <<path, cmd, started, others, argument>>
      BY ONLY <2>1 DEF console
    <3>7. ConsoleT'
      BY ONLY <1>0, <3>6 DEF ConsoleT
    <3>8. TaskT'
      <4>1. name \in Names /\ "send" \in Labels
        BY <2>4 DEF Names, Labels
      <4> QED BY ONLY <1>0, <2>1, <3>1, <4>1, Zero DEF TaskT
    <3>9. ASSUME NEW u \in Upload PROVE PlaceInv(u)'
      <4>1. CASE u = t
        <5>1. /\ 0 <= Size[name] /\ 0 \in Nat
              /\ 0 = 0 * UPGRADE_DATACHUNK_SIZE /\ 0 = 0 % UINT16
          BY ONLY <2>4, Constants
        <5>2. ~(t > started')
          <6>1. t \in Int /\ started \in Int
            BY <1>0 DEF ConsoleT, Upload
          <6> QED BY ONLY <3>3, <3>6, <6>1
        <5> QED BY ONLY <2>4, <3>5, <4>1, <5>1, <5>2 DEF PlaceInv, Opening
      <4>2. CASE u # t
        BY ONLY <1>0, <3>4, <3>6, <4>2, u \in Upload DEF PlaceInv
      <4> QED BY ONLY <4>1, <4>2
    <3>11. LinkT'
      BY ONLY <1>0, <2>1 DEF LinkT, link
    <3>12. SkyInv'
      BY ONLY <1>0, <2>1 DEF SkyInv, link
    <3> QED BY ONLY <1>02, <1>03, <2>1, <3>7, <3>8, <3>9, <3>11, <3>12 DEF IInv
  <2> QED BY ONLY <2>3, <2>4
<1>6. CASE ReadFails(t)
  <2>1. pc[t] # "none" /\ End(t, "returned") /\ "returned" \in Ended
    BY ONLY <1>6 DEF ReadFails, Ended
  <2> QED BY <2>1, Over
<1>7. CASE SendBlock(t)
  <2> DEFINE b == f_read(file[t], pos[t])
  <2>1. /\ pc[t] = "send" /\ Deliver(b, blk[t]) /\ pos' = [pos EXCEPT ![t] = pos[t] + b.len]
        /\ blk' = [blk EXCEPT ![t] = (blk[t] + 1) % UINT16]
        /\ IF b.len = UPGRADE_DATACHUNK_SIZE THEN UNCHANGED pc ELSE Goto(t, "poll")
        /\ UNCHANGED <<console, file, lost, flags, alone>>
    BY ONLY <1>7 DEF SendBlock
  <2>2. file[t] \in Files /\ pos[t] <= Size[file[t]] /\ pos[t] \in Nat
    BY ONLY <1>0, <2>1, t \in Upload DEF PlaceInv, Sending, TaskT
  <2>3. PICK n \in Nat : pos[t] = n * UPGRADE_DATACHUNK_SIZE /\ blk[t] = n % UINT16
    BY ONLY <1>0, <2>1, t \in Upload DEF PlaceInv
  <2>4. LinkT' /\ SkyInv'
    <3>1. blk[t] \in BlockNo /\ AtPlace(b, blk[t])
      BY ONLY <2>2, <2>3, SentInTurn
    <3>2. b \in Blocks
      BY ONLY <2>2, Piece
    <3> QED BY ONLY <2>1, <3>1, <3>2, Delivered, IInv
  <2>5. b.len \in Nat /\ pos[t] + b.len <= Size[file[t]]
    BY ONLY <2>2, Piece
  <2> HIDE DEF b
  <2>6. (blk[t] + 1) % UINT16 \in BlockNo /\ (blk[t] + 1) % UINT16 = (n + 1) % UINT16
    <3>1. BlockNo = 0 .. UINT16 - 1
      BY DEF BlockNo
    <3> QED BY ONLY <2>3, <3>1, NextNumber, Constants
  <2>7. /\ pos' \in [Upload -> Nat] /\ blk' \in [Upload -> BlockNo]
        /\ pos'[t] = pos[t] + b.len /\ blk'[t] = (n + 1) % UINT16
        /\ \A u \in Upload : u # t => pos'[u] = pos[u] /\ blk'[u] = blk[u]
    <3>1. pos[t] + b.len \in Nat
      BY ONLY <2>2, <2>5
    <3>2. pos \in [Upload -> Nat] /\ blk \in [Upload -> BlockNo]
      BY ONLY <1>0 DEF TaskT
    <3> QED BY ONLY <2>1, <2>6, <3>1, <3>2, t \in Upload
  <2>8. ConsoleT' /\ TaskT' /\ \A u \in Upload : PlaceInv(u)'
    <3>1. CASE b.len = UPGRADE_DATACHUNK_SIZE
      <4>1. UNCHANGED pc
        BY ONLY <2>1, <3>1
      <4>2. pos'[t] = (n + 1) * UPGRADE_DATACHUNK_SIZE /\ n + 1 \in Nat
        BY ONLY <2>3, <2>7, <3>1, Constants
      <4>3. UNCHANGED <<path, cmd, started, others, argument>>
        BY ONLY <2>1 DEF console
      <4>4. ASSUME NEW u \in Upload PROVE PlaceInv(u)'
        <5>1. CASE u = t
          <6>1. \E m \in Nat : pos'[t] = m * UPGRADE_DATACHUNK_SIZE /\ blk'[t] = m % UINT16
            BY ONLY <2>7, <4>2
          <6>2. pos'[t] <= Size[file[t]]
            BY ONLY <2>5, <2>7
          <6> QED BY ONLY <1>0, <2>1, <4>1, <4>3, <5>1, <6>1, <6>2, u \in Upload DEF PlaceInv
        <5>2. CASE u # t
          BY ONLY <1>0, <2>1, <2>7, <4>1, <4>3, <5>2, u \in Upload DEF PlaceInv
        <5> QED BY ONLY <5>1, <5>2
      <4>5. ConsoleT' /\ TaskT'
        BY ONLY <1>0, <2>1, <2>7, <4>1, <4>3 DEF ConsoleT, TaskT
      <4> QED BY ONLY <4>4, <4>5
    <3>2. CASE b.len # UPGRADE_DATACHUNK_SIZE
      <4>1. Goto(t, "poll") /\ UNCHANGED <<console, file, lost>>
        BY ONLY <2>1, <3>2
      <4>2. /\ "poll" \in Labels /\ "poll" # "send" /\ pc[t] # "none"
            /\ "poll" \in Opening => pc[t] \in Opening
            /\ "poll" \in Sending => pc[t] \in Sending
        BY <1>06, <2>1 DEF Opening, Sending
      <4>3. pos'[t] <= Size[file[t]]
        BY ONLY <2>5, <2>7
      <4>4. /\ ConsoleT' /\ pc' \in [Upload -> Labels] /\ file' \in [Upload -> Names]
            /\ \A u \in Upload : PlaceInv(u)'
        BY ONLY <2>7, <4>1, <4>2, <4>3, Moved, IInv, t \in Upload
      <4> QED BY ONLY <1>0, <2>7, <4>1, <4>4 DEF TaskT
    <3> QED BY ONLY <3>1, <3>2
  <2> QED BY ONLY <1>02, <1>03, <2>1, <2>4, <2>8 DEF IInv
<1>8. CASE Poll(t)
  <2>1. /\ pc[t] = "poll" /\ UNCHANGED <<console, file, pos, blk, lost, lostArray, link, alone>>
        /\ status' \subseteq status
        /\ Goto(t, "result") \/ Goto(t, "list") \/ Goto(t, "end")
    BY ONLY <1>8 DEF Poll
  <2>2. FlagT'
    BY ONLY <1>0, <2>1 DEF FlagT
  <2>3. ConsoleT' /\ TaskT' /\ \A u \in Upload : PlaceInv(u)'
    <3>1. CASE Goto(t, "result")
      BY ONLY <1>04, <1>05, <1>06, <2>1, <3>1 DEF Opening, Sending
    <3>2. CASE Goto(t, "list")
      BY ONLY <1>04, <1>05, <1>06, <2>1, <3>2 DEF Opening, Sending
    <3>3. CASE Goto(t, "end")
      BY ONLY <1>04, <1>05, <1>06, <2>1, <3>3 DEF Opening, Sending
    <3> QED BY ONLY <2>1, <3>1, <3>2, <3>3
  <2> QED BY ONLY <1>01, <1>03, <2>1, <2>2, <2>3 DEF IInv
<1>9. CASE GetStatus(t)
  <2>1. /\ pc[t] = "list" /\ Goto(t, "resend") /\ lost' = [lost EXCEPT ![t] = lostArray]
        /\ UNCHANGED <<console, file, pos, blk, flags, link, alone>>
    BY ONLY <1>9 DEF GetStatus
  <2>2. lost' \in [Upload -> SUBSET BlockNo]
    BY ONLY <1>0, <2>1 DEF TaskT, FlagT
  <2>3. ConsoleT' /\ TaskT' /\ \A u \in Upload : PlaceInv(u)'
    BY ONLY <1>04, <1>06, <2>1, <2>2 DEF Opening, Sending
  <2> QED BY ONLY <1>01, <1>02, <1>03, <2>1, <2>3 DEF IInv
<1>10. CASE Resend(t)
  <2>1. pc[t] = "resend" /\ UNCHANGED <<console, file, blk, flags, alone>>
    BY ONLY <1>10 DEF Resend
  <2>2. CASE lost[t] = {}
    <3>1. Goto(t, "end") /\ UNCHANGED <<pos, lost, link>>
      BY ONLY <1>10, <2>2 DEF Resend
    <3>2. ConsoleT' /\ TaskT' /\ \A u \in Upload : PlaceInv(u)'
      BY ONLY <1>04, <1>05, <1>06, <2>1, <3>1 DEF Opening, Sending
    <3> QED BY ONLY <1>01, <1>02, <1>03, <2>1, <3>1, <3>2 DEF IInv
  <2>3. CASE lost[t] # {}
    <3>1. /\ UNCHANGED pc
          /\ \E k \in lost[t] : ResendFrom(t, k, f_lseek(file[t], k * UPGRADE_DATACHUNK_SIZE))
      BY ONLY <1>10, <2>3 DEF Resend
    <3>2. PICK k \in lost[t] : ResendFrom(t, k, f_lseek(file[t], k * UPGRADE_DATACHUNK_SIZE))
      BY ONLY <3>1
    <3> DEFINE p == f_lseek(file[t], k * UPGRADE_DATACHUNK_SIZE)
               b == f_read(file[t], p)
    <3>3. /\ Deliver(b, k) /\ pos' = [pos EXCEPT ![t] = p + b.len]
          /\ lost' = [lost EXCEPT ![t] = lost[t] \ {k}]
      BY ONLY <3>2 DEF ResendFrom
    <3>4. k \in BlockNo /\ file[t] \in Files
      BY ONLY <1>0, <2>1, t \in Upload DEF TaskT, PlaceInv, Sending
    <3>5. p \in Nat /\ p <= Size[file[t]] /\ AtPlace(b, k)
      BY ONLY <3>4, Sought, SentAgain
    <3> HIDE DEF p
    <3>6. b \in Blocks /\ p + b.len \in Nat /\ p + b.len <= Size[file[t]]
      <4>1. b \in Blocks /\ b.len \in Nat /\ p + b.len <= Size[file[t]]
        BY ONLY <3>4, <3>5, Piece
      <4> QED BY ONLY <3>5, <4>1
    <3> HIDE DEF b
    <3>7. LinkT' /\ SkyInv'
      BY ONLY <3>3, <3>4, <3>5, <3>6, Delivered, IInv
    <3>8. /\ lost' \in [Upload -> SUBSET BlockNo] /\ pos' \in [Upload -> Nat]
          /\ pos'[t] <= Size[file[t]] /\ \A u \in Upload : u # t => pos'[u] = pos[u]
      <4>1. lost[t] \ {k} \in SUBSET BlockNo /\ lost \in [Upload -> SUBSET BlockNo] /\ pos \in [Upload -> Nat]
        BY ONLY <1>0, t \in Upload DEF TaskT
      <4> QED BY ONLY <3>3, <3>6, <4>1, t \in Upload
    <3>9. ConsoleT' /\ TaskT'
      BY ONLY <1>0, <2>1, <3>1, <3>8 DEF console, ConsoleT, TaskT
    <3>10. ASSUME NEW u \in Upload PROVE PlaceInv(u)'
      BY ONLY <1>0, <2>1, <3>1, <3>8, u \in Upload DEF console, PlaceInv
    <3> QED BY ONLY <1>02, <1>03, <2>1, <3>7, <3>9, <3>10 DEF IInv
  <2> QED BY ONLY <2>2, <2>3
<1>11. CASE SendEnd(t)
  <2>1. /\ pc[t] = "end" /\ Goto(t, "poll") /\ EndNotice
        /\ UNCHANGED <<console, file, pos, blk, lost, flags, alone>>
    BY ONLY <1>11 DEF SendEnd
  <2>2. file[t] \in Files
    BY ONLY <1>0, <2>1, t \in Upload DEF PlaceInv, Sending
  <2>3. LinkT' /\ SkyInv'
    <3>1. CASE Lose
      BY ONLY <1>0, <2>1, <3>1 DEF Lose, LinkT, SkyInv
    <3>2. CASE ~Lose
      <4>1. UNCHANGED <<sky, losses>> /\ \E answer \in Answers : Reply(answer)
        BY ONLY <2>1, <3>2 DEF EndNotice
      <4>2. PICK answer \in Answers : Reply(answer)
        BY ONLY <4>1
      <4>3. acks' \in Seq(AckSet)
        BY ONLY <1>0, <4>2, Answered, AnswerType
      <4> QED BY ONLY <1>0, <2>1, <4>1, <4>3 DEF LinkT, SkyInv
    <3> QED BY ONLY <3>1, <3>2
  <2>4. ConsoleT' /\ TaskT' /\ \A u \in Upload : PlaceInv(u)'
    BY ONLY <1>04, <1>05, <1>06, <2>1 DEF Opening, Sending
  <2> QED BY ONLY <1>02, <1>03, <2>1, <2>3, <2>4 DEF IInv
<1>12. CASE Result(t)
  <2>1. PICK l \in {"ok", "fail", "silent"} : pc[t] # "none" /\ End(t, l)
    BY ONLY <1>12 DEF Result
  <2>2. l \in Ended
    BY DEF Ended
  <2> QED BY ONLY <2>1, <2>2, Over, IInv, t \in Upload
<1> QED BY <1>1, <1>2, <1>3, <1>4, <1>5, <1>6, <1>7, <1>8, <1>9, <1>10, <1>11, <1>12 DEF Task
-------------------------------------------------------------------------------
LEMMA Initially == Init => IInv
<1> SUFFICES ASSUME Init PROVE IInv
  OBVIOUS
<1> USE DEF Init
<1>1. ConsoleT
  <2>1. 0 <= MaxUploads
    <3>1. MaxUploads \in Nat
      BY ONLY UpgradeAssumption DEF UpgradeAssumption
    <3> QED BY ONLY <3>1
  <2>2. argument \in [Upload -> {"none", "live", "dead"}]
    OBVIOUS
  <2>3. path \in Names /\ cmd \in Upload \cup {0} /\ started = 0 /\ others = 0
    BY DEF Names
  <2> QED BY ONLY <2>1, <2>2, <2>3 DEF ConsoleT
<1>2. TaskT
  BY Zero DEF TaskT, Names, Labels
<1>3. FlagT /\ AloneT
  BY DEF FlagT, AloneT
<1>4. LinkT
  BY DEF LinkT, Blocks
<1>5. \A t \in Upload : PlaceInv(t)
  BY NoFileIsNone DEF PlaceInv, Sending
<1>6. SkyInv
  BY DEF SkyInv, AtPlace
<1> QED BY <1>1, <1>2, <1>3, <1>4, <1>5, <1>6 DEF IInv

LEMMA Inductive == IInv /\ [Next]_vars => IInv'
<1> SUFFICES ASSUME IInv, [Next]_vars PROVE IInv'
  OBVIOUS
<1>1. CASE UNCHANGED vars
  BY <1>1 DEF vars, console, task, flags, link, IInv, ConsoleT, TaskT, FlagT, LinkT, AloneT,
              PlaceInv, SkyInv, AtPlace
<1>2. CASE Next
  BY <1>2, ConsoleStep, TaskStep, AckStep DEF Next
<1> QED BY <1>1, <1>2

(* The state of console, tasks, link and sky between any two steps. *)
THEOREM Invariance == Spec => []IInv
  BY Initially, Inductive, PTL DEF Spec

(* Every variable keeps its type; a task that sends has a file open, reads *)
(* within it, and its next number is one of that file's.                   *)
THEOREM TypeCorrect == Spec => []TypeOK
<1>1. ASSUME IInv, NEW t \in Upload, pc[t] = "send" PROVE blk[t] \in Numbers(file[t])
  <2>1. file[t] \in Files /\ pos[t] <= Size[file[t]]
    BY <1>1 DEF IInv, PlaceInv, Sending
  <2>2. PICK n \in Nat : pos[t] = n * UPGRADE_DATACHUNK_SIZE /\ blk[t] = n % UINT16
    BY <1>1 DEF IInv, PlaceInv
  <2> QED BY ONLY <2>1, <2>2, InTurn
<1>2. IInv => TypeOK
  BY <1>1 DEF IInv, ConsoleT, TaskT, FlagT, LinkT, AloneT, PlaceInv, Sending, Names, Statuses, TypeOK
<1> QED BY <1>2, Invariance, PTL
-------------------------------------------------------------------------------
(* An upload that nothing of another upload has got in the way of: no      *)
(* other task is under way, every answer is one to its notices, the sky    *)
(* forgot its blocks when it answered the first of them, and each list of  *)
(* lost blocks that the task can still meet is of numbers of its file.     *)
Heard == status # {} \/ acks # <<>>
InitOnly == /\ status \subseteq {"INIT"}
            /\ \A i \in 1 .. Len(acks) : acks[i] = [kind |-> "INIT", lost |-> {}]
EndSeen == "END" \in status \/ \E i \in 1 .. Len(acks) : acks[i].kind = "END"
SkyEmpty == \A k \in BlockNo : sky[k] = NoBlock
SkyOf(f) == \A k \in BlockNo : sky[k] # NoBlock => sky[k].of = f /\ k \in Numbers(f)
Listed(f) == /\ \A i \in 1 .. Len(acks) : acks[i].lost \subseteq Numbers(f)
             /\ "LOSTDATA" \in status => lostArray \subseteq Numbers(f)
Held(f) == HoldsFile(f) /\ f \in Good

Undisturbed(t) ==
    /\ \A u \in Running : u = t
    /\ pc[t] \in {"begin", "lock"} => acks = <<>>
    /\ pc[t] = "lock" => status = {}
    /\ pc[t] = "init" => InitOnly /\ (Heard => SkyEmpty)
    /\ pc[t] = "open" => InitOnly /\ SkyEmpty
    /\ pc[t] = "send" => InitOnly /\ SkyOf(file[t])
    /\ pc[t] \in {"poll", "list", "resend", "end", "result"} =>
           SkyOf(file[t]) /\ Listed(file[t]) /\ (EndSeen => Held(file[t]))
    /\ pc[t] = "list" => lostArray \subseteq Numbers(file[t])
    /\ pc[t] = "resend" => lost[t] \subseteq Numbers(file[t])

AloneInv == \A t \in Upload : alone[t] /\ t \in Running => Undisturbed(t)

(* Where a task is under way. *)
LEMMA RunningPlaces ==
    ASSUME TaskT, NEW t \in Upload
    PROVE  t \in Running <=> pc[t] \in {"begin", "lock", "init", "open"} \cup Sending \cup {"result"}
  BY DEF TaskT, Running, Labels, Ended, Sending

(* A step of a task moves no other task, and leaves the others undisturbed *)
(* only if it is not under way. *)
LEMMA OnlyOne ==
    ASSUME IInv, IInv', AloneInv, NEW t \in Upload, Task(t) \/ ReadFails(t),
           NEW u \in Upload, alone'[u], u \in Running'
    PROVE  /\ u = t
           /\ \/ CheckFile(t)
              \/ alone[t] /\ t \in Running /\ Undisturbed(t) /\ \A v \in Running' : v = t
<1>0. TaskT /\ pc \in [Upload -> Labels]
  BY DEF IInv, TaskT
<1>1. \A v \in Upload : v # t => pc'[v] = pc[v]
  BY <1>0 DEF Task, CheckFile, Start, WaitLock, SendInit, Open, ReadFails, SendBlock, Poll,
              GetStatus, Resend, SendEnd, Result, End, Goto
<1>2. \A v \in Upload : v # t /\ v \in Running' => v \in Running
  BY <1>1 DEF Running
<1>3. CASE CheckFile(t)
  <2>1. ASSUME u # t PROVE FALSE
    <3>1. alone'[u] = (alone[u] /\ u \notin Running)
      BY ONLY <1>3, <2>1, u \in Upload DEF CheckFile
    <3>2. u \notin Running
      BY ONLY <3>1, alone'[u], Zenon
    <3> QED BY <1>2, <2>1, <3>2
  <2> QED BY <1>3, <2>1
<1>4. CASE ~CheckFile(t)
  <2>1. alone' = alone
    BY <1>4 DEF Task, Start, WaitLock, SendInit, Open, ReadFails, SendBlock, Poll,
              GetStatus, Resend, SendEnd, Result, End
  <2>2. pc[t] \in {"begin", "lock", "init", "open", "send", "poll", "list", "resend", "end", "result"}
    BY <1>4 DEF Task, Start, WaitLock, SendInit, Open, ReadFails, SendBlock, Poll,
              GetStatus, Resend, SendEnd, Result
  <2>3. t \in Running
    BY ONLY <1>0, <2>2, RunningPlaces, t \in Upload DEF Sending
  <2>4. u \in Running /\ alone[u]
    BY <1>2, <2>1, <2>3
  <2>5. Undisturbed(u)
    BY <2>4 DEF AloneInv
  <2>6. u = t
    BY ONLY <2>3, <2>5 DEF Undisturbed
  <2>7. \A v \in Running' : v \in Upload
    BY DEF Running
  <2>8. \A v \in Running' : v = t
    BY ONLY <1>2, <2>5, <2>6, <2>7 DEF Undisturbed
  <2> QED BY ONLY <2>3, <2>4, <2>5, <2>6, <2>8
<1> QED BY ONLY <1>3, <1>4
-------------------------------------------------------------------------------
(* What a message of the task does to its blocks. *)
LEMMA OwnBlock ==
    ASSUME IInv, IInv', NEW f \in Files, NEW k \in Numbers(f), NEW p \in Nat, p <= Size[f],
           Deliver(f_read(f, p), k), SkyOf(f)
    PROVE  /\ UNCHANGED acks
           /\ \A j \in BlockNo : sky'[j] # NoBlock => sky'[j].of = f /\ j \in Numbers(f)
           /\ HoldsFile(f) => \A j \in Numbers(f) : sky'[j] = BlockOf(f, j)
<1>1. CASE Lose
  BY ONLY <1>1, SkyOf(f) DEF Lose, SkyOf, HoldsFile
<1>2. CASE ~Lose
  <2> DEFINE b == f_read(f, p)
  <2>1. sky' = [sky EXCEPT ![k] = b] /\ UNCHANGED acks
    BY <1>2 DEF Deliver
  <2>2. b.of = f /\ b # NoBlock
    BY Piece
  <2> HIDE DEF b
  <2>3. k \in BlockNo /\ sky \in [BlockNo -> Blocks]
    BY DEF Numbers, IInv, LinkT
  <2>4. \A j \in BlockNo : sky'[j] = IF j = k THEN b ELSE sky[j]
    BY ONLY <2>1, <2>3
  <2>5. \A j \in BlockNo : sky'[j] # NoBlock => sky'[j].of = f /\ j \in Numbers(f)
    BY ONLY <2>2, <2>4, SkyOf(f), k \in Numbers(f) DEF SkyOf
  <2>6. ASSUME HoldsFile(f), NEW j \in Numbers(f) PROVE sky'[j] = BlockOf(f, j)
    <3>1. Numbered(f) /\ j \in BlockNo /\ sky[j] = BlockOf(f, j)
      BY ONLY <2>6 DEF HoldsFile, Numbers
    <3>2. CASE j # k
      BY ONLY <2>4, <3>1, <3>2
    <3>3. CASE j = k
      <4>1. sky'[j] = b
        BY ONLY <2>4, <3>1, <3>3
      <4>2. AtPlace(sky[j], j)'
        BY <3>1 DEF IInv, SkyInv
      <4>3. b = f_read(f, f_lseek(f, j * UPGRADE_DATACHUNK_SIZE))
        BY ONLY <2>2, <3>1, <4>1, <4>2 DEF AtPlace
      <4> QED BY ONLY <3>1, <4>1, <4>3, <2>6, Sought, f \in Files DEF BlockOf
    <3> QED BY ONLY <3>2, <3>3
  <2> QED BY ONLY <2>1, <2>5, <2>6
<1> QED BY ONLY <1>1, <1>2
-------------------------------------------------------------------------------
LEMMA AloneConsole == ASSUME IInv, AloneInv, Console PROVE AloneInv'
<1>0. ConsoleT /\ TaskT /\ \A u \in Upload : PlaceInv(u)
  BY DEF IInv
<1>1. UNCHANGED <<file, lost, status, lostArray, sky, acks, losses, alone>>
  BY DEF Console, gndforskyupgrade, CommandReturns, OtherCommand, task, flags, link
<1>2. \/ UNCHANGED pc
      \/ started + 1 \in Upload /\ pc' = [pc EXCEPT ![started + 1] = "start"]
  BY DEF Console, gndforskyupgrade, CommandReturns, OtherCommand, task
<1>3. \A u \in Upload : u \in Running' => pc'[u] = pc[u] /\ u \in Running
  <2>1. CASE UNCHANGED pc
    BY ONLY <2>1 DEF Running
  <2>2. CASE started + 1 \in Upload /\ pc' = [pc EXCEPT ![started + 1] = "start"]
    <3>1. \A u \in Upload : pc'[u] = IF u = started + 1 THEN "start" ELSE pc[u]
      BY ONLY <1>0, <2>2 DEF TaskT
    <3> QED BY ONLY <3>1 DEF Running
  <2> QED BY ONLY <1>2, <2>1, <2>2
<1>4. \A u \in Running' : u \in Upload
  BY DEF Running
<1>5. ASSUME NEW u \in Upload, alone'[u], u \in Running' PROVE Undisturbed(u)'
  <2>1. Undisturbed(u) /\ pc'[u] = pc[u]
    BY <1>1, <1>3, <1>5 DEF AloneInv
  <2>2. \A v \in Running' : v = u
    BY ONLY <1>3, <1>4, <2>1 DEF Undisturbed
  <2>3. Heard' = Heard /\ InitOnly' = InitOnly /\ EndSeen' = EndSeen /\ SkyEmpty' = SkyEmpty
    BY ONLY <1>1 DEF Heard, InitOnly, EndSeen, SkyEmpty
  <2>4. SkyOf(file[u])' = SkyOf(file[u]) /\ Held(file[u])' = Held(file[u]) /\ Listed(file[u])' = Listed(file[u])
    BY ONLY <1>1 DEF SkyOf, Held, HoldsFile, Listed
  <2> QED BY ONLY <1>1, <2>1, <2>2, <2>3, <2>4 DEF Undisturbed
<1> QED BY ONLY <1>5 DEF AloneInv

LEMMA AloneAck == ASSUME IInv, AloneInv, AckArrives \/ AckLost PROVE AloneInv'
<1>0. acks \in Seq(AckSet) /\ LinkT
  BY DEF IInv, LinkT
<1>1. /\ UNCHANGED <<file, pc, lost, sky, alone>> /\ acks # <<>> /\ acks' = Tail(acks)
      /\ \/ /\ status' = status \cup {Head(acks).kind}
            /\ lostArray' = IF Head(acks).kind = "LOSTDATA" THEN Head(acks).lost ELSE lostArray
         \/ status' = status /\ lostArray' = lostArray
  BY DEF AckArrives, AckLost, console, task, flags
<1>2. /\ Len(acks) \in Nat /\ Len(acks) >= 1 /\ Head(acks) = acks[1]
      /\ Len(acks') = Len(acks) - 1 /\ \A i \in 1 .. Len(acks') : acks'[i] = acks[i + 1]
  BY ONLY <1>0, <1>1, HeadTailProperties, LenProperties, EmptySeq
<1>3. Running' = Running
  BY ONLY <1>1 DEF Running
<1>4. InitOnly => InitOnly'
  <2> SUFFICES ASSUME InitOnly PROVE InitOnly'
    OBVIOUS
  <2>1. 1 \in 1 .. Len(acks) /\ \A i \in 1 .. Len(acks') : i + 1 \in 1 .. Len(acks)
    BY ONLY <1>2
  <2>2. Head(acks) = [kind |-> "INIT", lost |-> {}]
    BY ONLY <1>2, <2>1, InitOnly DEF InitOnly
  <2>3. status' \subseteq {"INIT"}
    <3>1. Head(acks).kind = "INIT" /\ status \subseteq {"INIT"}
      BY ONLY <2>2, InitOnly DEF InitOnly
    <3>2. status' \subseteq status \cup {Head(acks).kind}
      BY ONLY <1>1
    <3> QED BY ONLY <3>1, <3>2
  <2>4. \A i \in 1 .. Len(acks') : acks'[i] = [kind |-> "INIT", lost |-> {}]
    BY ONLY <1>2, <2>1, InitOnly DEF InitOnly
  <2> QED BY ONLY <2>3, <2>4 DEF InitOnly
<1>5. EndSeen' => EndSeen
  BY ONLY <1>1, <1>2 DEF EndSeen
<1>6. Heard
  BY ONLY <1>1 DEF Heard
<1>7. ASSUME NEW u \in Upload, alone'[u], u \in Running' PROVE Undisturbed(u)'
  <2>1. Undisturbed(u)
    BY <1>1, <1>3, <1>7 DEF AloneInv
  <2>2. SkyEmpty' = SkyEmpty /\ SkyOf(file[u])' = SkyOf(file[u]) /\ Held(file[u])' = Held(file[u])
    BY ONLY <1>1 DEF SkyEmpty, SkyOf, Held, HoldsFile
  <2> DEFINE Nos == Numbers(file[u])
  <2>3. Numbers(file[u])' = Nos /\ (Listed(file[u]) => \A i \in 1 .. Len(acks) : acks[i].lost \subseteq Nos)
        /\ (Listed(file[u]) /\ "LOSTDATA" \in status => lostArray \subseteq Nos)
    BY ONLY <1>1 DEF Listed
  <2> HIDE DEF Nos
  <2>4. 1 \in 1 .. Len(acks) /\ \A i \in 1 .. Len(acks') : i + 1 \in 1 .. Len(acks)
    BY ONLY <1>2
  <2>5. ASSUME Listed(file[u])
        PROVE  /\ Listed(file[u])' /\ (lostArray \subseteq Nos => lostArray' \subseteq Nos)
    <3>1. Head(acks).lost \subseteq Nos
      BY ONLY <1>2, <2>3, <2>4, <2>5
    <3>2. \A i \in 1 .. Len(acks') : acks'[i].lost \subseteq Nos
      BY ONLY <1>2, <2>3, <2>4, <2>5
    <3>3. "LOSTDATA" \in status' => lostArray' \subseteq Nos
      BY ONLY <1>1, <2>3, <2>5, <3>1
    <3> QED BY ONLY <1>1, <2>3, <3>1, <3>2, <3>3 DEF Listed
  <2>6. pc[u] = "list" => lostArray \subseteq Nos /\ Listed(file[u])
    BY ONLY <2>1 DEF Undisturbed, Nos
  <2>7. pc[u] = "resend" => lost'[u] \subseteq Nos
    BY ONLY <1>1, <2>1 DEF Undisturbed, Nos
  <2>8. pc[u] \in {"poll", "list", "resend", "end", "result"} => Listed(file[u])'
    BY ONLY <2>1, <2>5 DEF Undisturbed
  <2> QED BY ONLY <1>1, <1>3, <1>4, <1>5, <1>6, <2>1, <2>2, <2>3, <2>5, <2>6, <2>7, <2>8 DEF Undisturbed
<1> QED BY ONLY <1>7 DEF AloneInv
-------------------------------------------------------------------------------
LEMMA AloneTask ==
    ASSUME IInv, IInv', AloneInv, NEW t \in Upload, Task(t) \/ ReadFails(t)
    PROVE  AloneInv'
<1> SUFFICES ASSUME NEW u \in Upload, alone'[u], u \in Running' PROVE Undisturbed(u)'
  BY DEF AloneInv
<1>0. /\ TaskT /\ LinkT /\ FlagT /\ PlaceInv(t) /\ pc \in [Upload -> Labels] /\ TaskT'
  BY DEF IInv, TaskT
<1>1. u = t /\ (CheckFile(t) \/ (alone[t] /\ t \in Running /\ Undisturbed(t) /\ \A v \in Running' : v = t))
  BY OnlyOne
<1>2. ASSUME NEW l, Goto(t, l) PROVE pc'[t] = l
  BY ONLY <1>0, <1>2, t \in Upload DEF Goto
<1>3. /\ ReadFails(t) => pc'[t] = "returned"
      /\ Result(t) => pc'[t] \in {"ok", "fail", "silent"}
  BY ONLY <1>2 DEF ReadFails, Result, End
<1>4. ~ReadFails(t) /\ ~Result(t)
  BY <1>1, <1>3 DEF Running, Ended
<1>5. ASSUME CheckFile(t) PROVE Undisturbed(t)'
  <2>1. pc'[t] = "begin" /\ UNCHANGED acks
    BY <1>2, <1>5 DEF CheckFile, link
  <2>2. Running = {} /\ acks = <<>>
    <3>1. alone'[t] = (Running = {} /\ acks = <<>>)
      BY ONLY <1>5, t \in Upload DEF CheckFile
    <3> QED BY ONLY <1>1, <3>1, alone'[u], Zenon
  <2>3. ASSUME NEW v \in Running' PROVE v = t
    <3>1. v \in Upload /\ (v # t => pc'[v] = pc[v])
      BY <1>0, <1>5 DEF Running, CheckFile, Goto
    <3>2. v # t => v \in Running
      BY <2>3, <3>1 DEF Running
    <3> QED BY ONLY <2>2, <3>2
  <2> QED BY ONLY <2>1, <2>2, <2>3 DEF Undisturbed
<1>6. ASSUME alone[t], t \in Running, Undisturbed(t), \A v \in Running' : v = t,
             Start(t) \/ WaitLock(t) \/ SendInit(t) \/ Open(t) \/ SendBlock(t) \/ Poll(t) \/ GetStatus(t)
                 \/ Resend(t) \/ SendEnd(t)
      PROVE  Undisturbed(t)'
  <2>0. Undisturbed(t) /\ \A v \in Running' : v = t
    BY ONLY <1>6
  <2>1. CASE Start(t)
    <3>1. pc[t] = "begin" /\ pc'[t] = "lock" /\ status' = {} /\ acks' = acks
      BY ONLY <1>2, <2>1 DEF Start, link
    <3> QED BY ONLY <2>0, <3>1 DEF Undisturbed
  <2>2. CASE WaitLock(t)
    <3>1. pc[t] = "lock" /\ pc'[t] = "init" /\ status' = status /\ acks' = acks
      BY ONLY <1>2, <2>2 DEF WaitLock, link, flags
    <3>2. status' = {} /\ acks' = <<>>
      BY ONLY <2>0, <3>1 DEF Undisturbed
    <3>3. InitOnly' /\ ~Heard'
      BY ONLY <3>2 DEF InitOnly, Heard
    <3> QED BY ONLY <2>0, <3>1, <3>3 DEF Undisturbed
  <2>3. CASE SendInit(t)
    <3>1. pc[t] = "init" /\ UNCHANGED <<file, status>> /\ InitOnly /\ (Heard => SkyEmpty)
      BY ONLY <2>0, <2>3 DEF SendInit, flags, Undisturbed
    <3>2. CASE "INIT" \in status
      <4>1. pc'[t] = "open" /\ UNCHANGED <<sky, acks>>
        BY ONLY <1>2, <2>3, <3>2 DEF SendInit, link
      <4>2. Heard
        BY ONLY <3>2 DEF Heard
      <4>3. InitOnly' /\ SkyEmpty'
        BY ONLY <3>1, <4>1, <4>2 DEF InitOnly, SkyEmpty
      <4> QED BY ONLY <2>0, <4>1, <4>3 DEF Undisturbed
    <3>3. CASE "INIT" \notin status
      <4>1. pc'[t] = "init" /\ InitNotice
        BY ONLY <2>3, <3>1, <3>3 DEF SendInit
      <4>2. CASE Lose
        <5>1. InitOnly' /\ (Heard' => SkyEmpty')
          BY ONLY <3>1, <4>2 DEF Lose, InitOnly, Heard, SkyEmpty
        <5> QED BY ONLY <2>0, <4>1, <5>1 DEF Undisturbed
      <4>3. CASE ~Lose
        <5>1. sky' = [k \in BlockNo |-> NoBlock] /\ acks' = Append(acks, [kind |-> "INIT", lost |-> {}])
          BY ONLY <4>1, <4>3 DEF InitNotice, Reply
        <5>2. SkyEmpty'
          BY ONLY <5>1 DEF SkyEmpty
        <5>3. [kind |-> "INIT", lost |-> {}] \in AckSet /\ acks \in Seq(AckSet)
          BY ONLY <1>0 DEF AckSet, LinkT
        <5>4. InitOnly'
          <6>1. /\ Len(acks) \in Nat /\ Len(acks') = Len(acks) + 1
                /\ \A i \in 1 .. Len(acks) : acks'[i] = acks[i]
                /\ acks'[Len(acks) + 1] = [kind |-> "INIT", lost |-> {}]
            BY ONLY <5>1, <5>3, AppendProperties, LenProperties
          <6>2. \A i \in 1 .. Len(acks') : acks'[i] = [kind |-> "INIT", lost |-> {}]
            <7> SUFFICES ASSUME NEW i \in 1 .. Len(acks') PROVE acks'[i] = [kind |-> "INIT", lost |-> {}]
              OBVIOUS
            <7>1. i \in 1 .. Len(acks) \/ i = Len(acks) + 1
              BY ONLY <6>1, i \in 1 .. Len(acks')
            <7> QED BY ONLY <3>1, <6>1, <7>1 DEF InitOnly
          <6> QED BY ONLY <3>1, <6>2 DEF InitOnly
        <5> QED BY ONLY <2>0, <4>1, <5>2, <5>4 DEF Undisturbed
      <4> QED BY ONLY <4>2, <4>3
    <3> QED BY ONLY <3>2, <3>3
  <2>4. CASE Open(t)
    <3>1. pc[t] = "open" /\ UNCHANGED <<status, acks, sky>> /\ InitOnly /\ SkyEmpty
      BY ONLY <2>0, <2>4 DEF Open, flags, link, Undisturbed
    <3>2. InitOnly' /\ SkyEmpty' /\ SkyOf(file[t])'
      BY ONLY <3>1 DEF InitOnly, SkyEmpty, SkyOf
    <3>3. pc'[t] \in {"send", "returned"}
      BY ONLY <1>2, <2>4 DEF Open
    <3> QED BY ONLY <2>0, <3>2, <3>3 DEF Undisturbed
  <2>5. CASE SendBlock(t)
    <3>1. /\ pc[t] = "send" /\ Deliver(f_read(file[t], pos[t]), blk[t]) /\ UNCHANGED <<file, status>>
          /\ InitOnly /\ SkyOf(file[t])
      BY ONLY <2>0, <2>5 DEF SendBlock, flags, Undisturbed
    <3>2. file[t] \in Files /\ pos[t] \in Nat /\ pos[t] <= Size[file[t]] /\ blk[t] \in Numbers(file[t])
      <4>1. file[t] \in Files /\ pos[t] <= Size[file[t]] /\ pos[t] \in Nat
        BY ONLY <1>0, <3>1, t \in Upload DEF PlaceInv, Sending, TaskT
      <4>2. PICK n \in Nat : pos[t] = n * UPGRADE_DATACHUNK_SIZE /\ blk[t] = n % UINT16
        BY ONLY <1>0, <3>1 DEF PlaceInv
      <4> QED BY ONLY <4>1, <4>2, InTurn
    <3>3. /\ UNCHANGED acks
          /\ \A j \in BlockNo : sky'[j] # NoBlock => sky'[j].of = file[t] /\ j \in Numbers(file[t])
      BY <3>1, <3>2, OwnBlock
    <3>4. SkyOf(file[t])' /\ InitOnly'
      BY ONLY <3>1, <3>3 DEF SkyOf, InitOnly
    <3>5. ~EndSeen' /\ Listed(file[t])'
      BY ONLY <3>4 DEF InitOnly, EndSeen, Listed
    <3>6. pc'[t] \in {"send", "poll"}
      BY ONLY <1>2, <2>5, <3>1 DEF SendBlock
    <3> QED BY ONLY <2>0, <3>4, <3>5, <3>6 DEF Undisturbed
  <2>6. CASE Poll(t)
    <3>1. /\ pc[t] = "poll" /\ UNCHANGED <<file, acks, sky, lostArray>> /\ status' \subseteq status
          /\ \/ pc'[t] \in {"result", "end"}
             \/ pc'[t] = "list" /\ "LOSTDATA" \in status
      BY ONLY <1>2, <2>6 DEF Poll, link
    <3>2. SkyOf(file[t])' /\ (EndSeen' => EndSeen) /\ (Held(file[t]) => Held(file[t])') /\ Listed(file[t])'
      BY ONLY <2>0, <3>1 DEF Undisturbed, SkyOf, EndSeen, Held, HoldsFile, Listed
    <3>3. pc'[t] = "list" => lostArray' \subseteq Numbers(file[t])'
      BY ONLY <2>0, <3>1 DEF Undisturbed, Listed
    <3> QED BY ONLY <2>0, <3>1, <3>2, <3>3 DEF Undisturbed
  <2>7. CASE GetStatus(t)
    <3>1. /\ pc[t] = "list" /\ pc'[t] = "resend" /\ UNCHANGED <<file, acks, sky, status, lostArray>>
          /\ lost'[t] = lostArray
      BY ONLY <1>0, <1>2, <2>7, t \in Upload DEF GetStatus, link, flags, TaskT
    <3>2. SkyOf(file[t])' /\ (EndSeen' => EndSeen) /\ (Held(file[t]) => Held(file[t])') /\ Listed(file[t])'
      BY ONLY <2>0, <3>1 DEF Undisturbed, SkyOf, EndSeen, Held, HoldsFile, Listed
    <3>3. lost'[t] \subseteq Numbers(file[t])'
      BY ONLY <2>0, <3>1 DEF Undisturbed
    <3> QED BY ONLY <2>0, <3>1, <3>2, <3>3 DEF Undisturbed
  <2>8. CASE Resend(t)
    <3>1. /\ pc[t] = "resend" /\ pc'[t] \in {"resend", "end"} /\ UNCHANGED <<file, status, lostArray>>
          /\ lost'[t] \subseteq lost[t]
      <4>1. pc[t] = "resend" /\ pc'[t] \in {"resend", "end"} /\ UNCHANGED <<file, status, lostArray>>
        BY ONLY <1>2, <2>8 DEF Resend, flags
      <4>2. lost' = lost \/ \E k \in lost[t] : lost' = [lost EXCEPT ![t] = lost[t] \ {k}]
        BY ONLY <2>8 DEF Resend, ResendFrom
      <4>3. lost'[t] \subseteq lost[t]
        BY ONLY <1>0, <4>2, t \in Upload DEF TaskT
      <4> QED BY ONLY <4>1, <4>3
    <3>2. /\ SkyOf(file[t]) /\ file[t] \in Files /\ lost[t] \subseteq Numbers(file[t])
          /\ Listed(file[t]) /\ (EndSeen => Held(file[t]))
      BY ONLY <1>0, <2>0, <3>1 DEF Undisturbed, PlaceInv, Sending
    <3>3. /\ UNCHANGED acks
          /\ \A j \in BlockNo : sky'[j] # NoBlock => sky'[j].of = file[t] /\ j \in Numbers(file[t])
          /\ HoldsFile(file[t]) => \A j \in Numbers(file[t]) : sky'[j] = BlockOf(file[t], j)
      <4>1. CASE lost[t] = {}
        BY ONLY <2>8, <3>2, <4>1 DEF Resend, link, SkyOf, HoldsFile
      <4>2. CASE lost[t] # {}
        <5>1. PICK k \in lost[t] : ResendFrom(t, k, f_lseek(file[t], k * UPGRADE_DATACHUNK_SIZE))
          BY ONLY <2>8, <4>2 DEF Resend
        <5> DEFINE p == f_lseek(file[t], k * UPGRADE_DATACHUNK_SIZE)
        <5>2. k \in Numbers(file[t]) /\ k \in BlockNo
          BY ONLY <3>2, <5>1 DEF Numbers
        <5>3. p \in Nat /\ p <= Size[file[t]]
          BY ONLY <3>2, <5>2, Sought
        <5>4. Deliver(f_read(file[t], p), k)
          BY ONLY <5>1 DEF ResendFrom
        <5> HIDE DEF p
        <5> QED BY <3>2, <5>2, <5>3, <5>4, OwnBlock
      <4> QED BY ONLY <4>1, <4>2
    <3>4. SkyOf(file[t])' /\ (EndSeen' => EndSeen) /\ Listed(file[t])'
      BY ONLY <3>1, <3>2, <3>3 DEF SkyOf, EndSeen, Listed
    <3>5. Held(file[t]) => Held(file[t])'
      BY ONLY <3>1, <3>3 DEF Held, HoldsFile
    <3>6. lost'[t] \subseteq Numbers(file[t])'
      BY ONLY <3>1, <3>2
    <3> QED BY ONLY <2>0, <3>1, <3>2, <3>4, <3>5, <3>6 DEF Undisturbed
  <2>9. CASE SendEnd(t)
    <3>1. /\ pc[t] = "end" /\ pc'[t] = "poll" /\ EndNotice /\ UNCHANGED <<file, status, lostArray>>
      BY ONLY <1>2, <2>9 DEF SendEnd, flags
    <3>2. SkyOf(file[t]) /\ Listed(file[t]) /\ file[t] \in Files /\ (EndSeen => Held(file[t]))
      BY ONLY <1>0, <2>0, <3>1 DEF Undisturbed, PlaceInv, Sending
    <3>3. sky' = sky
      BY ONLY <3>1 DEF EndNotice, Lose
    <3>4. SkyOf(file[t])' /\ (Held(file[t]) => Held(file[t])')
      BY ONLY <3>1, <3>2, <3>3 DEF SkyOf, Held, HoldsFile
    <3>5. CASE Lose
      <4>1. (EndSeen' => EndSeen) /\ Listed(file[t])'
        BY ONLY <3>1, <3>2, <3>5 DEF Lose, EndSeen, Listed
      <4> QED BY ONLY <2>0, <3>1, <3>2, <3>4, <4>1 DEF Undisturbed
    <3>6. CASE ~Lose
      <4>1. PICK answer \in Answers : Reply(answer)
        BY ONLY <3>1, <3>6 DEF EndNotice
      <4>2. answer \in AckSet /\ answer.lost \subseteq Missing /\ acks \in Seq(AckSet)
        BY ONLY <1>0, <4>1, AnswerType DEF LinkT
      <4>3. acks' = Append(acks, answer)
        BY ONLY <4>1 DEF Reply
      <4>4. /\ Len(acks) \in Nat /\ Len(acks') = Len(acks) + 1
            /\ \A i \in 1 .. Len(acks) : acks'[i] = acks[i]
            /\ acks'[Len(acks) + 1] = answer
        BY ONLY <4>2, <4>3, AppendProperties, LenProperties
      <4>5. \A i \in 1 .. Len(acks') : i \in 1 .. Len(acks) \/ i = Len(acks) + 1
        BY ONLY <4>4
      <4>6. EndSeen' => EndSeen \/ answer.kind = "END"
        BY ONLY <3>1, <4>4, <4>5 DEF EndSeen
      <4>7. 0 \in BlockNo /\ 0 \in Numbers(file[t])
        BY ONLY <3>2, Zero
      <4>8. Missing \subseteq Numbers(file[t])
        BY ONLY <3>2, <4>7 DEF Missing, SkyOf
      <4>9. Listed(file[t])'
        BY ONLY <3>1, <3>2, <4>2, <4>4, <4>5, <4>8 DEF Listed
      <4>10. ASSUME answer.kind = "END" PROVE Held(file[t])
        <5>1. Missing = {} /\ HoldsFile(sky[0].of) /\ sky[0].of \in Good
          BY ONLY <4>1, <4>10 DEF Answers
        <5>2. sky[0] # NoBlock
          BY ONLY <5>1 DEF Missing
        <5>3. sky[0].of = file[t]
          BY ONLY <3>2, <4>7, <5>2 DEF SkyOf
        <5> QED BY ONLY <5>1, <5>3 DEF Held
      <4> QED BY ONLY <2>0, <3>1, <3>2, <3>4, <4>6, <4>9, <4>10 DEF Undisturbed
    <3> QED BY ONLY <3>5, <3>6
  <2> QED BY ONLY <1>6, <2>1, <2>2, <2>3, <2>4, <2>5, <2>6, <2>7, <2>8, <2>9
<1> QED BY <1>1, <1>4, <1>5, <1>6 DEF Task
-------------------------------------------------------------------------------
(* In an upload that no other got in the way of. *)
LEMMA AloneStays == Spec => []AloneInv
<1>1. Init => AloneInv
  BY DEF Init, AloneInv
<1>2. IInv /\ IInv' /\ AloneInv /\ [Next]_vars => AloneInv'
  <2> SUFFICES ASSUME IInv, IInv', AloneInv, [Next]_vars PROVE AloneInv'
    OBVIOUS
  <2>1. CASE UNCHANGED vars
    <3>1. UNCHANGED <<pc, file, lost, status, lostArray, sky, acks, alone>>
      BY ONLY <2>1 DEF vars, task, flags, link
    <3> QED BY ONLY <3>1, AloneInv DEF AloneInv, Undisturbed, Running, InitOnly, Heard, SkyEmpty,
               SkyOf, Listed, EndSeen, Held, HoldsFile
  <2>2. CASE Next
    BY <2>2, AloneConsole, AloneTask, AloneAck DEF Next
  <2> QED BY <2>1, <2>2
<1> QED BY <1>1, <1>2, Invariance, PTL DEF Spec

(* What the sky holds under a number was read at the place of that number, *)
(* whichever uploads overlap and whatever the link loses; in an upload     *)
(* that no other got in the way of it is a block of that file, and no list *)
(* of an earlier upload makes the task send a number its file has not got. *)
THEOREM InPlace == Spec => []BlocksInPlace
<1>1. ASSUME IInv, AloneInv PROVE BlocksInPlace
  <2>1. ASSUME NEW k \in BlockNo, sky[k] # NoBlock, Numbered(sky[k].of)
        PROVE  sky[k] = f_read(sky[k].of, f_lseek(sky[k].of, k * UPGRADE_DATACHUNK_SIZE))
    BY <1>1, <2>1 DEF IInv, SkyInv, AtPlace
  <2>2. ASSUME NEW t \in Running, NEW k \in BlockNo, alone[t], file[t] # NoFile, sky[k] # NoBlock
        PROVE  sky[k].of = file[t] /\ k \in Numbers(file[t])
    <3>1. t \in Upload /\ TaskT /\ PlaceInv(t)
      BY <1>1 DEF Running, IInv
    <3>2. pc[t] \notin Opening
      BY ONLY <2>2, <3>1 DEF PlaceInv
    <3>3. pc[t] \in {"send", "poll", "list", "resend", "end", "result"}
      BY ONLY <2>2, <3>1, <3>2, RunningPlaces DEF Opening, Sending
    <3>4. SkyOf(file[t])
      BY ONLY <1>1, <2>2, <3>1, <3>3 DEF AloneInv, Undisturbed
    <3> QED BY ONLY <2>2, <3>4 DEF SkyOf
  <2> QED BY ONLY <2>1, <2>2 DEF BlocksInPlace
<1> QED BY <1>1, Invariance, AloneStays, PTL

(* "upgrade ok" is logged only when the sky holds the whole file and takes *)
(* it, as long as nothing of another upload has got in the way, whatever   *)
(* the link loses and however often blocks and notices are sent again.     *)
THEOREM OkComplete == Spec => OkMeansComplete
<1> DEFINE Step == \A t \in Upload : alone[t] /\ pc'[t] = "ok" /\ pc[t] # "ok"
                                         => HoldsFile(file[t]) /\ file[t] \in Good
<1>3. IInv /\ IInv' /\ AloneInv /\ [Next]_vars => [Step]_vars
  <2> SUFFICES ASSUME IInv, AloneInv, Next, NEW t \in Upload, alone[t], pc'[t] = "ok", pc[t] # "ok"
               PROVE  HoldsFile(file[t]) /\ file[t] \in Good
    OBVIOUS
  <2>0. pc \in [Upload -> Labels]
    BY DEF IInv, TaskT
  <2>1. PICK u \in Upload : Result(u)
    <3>1. ~Console /\ ~AckArrives /\ ~AckLost
      BY <2>0 DEF Console, gndforskyupgrade, CommandReturns, OtherCommand, AckArrives, AckLost, task
    <3>2. PICK u \in Upload : Task(u) \/ ReadFails(u)
      BY <3>1 DEF Next
    <3>3. CASE Result(u)
      BY <3>3
    <3>4. CASE ~Result(u)
      BY <2>0, <3>2, <3>4 DEF Task, CheckFile, Start, WaitLock, SendInit, Open, ReadFails, SendBlock,
         Poll, GetStatus, Resend, SendEnd, End, Goto
    <3> QED BY ONLY <3>3, <3>4
  <2>2. u = t /\ pc[t] = "result" /\ "END" \in status
    BY <2>0, <2>1 DEF Result, End, Goto
  <2>3. t \in Running
    BY <2>2 DEF Running, Ended
  <2>4. EndSeen /\ Undisturbed(t)
    BY <2>2, <2>3 DEF AloneInv, EndSeen
  <2> QED BY ONLY <2>2, <2>4 DEF Undisturbed, Held
<1> HIDE DEF Step
<1>4. Spec => [][Step]_vars
  BY <1>3, Invariance, AloneStays, PTL DEF Spec
<1> QED BY <1>4 DEF OkMeansComplete, Step
===============================================================================
