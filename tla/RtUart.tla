-------------------------------- MODULE RtUart --------------------------------
(***************************************************************************)
(* Example/usr_sbus_uart_task.c: the real-time UART.  On the ground, each  *)
(* time the baseband is about to send, a GPIO asks an external device for  *)
(* data; the device's bytes are collected until a timer fires, which sends *)
(* them.  In the air, each time the baseband has received, a timer is      *)
(* started that reads the data and writes it to the UART.                  *)
(*                                                                         *)
(* Every handler is an interrupt's.  On each side they have the same       *)
(* priority: none interrupts another one, and each is one step here.       *)
(*                                                                         *)
(* A byte is the number of its turn: the bytes that the external device    *)
(* sends are numbered 1, 2, 3...                                           *)
(*                                                                         *)
(* rt_uart_cnt and i have eight bits and count dropped bytes too: the sum  *)
(* of bypass_hal_uart_irq_handler wraps, fits again, and a chunk is stored *)
(* behind the buffer.  What lies there the source does not say; the model  *)
(* ends with that store (behind).                                          *)
(***************************************************************************)
EXTENDS Naturals, Sequences

CONSTANTS MAX_RT_BUF_LEN,   \* bytes that the buffer holds (25 in the code)
          spi_num,          \* bytes of a message, a factory setting
          BB_READ_MAX_LEN,  \* bytes that the air side reads at a time (32)
          UINT8_MAX,        \* the greatest value of a uint8_t (255)
          ChunkLens,        \* how many bytes the UART hands over at a time
          MaxBytes          \* bound of the model: bytes received in all

ASSUME RtAssumption == /\ MAX_RT_BUF_LEN \in Nat /\ spi_num \in 1 .. MAX_RT_BUF_LEN
                       /\ BB_READ_MAX_LEN \in Nat /\ BB_READ_MAX_LEN >= spi_num
                       /\ UINT8_MAX \in Nat /\ MAX_RT_BUF_LEN < UINT8_MAX
                       /\ ChunkLens \subseteq 1 .. UINT8_MAX /\ MaxBytes \in Nat

VARIABLES sync, txIrq, timer,       \* ground: the GPIO, the interrupt's mask, the timer
          rt_uart_buf, rt_uart_cnt,
          session,                  \* what was sent and not yet read in the air
          rxIrq, skyTimer, output,  \* air: mask, timer, what the UART put out
          received,                 \* history: bytes received
          since,                    \* history: those received since the last message
          behind,                   \* history: a chunk was stored behind rt_uart_buf
          over,                     \* "over max spi num" was logged
          lost,                     \* a message was refused, cut or not put out
          stuck                     \* a timer could not be started

groundVars == <<sync, txIrq, timer, rt_uart_buf, rt_uart_cnt>>
skyVars == <<rxIrq, skyTimer, output>>
deviceVars == <<received, since, behind, over>>
vars == <<groundVars, session, skyVars, deviceVars, lost, stuck>>

Least(m, n) == IF m <= n THEN m ELSE n

Init == /\ sync = FALSE /\ txIrq = TRUE /\ timer = FALSE
        /\ rt_uart_buf = [k \in 1 .. MAX_RT_BUF_LEN |-> 0] /\ rt_uart_cnt = 0
        /\ session = <<>>
        /\ rxIrq = TRUE /\ skyTimer = FALSE /\ output = <<>>
        /\ received = 0 /\ since = 0 /\ behind = FALSE /\ over = FALSE
        /\ lost = FALSE /\ stuck = FALSE
-------------------------------------------------------------------------------
(* Ground. *)

(* A failure to start the timer is only logged: the interrupt stays off.   *)
wimax_irq(started) == /\ txIrq
                      /\ sync' = TRUE /\ txIrq' = FALSE
                      /\ timer' = (timer \/ started)
                      /\ stuck' = (stuck \/ ~timer')
                      /\ UNCHANGED <<rt_uart_buf, rt_uart_cnt, session, skyVars,
                                     deviceVars, lost>>

uint8(n) == n % (UINT8_MAX + 1)

FitsOneMore(n) == uint8(rt_uart_cnt + n) <= MAX_RT_BUF_LEN + 1

Fits(n) == uint8(rt_uart_cnt + n) <= MAX_RT_BUF_LEN

(* The part of the chunk that falls into the buffer. *)
Store(n) == [k \in 1 .. MAX_RT_BUF_LEN |->
                IF k \in rt_uart_cnt + 1 .. rt_uart_cnt + n
                THEN received + (k - rt_uart_cnt) ELSE rt_uart_buf[k]]

CountedWider(n) == rt_uart_cnt + n

Counted(n) == uint8(rt_uart_cnt + n)

(* A chunk that does not fit is dropped, but counted.  The device sends    *)
(* when it likes: it may be late, or not look at the GPIO at all.          *)
bypass_hal_uart_irq_handler(n) ==
    /\ received + n <= MaxBytes
    /\ rt_uart_buf' = IF Fits(n) THEN Store(n) ELSE rt_uart_buf
    /\ rt_uart_cnt' = Counted(n)
    /\ received' = received + n /\ since' = since + n
    /\ behind' = (Fits(n) /\ rt_uart_cnt + n > MAX_RT_BUF_LEN)
    /\ over' = (over \/ ~Fits(n))
    /\ UNCHANGED <<sync, txIrq, timer, session, skyVars, lost, stuck>>

CountAfterSendKept == rt_uart_cnt - Least(rt_uart_cnt, spi_num)

CountAfterSend == 0

(* hal_uart_tx2bb_spi: whatever exceeds a message is forgotten. *)
SendReceived(sent) ==
    /\ session' = IF sent THEN session \o SubSeq(rt_uart_buf, 1, Least(rt_uart_cnt, spi_num))
                          ELSE session
    /\ lost' = (lost \/ (rt_uart_cnt > 0 /\ ~sent) \/ rt_uart_cnt > spi_num)
    /\ rt_uart_cnt' = CountAfterSend /\ since' = 0

CloseWindowMasked(stopped) == sync' = FALSE /\ timer' = ~stopped /\ UNCHANGED txIrq

CloseWindow(stopped) == sync' = FALSE /\ timer' = ~stopped /\ txIrq' = TRUE

sbus_delay_notice(sent, stopped) ==
    /\ timer
    /\ SendReceived(sent)
    /\ CloseWindow(stopped)
    /\ UNCHANGED <<rt_uart_buf, skyVars, received, behind, over, stuck>>
-------------------------------------------------------------------------------
(* Air. *)

sky_wimax_irq(started) == /\ rxIrq
                          /\ rxIrq' = FALSE
                          /\ skyTimer' = (skyTimer \/ started)
                          /\ stuck' = (stuck \/ ~skyTimer')
                          /\ UNCHANGED <<groundVars, session, output, deviceVars, lost>>

PutOutFlush(n, put) == /\ output' = IF put THEN output \o SubSeq(session, 1, n) ELSE output
                       /\ lost' = (lost \/ (n > 0 /\ ~put))
                       /\ session' = <<>>

(* bypass_bb_spi_irq_handler: put says whether the UART takes the data. *)
PutOut(n, put) == /\ output' = IF put THEN output \o SubSeq(session, 1, n) ELSE output
                  /\ lost' = (lost \/ (n > 0 /\ ~put))
                  /\ session' = SubSeq(session, n + 1, Len(session))

(* A read that fails yields nothing. *)
sky_sbus_delay_notice(read, put, stopped) ==
    /\ skyTimer
    /\ PutOut(IF read THEN Least(Len(session), BB_READ_MAX_LEN) ELSE 0, put)
    /\ skyTimer' = ~stopped
    /\ rxIrq' = TRUE
    /\ UNCHANGED <<groundVars, deviceVars, stuck>>
-------------------------------------------------------------------------------
(* The end of the model is a guard of each step, so that no step is owed then. *)
TxEnable == ~behind /\ \E started \in BOOLEAN : wimax_irq(started)

Device == ~behind /\ \E n \in ChunkLens : bypass_hal_uart_irq_handler(n)

GroundTimer == ~behind /\ \E sent, stopped \in BOOLEAN : sbus_delay_notice(sent, stopped)

RxEnable == ~behind /\ \E started \in BOOLEAN : sky_wimax_irq(started)

SkyTimer(read) == ~behind /\ \E put, stopped \in BOOLEAN : sky_sbus_delay_notice(read, put, stopped)

Next == TxEnable \/ Device \/ GroundTimer \/ RxEnable \/ \E read \in BOOLEAN : SkyTimer(read)

Spec == Init /\ [][Next]_vars

(* The baseband sends and receives in every radio frame, a running timer   *)
(* fires, and the session can be read again and again.                     *)
FairSpec == /\ Spec
            /\ WF_vars(TxEnable) /\ WF_vars(GroundTimer)
            /\ WF_vars(RxEnable) /\ SF_vars(SkyTimer(TRUE))
-------------------------------------------------------------------------------
TypeOK == /\ sync \in BOOLEAN /\ txIrq \in BOOLEAN /\ timer \in BOOLEAN
          /\ rt_uart_buf \in [1 .. MAX_RT_BUF_LEN -> 0 .. MaxBytes]
          /\ rt_uart_cnt \in 0 .. UINT8_MAX
          /\ session \in Seq(0 .. MaxBytes) /\ output \in Seq(0 .. MaxBytes)
          /\ rxIrq \in BOOLEAN /\ skyTimer \in BOOLEAN
          /\ received \in 0 .. MaxBytes /\ since \in 0 .. received
          /\ behind \in BOOLEAN /\ over \in BOOLEAN /\ lost \in BOOLEAN /\ stuck \in BOOLEAN

(* The handler's length test keeps every store inside rt_uart_buf as long  *)
(* as fewer than 2^8 bytes arrived since the last message, dropped ones    *)
(* included.  From there on the sum may wrap and the test lets a chunk     *)
(* pass that does not fit.                                                 *)
BehindNeedsWrap == behind => since > UINT8_MAX

(* Until a chunk is dropped, or stored behind the buffer, the bytes put    *)
(* out in the air are bytes that the device sent, each at most once and in *)
(* order, whenever they arrived relative to the window and whichever       *)
(* message or write was refused.                                           *)
InOrderUntilOver ==
    ~over /\ ~behind => LET all == output \o session
             IN /\ \A k \in 1 .. Len(all) : all[k] \in 1 .. received
                /\ \A k \in 1 .. Len(all) - 1 : all[k] < all[k + 1]

(* Unless the code logs that it lost something, nothing is lost: what was  *)
(* put out, what is on its way and what is collected are together the      *)
(* bytes received, also those that arrive after their window was closed.   *)
NothingLostSilently ==
    ~over /\ ~behind /\ ~lost => output \o session \o SubSeq(rt_uart_buf, 1, rt_uart_cnt)
                          = [k \in 1 .. received |-> k]

(* What the device sent is put out in the end, unless it is lost, a chunk  *)
(* was stored behind the buffer, or a timer could not be started, after    *)
(* which that side's interrupt stays off for good.                         *)
PutOutInTheEnd ==
    Len(output) < received ~> Len(output) = received \/ over \/ behind \/ lost \/ stuck

(* Line 29, "write receive data to BaseBand": every byte sent is one that  *)
(* was received since the last message.                                    *)
OnlyReceivedData ==
    LET all == output \o session
    IN /\ \A k \in 1 .. Len(all) : all[k] # 0
       /\ \A k \in 1 .. Len(all) - 1 : all[k] < all[k + 1]
===============================================================================
