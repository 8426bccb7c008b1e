# Verification of the ARTOSYN ground station application (F1GroundSDK)

TLA+ models of the application code of the SDK in `src/AR8020SDK` (the tree
`src/AR8020SDK_00.01.15/Example` is an identical copy of `Example/`), checked
with TLC and proved with TLAPS. All paths below are relative to `src/AR8020SDK/`.

The board is an AR8020: three processors, a radio ("baseband", BB) that
carries *sessions* between ground and sky, USB, UARTs, GPIOs and ADCs. The
drivers, the radio protocol, FreeRTOS and the system-event queue are binary
libraries in `Lib/`; they are external here, modelled from how the application
calls them. What the repository has in source is the application: the code that
moves bytes between these devices, most of it through hand-written lock-free
buffers between tasks, event handlers and interrupts, plus the remote control's
inputs and the pairing procedure. That is where its hard behaviour lies.

## 1. Inventory

`Application/cpu0/main_ground.c` starts the ground station: it registers event
handlers and sessions and starts the tasks `IO_Task` (dispatches system events,
among them the callbacks of the sessions, normal priority),
`COMTASK_Rx3Function` (high), the wireless task of a library (dispatches USB
commands to `Cmd_Handler[]`), `Usr_Usb_Debug` and `Key_Debug` (idle priority),
and the USB host task. Tasks, callbacks and interrupts share memory without
locks.

| Component | State | Operations | Interacts with | Hard behaviour | Correct if | Model |
|---|---|---|---|---|---|---|
| Network repeater, `test_net_repeater_ground.c` | `session_ring`: indices, 50 slots, sizes | start (console command), `repeater_ground_input`, `sessionSend_task` | USB network card → session 3 | lock-free ring, refused sends, failed allocations | bounded FIFO, no overrun of a block | `NetRepeater` |
| USB bypass FIFOs, `usr_usb_task.c` 24–316, 498–580 | `usb_tx3`, `usb_rx3`: indices, 50 blocks of 64 bytes, lengths | write/push, read, task that sends | USB commands ↔ session 1 | lock-free, indices one past the end, full test | FIFO of bytes | `UsbBlockFifo` |
| Video demultiplexer, `usr_usb_task.c` 330–496 | parser statics, `usb_plug_flag`, SRAM channels | `receive_video_stream`, `usb_plug_out_callback` | USB host → two SRAM channels | stream cut anywhere, resynchronisation, plug-out between two steps | payload to its channel, all of it | `VideoDemux` |
| Byte ring and UART bypass, `ringbuf.c`, `usr_uart3_task.c` 447–738 | head, tail, buffer; the task's local buffer | receive handlers, send tasks, USB commands | UART ↔ session 3 | lock-free, pointers one past the end, overflow | FIFO of bytes, counts exact | `UartBypass` |
| Remote control, `main_ground.c` 133–416 | calibration, keys, gears, channels | `Key_Debug` with calibration, `Usr_Usb_Debug` | GPIO, ADC → SPI session | shared calibration, 16-bit wrap, packing | range, centre, lossless packet | `RcInput` |
| Pairing, `grd_test_search_id.c`, `grd_app_sys_event_process.c` | timer, flag, `timeout_loop` | request, end event, timer interrupt | event queue, timer, BB | interrupt between two statements, late event | full time, always ends | `SearchId` |
| Real-time UART, `usr_sbus_uart_task.c` | 25-byte buffer, count, masks, timers | five interrupt handlers | UART, GPIO, BB interrupts, SPI session | windows, late bytes, over-long input | in order, complete unless logged | `RtUart` |
| Upgrade of the sky, `test_upgrade.c` | `path`, the command's local argument, the file, the status flags of a library | command, `UPGRADE_GndForSky`: init notice, blocks, lost blocks again, end notice, result | file system, radio link, sky | loss and retry, two uploads at once, an argument that is gone, stale answers | blocks in their place, "ok" means complete, it ends | `Upgrade` |
| Video file from a USB disk ("bypass video"), `test_usbh.c` | `g_usbhBypassVideoCtrl`, the file object, the buffer in use | start and stop commands, handler `USBH_BypassVideo` | USB host task, SRAM channels, disk | commands while the handler waits in `f_open` or `f_read`, disk pulled | file never read closed, writes to an enabled channel, last start followed | `BypassVideo` |
| Pairing by signal strength, `test_search_id_by_rssi.c` | list of 8 devices | add, nearest, reset | BB callback | – | – | no: in no Makefile of `cpu0`, called by nothing |
| USB command protocol, `usr_protocol.c`, `usr_wir_core.c` | reply buffers | read, write, status | FIFOs, rings, USB | checksum on reads only | – | through `UsbBlockFifo` |
| Console and CDC bridges, start-up, `main_ground.c` 36–129, 425–522 | none | forward | UART 7, CDC ↔ sessions 1, 2 | order of registration | – | no |
| Sky repeater, USB host camera (UVC), LED, signal quality, sleep mode, board test, demonstrations, scripts | little or none | I/O | HAL | – | – | no (see section 7) |

Not started by this ground main, but part of the SDK's application code:
`command_TestNetRepeaterGnd` (console command), `usr_bypass_uart_task`,
`usr_bypass_sbus_uart_task`, `bypass_encoder_init` (sky mode only). The UVC
commands are in no command table and `USBH_UVCInit` is called by nothing;
`c201d_pt.c` is never started. `usb_rx3` has no producer in this build, because
session 1 is registered by `main_ground.c:459` before `usr_usb_task.c:622` asks
for it, and `COMTASK_Tx3Function` is compiled out; its code is that of
`usb_tx3`, which is.

The hazards, one by one and with their lines, are in `PROJECT.json`.

## 2. Modules and how they correspond to the code

A variable has the name of the code's variable where there is one. `xPc`
variables say where a task or handler stands. History variables, named as such,
are written only by the model and read only by properties. Operators that stand
directly before a mapped definition and have its name with a suffix
(`TakePartNoShift` before `TakePart`) are slips that somebody could make there;
they are used by no specification, only by the seeded-error checks listed in
`PROJECT.json`.

* **`FrameChannel`** – what the repeater promises: a bounded FIFO channel.
  `Accept`, `Deliver`; every accepted message is delivered.
* **`NetRepeater`** – the ring at the granularity of its shared accesses: the
  sender samples `rd_ptr` (`SampleRd`), then `wr_ptr` (`SampleWr`), then loads
  the arguments, sends (`SendOk`, `SendFails`) and stores the new `rd_ptr`. The
  callback tests (`InputEnter`), sizes the block (three outcomes), copies (two
  steps, with a torn content in between), stores the length and publishes. Each
  heap block has its true capacity next to the code's `buffer_size`.
* **`UsbBlockFifo`** – `Write` cuts a message, `TestGap`/`TestSide` are the two
  reads of the full test, `IncrementWr`/`WrapWr` and `IncrementRd`/`WrapRd` the
  two halves of an increment that other tasks can see. The read compares a
  slot's length (`CompareLength`), copies (`CopyBlock`, `CopyPart`), advances
  or subtracts (`TakeBlock`, `SubtractPart`) and shifts the rest to the front
  (`TakePart`) in separate steps, with the unsigned arithmetic of a `uint32_t`
  (`UINT32`). Each `memcpy` is one step. `lapped` and `ranAhead` record that an
  index has passed the other one; both sides go on then, and may be at the same
  slot. If the writer changes a length between two of the reader's uses of it, a
  `memcpy` is longer than its buffer or a difference wraps; the source does not
  say what that does, and the model ends there (`torn`).
* **`VideoDemux`** – one action per branch of the parser's loop; `BeginPayload`,
  `ClearFlag` and `Transfer` are separate because the plug-out callback
  (`PlugOut`, `DisableOther`, `SetFlag0`, `SetFlag1`) interleaves there. The
  bytes are real bytes: a payload may look like a marker. A length has four of
  them. `leave_len` is the difference as a signed 32-bit number, which a header
  misread after a cut may make negative, and `PieceLen` the test of lines
  452-459, whose sum is compared as an unsigned number: the parser may then go
  back in its chunk. The conversion to `int` wraps, as GCC defines it; a sum
  `i + leave_len` of more than 31 bits fails the test like any other that is too
  large.
* **`UartBypass`** – `ringbuf_memcpy_into` in the handler (`CopyIn`,
  `AdvanceHead`, `WrapHead`) against the task with `ringbuf_memcpy_from`
  (`Poll`, `Check`, `CopyOut`, `AdvanceTail`, `WrapTail`, `Send`, `Wake`). One
  module for both directions: they differ in `max_send_len`.
* **`RcInput`** – the two idle tasks, the calibration sample by sample, the
  arithmetic of `uint16_t` (`% 65536`), the limiter, and `Packet`, the 22 bytes
  as the hand-written shifts make them and the zero behind them.
* **`SearchId`** – every statement of the two event handlers that touches the
  timer or the flag is a step, the interrupt one step that falls anywhere
  between them.
* **`RtUart`** – the handlers of ground and air with the session between them.
  All interrupts of a side are set to the same NVIC priority (lines 321, 328,
  342, 349), so that a handler is one step. The sum `i` and `rt_uart_cnt` have
  eight bits (`uint8`) and count dropped bytes too; once the sum has wrapped, a
  chunk passes the length test that does not fit, and is stored behind the
  buffer. What lies there the source does not say; the model ends with that
  store (`behind`).
* **`ByteQueue`** – what a byte ring of the UART bypass and a block FIFO promise:
  a queue of at most `Capacity` bytes, in order, each once, until it breaks. For
  the ring, `Put` is the handler's move of `head`, `Get` the task's send, `Break`
  the line "overflow"; it holds `RB_LEN` bytes and the task's own buffer another
  `max_send_len`. For the FIFO, `Put` is `IncrementWr`, `Get` is `TakeBlock` or
  `TakePart`, `Break` the first passing of an index; it holds every slot filled,
  `max_wr_counter * fifo_size` bytes, since all slots are used for the moment in
  which the writer's index stands one past the end.
* **`Upgrade`** – the console (`gndforskyupgrade`, `CommandReturns`,
  `OtherCommand`), the task with one action per call of the library
  (`CheckFile`, `Start`, `WaitLock`, `SendInit`, `Open`, `SendBlock`, `Poll`,
  `GetStatus`, `Resend`, `SendEnd`, `Result`, and `ReadFails`), and the link with
  the sky at its other end (`AckArrives`, `AckLost`, external). `path` is one
  global for all uploads, as in the code; the record with the task's argument
  lives on the stack of the command, so that `argument` is "dead" once the
  command has returned, and what is read through it then is `path` or any name
  that the memory may hold (`Leftovers`). A block is what one `f_read` gives: a
  file, a place and a length. `pos` is the position in the open file, which reads
  advance and `f_lseek` moves; the number a block is sent under is counted apart
  from it, in sixteen bits (`UINT16`), or taken from the list of lost blocks. At
  or behind the end of the file `f_read` gives an empty block. The history
  `alone` says that no other upload, and no answer to one, has got in the way of
  this one.
* **`BypassVideo`** – the handler waits in `f_open` (`OpenFile`) and in `f_read`
  (`ReadChunk`, `ReadShort`); the start command (`SelectChannel`,
  `EnableChannel`, `Register`) and the stop command (`DisableChannel`,
  `Unregister`) run in between, and the disk is pulled and put back (`Plug`).
* **`NetRepeaterProofs`**, **`UsbBlockFifoProofs`**, **`VideoDemuxProofs`**,
  **`UartBypassProofs`**, **`RtUartProofs`**, **`BypassVideoProofs`**,
  **`UpgradeProofs`** – theorems about the module each is named after.
  **`RemoteControlProofs`** – theorems about `RcInput` and `SearchId`, whose
  definitions have names of their own (`SearchSpec`, ...) for that purpose.
* `MC...` modules give the constants of the runs.

Each component has buffers, tasks and sessions of its own; none of the models
above shares state with another one, so they are not composed, except that
`NetRepeater` implements `FrameChannel`, `UartBypass` and `UsbBlockFifo` implement
`ByteQueue`, and `RtUart` joins its ground and air sides through the session. Widths are written
in the form `CHANNEL_MAX == 2047`, `ADC_MAX == 1023`, `UINT16_MAX == 65535`, so
that a proof may use what it needs of them and no more.

## 3. Runs and what they show

| Run | Bounds | Distinct states | Result |
|---|---|---|---|
| `net_repeater` | 4 slots, frames short/long/oversized, 9 accepted | 135 816 | holds |
| `usb_fifo` | 4 slots of 3 bytes, gap 2, messages of 1, 3, 4, reads of 5, 11 bytes, lengths of 4 bits | 1 200 046 | holds |
| `usb_fifo_full` | the same | – | **violated** |
| `video_demux` | 2 frames (of 0, 17 and 90 bytes) or junk, chunks of 7, 40, bytes up to 87, one plug-out | 1 512 490 | holds |
| `uart_bypass` | ring of 3, chunks 1–3, messages of 2, 11 bytes | 143 107 | holds |
| `uart_overflow` | the same | – | **violated** |
| `rc_input` | 1 calibration, 1 move, 1 press of each key, 2 positions | 744 522 | holds |
| `search_id` | 3 requests, queue of 3 | 2 674 | holds |
| `rt_uart` | buffer 3, messages 2, chunks of 1, 2, 3, 6, a count of 3 bits, 8 bytes | 410 224 | holds |
| `rt_uart_stale` | the same, 6 bytes | – | **violated** |
| `upgrade` | files of 1, 2 and 3 blocks, numbers 0 and 1, 2 uploads, 1 other command, 1 loss, 1 answer on its way | 924 439 | holds |
| `bypass_video` | 2 channels, file of 2 chunks and a short one, 5 commands, disk put in or pulled twice | 24 035 | holds |

Why the bounds are enough for the question asked: every ring wraps on both
sides, most of them twice, is full and is empty, with blocks and messages whose
lengths do not divide each other; the integers with a width (`UINT32`,
`UINT8_MAX`, `UINT16`) are small enough to wrap. The video stream has every kind
of frame followed by every kind, and lengths of one and of two bytes; the
payload of 17 bytes looks like two headers, so that a parser that was left in the
middle of a frame reads a length that is negative as an `int`. A search is
followed by another that inherits what it left. Two uploads follow or overlap
each other at every pair of places, with files that have fewer blocks than the
other one, as many as there are numbers, and more; the link loses an init notice,
a block, an end notice, or an answer, and each upload may ask again for as long as
it likes. More losses and more answers on their way than one are left to the
proofs. In `bypass_video` starts and stops of both channels fall into every place
of the handler, before and after the disk is pulled; the remote control's
arithmetic is checked at both ends of the ADC, in the middle and at odd values.
The sticks, keys and switches are independent of each other, so that a handful
of positions that differ per stick covers them. In `rc_input` a VIEW forgets
`channels` while nothing reads it before writing it.

What the properties say:

* `net_repeater`: `DeliveredInOrder`, `WithinBlock` (no copy or send exceeds the
  heap block, although `buffer_size` serves as two things and `realloc_safe` may
  fail), `ImplementsChannel` (with its liveness: a refused frame is sent in the
  end, and none after it before).
* `usb_fifo`: `ImplementsQueue` (the accepted bytes, once and in order, never
  more of them pending than the slots hold) and `Drains` until an index passes the
  other; `PassesOnlyAtWrap` says when an index can pass the other one for the
  first time, and `ImplementsQueue` that this moves no byte; `LengthsHeld` says that
  until then the writer changes no length between two uses of it by the reader,
  so that each `memcpy` stays in its buffer. Afterwards it does: that, and that
  an index is passed at all (`usb_fifo_full`), is what the code does.
* `video_demux`: `InStep`, `ReachesChannel`, `EnabledUnlessOvertaken`,
  `AllHandedOver`. The exceptions are part of the statements: a cable pulled
  after a frame's header (`cut`) leaves the parser in the middle of the frame,
  where it may misread a length, go back in its chunk and parse the same bytes
  for ever,
  and a callback between enabling and clearing the flag (`overtaken`) leaves the
  channel off.
* `uart_bypass`: `CountsExactly`, `InOrderUntilOverflow`, `Drains`, and
  `ImplementsQueue`: the ring and the task's own buffer together are a queue of
  at most `RB_LEN + max_send_len` bytes until an overflow is logged;
  `uart_overflow` shows that what `ringbuf.h` promises for an overflow is gone.
* `rc_input`: `SticksInRange` under a half-done calibration,
  `CentredWhenCalibrated`, `PacketCarriesChannels` (the receiver's view of the
  bits against the sender's shifts).
* `search_id`: `FullTime` (no search is given up before its eighth tick),
  `FlagIsTrue`, `SearchEnds` with two exceptions, a timer that was never
  registered and an event handled late.
* `rt_uart`: `BehindNeedsWrap` (a chunk is stored behind the buffer only after
  more than `UINT8_MAX` bytes without a message, which is what the code does
  then), `InOrderUntilOver`, `NothingLostSilently`, `PutOutInTheEnd`;
  `rt_uart_stale` shows the message filled up with stale bytes.
* `upgrade`: `BlocksInPlace` (what the sky holds under a number was read at the
  place of that number in its file, in its turn or again; and in an upload that
  no other got in the way of, it is of this file and one of its numbers). Where
  uploads overlap, the task of the shorter file does send an empty block under a
  number of the other one's list, which its file has not got. Excepted is a file
  with more blocks than there are numbers: its blocks are sent over each other.
  `OkMeansComplete`
  ("upgrade ok" is logged only when the sky holds all of a good file; an upload
  that another one disturbed is excepted, because its flags may be answers to
  the other one), `UploadEnds`.
* `bypass_video`: `FileInStep`, `WritesEnabled` (with the exception the code
  makes possible: a stop between the choice of the buffer and the read),
  `FollowsChannel` (a start that selects another channel while a file is played
  is followed in the end; once an open has failed, nothing is played).

Every passing property is also run against a seeded error in the definition it
is about and is violated there.

Deadlock is checked in `net_repeater` and `rc_input`. In the others the model
stops where the code would wait for ever for input that the bounds do not
provide, or for a command that nobody gives (`CHECK_DEADLOCK FALSE`); in
`rt_uart` also where a timer could not be
started, which is the code's behaviour.

### Findings

1. `usb_fifo_full`: a full block FIFO whose reader stands at slot 0 is not seen
   as full; the writer wraps onto it and all blocks are lost.
2. `uart_overflow`: the overflow rule of `ringbuf.h` is commented out in
   `ringbuf_memcpy_into`.
3. `search_id`, `FullTime`: the "10 second" of the header and of the log is 80.
4. `rt_uart_stale`: dropped bytes are counted, and stale ones sent for them.

Three more are not runs. That an upload may send another file than the one
named is not a property that holds anywhere: the name is read again, after waiting
for the sky, through an argument that is gone and from a global that the next
command has overwritten (`test_upgrade.c:59`, `:177`); `Upgrade` has it as a
choice. That a file of 65536 blocks and more collides with itself is the
exception of `BlocksInPlace`; such an upload ends, and never with "ok". And one is
between two texts: `Inc/upgrade.h:77-84`
has `UPGRADE_GndSendEnd` return 1 on success and 0 on an error, and
`test_upgrade.c:119` repeats the call `while (0 != UPGRADE_GndSendEnd())`. The
function is in a library; `Upgrade` follows the caller, which would otherwise
never leave the loop.

## 4. Fairness and assumptions about time

* Tasks are weakly fair where a liveness property is checked: FreeRTOS runs
  every ready task (the higher ones sleep in `HAL_Delay` in every round).
  Handlers that have started run to their end. Nothing is assumed of hosts,
  users, or cables.
* `NetRepeater`: `SF` on `SendOk`: a link that is offered a message again and
  again takes it at some time.
* `SearchId`: a running timer ticks. `RtUart`: the baseband's transmit and
  receive interrupts come in every radio frame, a running timer fires, and the
  session can be read infinitely often.
* `UartBypass.Wake`: within the 4 ms that the task sleeps, a receive handler
  that it interrupted between the advance and the wrap of `head` gets to the
  wrap. Without this, TLC shows that the task can count more bytes than the ring
  holds, which is what the log line "len error" is for.
* `SearchId.TickGuard`: from `HAL_TIMER_Start` to its end the request handler
  takes less than the ten seconds of a tick.
* `Upgrade`: the tasks of the uploads run, and an answer that the link carries
  arrives. That the link delivers at all is the bound on what it loses
  (`MaxLosses`), not fairness. Timing: the task's first call falls within the
  100 ticks that the command waits before it returns (`CommandReturns`). About
  the library: `UPGRADE_Start` clears the status flags. No text in `src/` says
  so; it is the only call made before a new upload, and with the flags left set a
  second upload would log "upgrade ok" without waiting for the sky.
  `OkMeansComplete` rests on it.
* `BypassVideo`: a command ends, and the library calls a registered handler
  again and again. Nobody has to give a command or to touch the disk.

## 5. What is proved

Each theorem holds for every value of the constants, from the assumption that the
module names (`NetAssumption`, `RingAssumption`, `UpgradeAssumption`, ...) and
nothing else. Every safety property of a passing run is the statement of a
theorem. The arguments, module by module (obligations in parentheses):

**`NetRepeaterProofs`** (453), for every `MAX_BUFFER > 1`, set of frames, size
limit and number of frames. `DeliveredInOrder` is not inductive: that the next
send delivers the right frame depends on what the slots hold. `IInv` adds
`RingInv` (the accepted frames that are not yet removed are as many as the slots
from `rd_ptr` up to `wr_ptr`, modulo the size, and each of these slots holds its
frame, its length and a block at least as long), `BlockInv` (a block that exists
is as long as its record says: a failed growth leaves no block at all),
`SenderInv` and `InputInv` (what each side has sampled is still true: the
sender's index is `rd_ptr`, the ring is not empty while it sends; the slot after
the callback's is not the reader's from its test to its publication). A send that
succeeded and the store to `rd_ptr` are two steps; `Removed` counts the frame as
removed at the second, `delivered` at the first. `Refinement` shows
`Spec => Channel!ChanSafety`: `InputPublish` is an `Accept`, `SendOk` a
`Deliver`, every other step a stutter.

**`UsbBlockFifoProofs`** (2516), in two layers. `IInv` needs no order between
the indices: `WriterInv`, `ReaderInv` (each side's place, and an index one past
the end only between its increment and its wrap), `SlotInv` and `TakenInv`. It
gives `TypeOK`, also when one index has passed the other one and both go on, and
that the model ends (`torn`) before a length exceeds a slot. More is not claimed
of that time. `SoundInv` holds until the first passing. `ChainInv`: the used slots, from `First` up to the
writer's, hold the pending bytes as a chain, each block beginning where the one
before it ends, the first with the byte after those taken; `First` and `Hollow`
describe the moments in which an index stands one past the end. `StoringInv`:
from its test to its increment the writer has the reader behind it or at least
two slots ahead, and what it has stored are the next bytes. `TakingInv`: the
slot that the reader takes from is a used one; `HoldingInv`: its length and what was
copied from it are still those that the reader compared. With the writer elsewhere
they do not change, which is `Held`. `InOrder` follows, and `PassesAtWrap`, since the writer passes only where it wraps onto a reader at
slot 0, and the reader only while the writer's index stands one past the end.
`Refinement` shows that every step is a step of `ByteQueue` or none. Its capacity
needs a count of bytes over slots, without a sum: `Fits` says of each used slot
that from its first byte to the last one pushed there are at most as many bytes as
fit into the slots from there up to the writer. A push moves both sides by at most
a slot, the reader only shortens the left one.

**`VideoDemuxProofs`** (3244), for every set of payloads whose length fits into
an `int`, with four bytes of length, every set of chunk lengths, any number of
frames and of pulled cables, and all junk that contains no header and completes
none (`StreamAssumption`; junk with a header in it is parsed as a frame).
`TypeCorrect` covers what follows a misread header as well: `Piece` says that a
piece is a part of what is left, or what is left as a negative number.
`InStep` relates the parser to a stream that may
be cut anywhere, so that the invariant speaks of the whole stream: `StreamInv`
says that, as long as no cable was pulled inside a frame, there are a sequence `W`
(all that the host has sent since the last one was), a set `F` (where the frames
start in it) and a function `C` (how much payload for each channel is among the
first bytes) such that the unread part of the chunk and what is still on the cable
are the end of `W` (`Unread`), the parser's state, channel and counters say where
in `W` it is (`Place`: outside all frames or in a marker, in a length, in a
payload), and what each channel is still owed is the payload behind that place
(`OwedAt`). The host's steps extend `W`; each branch of the parser moves the place
by one byte or by what it hands over. `SwitchInv` and `ReachInv` relate the plug
flags to the channels: a flag that is clear, or about to be cleared, belongs to an
enabled channel, unless the callback has overtaken the parser.

**`UartBypassProofs`** (687). `IInv` is `TypeInv`, and until an overflow
`RingInv`: `PointersInv` (the distance from tail to head is what was published
and not popped, except for an empty ring whose tail was wrapped before its head,
when the task is about to wait until the handler has wrapped head as well),
`HandlerInv` and `TaskInv` (what each side holds of the other's pointers is still
sound: space can only have grown, bytes can only have become more), `DataInv`
(what ring, task buffer and message hold is the received bytes from `offered`
on). `Refinement` shows that every step is a step of `ByteQueue` or none: that a
`Put` stays within the capacity follows from `HandlerInv`, since what the handler
has still to publish fits into the ring.

**`RemoteControlProofs`** (1320), first part: `RcInput`, for every set of stick
positions, gears and keys. Scalar lemmas about one stick carry the argument: each
sample of the calibration halves the distance between the average and the stick,
so that ten samples bring the at most 1023 down to one; the filter moves a value
to at most one from a stick that stands still; the limiter maps every sum of stick
and calibration that can occur, cut to sixteen bits, into eleven. `IInv` says how
far calibration and filter have come (`SamplesInv`, `OffsetInv`, `SenderInv`).
`InRange` then holds under every half-done calibration, and `Centred` gives 1000
to 1004 after a finished one, for all 1024 readings. `Carried` holds for all values
of the sixteen channels: a channel occupies at most three bytes of the packet, in
one of eight alignments; one lemma for each alignment (`WindowAt0` ... `WindowAt7`)
takes the bytes apart by division and remainder, and `ChannelReceived` finds the
bytes of each channel in the packet.

Second part: `SearchId`. `FlagInv` (a flag that is set means a running timer,
except inside the handlers that are about to change one of the two) and `LoopInv`
(`timeout_loop` is at most the ticks of the search under way).

**`RtUartProofs`** (929), for every number of bytes received. The invariant is over `Whole`, the concatenation of what
was put out, what the session carries and what is collected: until a chunk is
dropped it is an increasing sequence of received bytes (`OrderInv`), and while no
message was refused either, it is all of them (`CompleteInv`). `CountInv`: as long
as at most `UINT8_MAX` bytes came since the last message, the count is their
number; that gives `BehindNeedsWrap` (theorem `NeedsWrap`), since a sum that has
not wrapped passes the length test only when the chunk fits.

**`BypassVideoProofs`** (147). `FileInv` (the flag `fileOpened` says what the file
object is), `SelectedInv` (the channel selected is enabled while the handler is
registered, except inside a command) and `BufferInv` (the same for the buffer
chosen, until a stop).

**`UpgradeProofs`** (1693), for every size of file, also of more blocks than there
are numbers, in two layers again. `IInv`: the type facts, `PlaceInv` (a task that
sends has one file open and stands within it; while it sends in turn its position
is a multiple of the block's size, and the number of its next block is that
multiple, modulo `UINT16`) and `SkyInv` (a block that the sky holds was read at the
place of its number; a read in turn needs `PlaceInv` for that, a read for a lost
block the seek before it, `ResendFrom`). `AloneInv`: an upload
that nothing has disturbed (`Undisturbed`) is the only task that runs; until its
last block is sent no answer but INIT is on its way or in the flags; the sky
forgot its blocks when it answered the first notice, so that what it holds is of
this file, and so are the numbers in its lists, those on their way and those the
task still has to send again (`Listed`), which the second part of `InPlace` needs; and END, on its way or set, means that it holds the whole of a good
file. `OkComplete` is the action property from there.

Only model-checked: liveness (the fairness part of `ImplementsChannel`, both
`Drains`, `AllHandedOver`, `SearchEnds`, `PutOutInTheEnd`, `UploadEnds`,
`FollowsChannel`), since fairness and ENABLED are beyond the prover.

## 6. Plan

Done: all components that run in this build and keep state of their own – the
repeater, the block FIFO, the demultiplexer, the byte ring, the remote control,
pairing, the real-time UART, the upgrade, the bypass video; abstract
specifications for the repeater, the byte ring and the block FIFO, with
refinements that are proved; proofs of every safety property that a run checks.

Left:
1. An abstract specification of the demultiplexer (two queues of payload fed by
   one stream), for whose refinement `StreamInv` is the invariant already.
2. If the device list of `test_search_id_by_rssi.c` is ever built in: add,
   evict, nearest and reset with 8-bit averages; ids unique, the newcomer
   replaces only a farther device.

No module uses recursion, so that each can be proved about.

## 7. What is not modelled, and why

The models cover the concurrent and stateful part of the application and a small
share of the lines of the tree. Most of its lines have no behaviour to model:
headers of the kernel, the processor core and lwIP under `Inc/` (`core_cm7.h`,
`task.h`, `queue.h`, `lwip/opt.h`), register tables of camera and HDMI drivers,
the second tree `src/AR8020SDK_00.01.15` with the same application, and the
demonstrations.

* The libraries (HAL, baseband, FreeRTOS, wireless interface, SRAM video path,
  upgrade): binary. They appear as nondeterministic answers.
* USB commands as a second writer or reader of the UART rings, a second start
  of the network repeater, a mode change while running: these break the
  one-producer, one-consumer use for which the buffers are written; the hazards
  are listed, there is no claim of the code to check.
* The other hazards of the list without a property, each with its reason there:
  what a concurrent call does inside a library (`bb_send_semaphore`), the order
  in which session 1 is registered, a task function that returns
  (`test_upgrade.c:63`), the name read through an argument that is gone (`:59`).
* What follows a store or a copy outside a buffer: the models of the block FIFO
  and of the real-time UART end there (`torn`, `behind`), after properties that
  say when it cannot happen.
* Hazards that are properties in part: a message that the baseband refuses was
  already taken from the FIFO and is lost (`usr_usb_task.c:526`; `UsbBlockFifo`
  ends at the read); packets sent with half-done corrections
  (`main_ground.c:355`; `SticksInRange` says only that they are in range).
* In `UPGRADE_LocalUpgrade` (command `upgrade`) the task is two calls of a
  library; `Upgrade` has its write to `path` only.
* In `USBH_BypassVideo`, the branch for a file that is open at IDLE: no state
  reaches it, since each way to IDLE closes the file; it is part of `OpenFile`.
* Pairing by signal strength: in no Makefile of `cpu0`, nothing calls it.
* Console and CDC bridges, sky repeater, LED, signal quality, PC reply, sleep
  mode: forward or show what they get, without state of their own.
* USB host camera (UVC), SD card, board test: sequences of driver calls.
* `Application/px_*.py`, `Inc/lwip`, camera drivers, `ConfigData`, start-up
  assembler, the demonstrations `test_os_*`, `test_hal_*`: third-party,
  generated, tables, or one-call examples.
