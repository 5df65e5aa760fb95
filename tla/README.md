# TLA+ models of signet-base

This directory holds TLA+ models of the parts of signet-base where the
order of events matters. Each model is checked with TLC. The host library
`libsignetdev` talks to the Signet device over raw HID. The firmware
(`firmware-hc/`, `firmware/`) runs a main loop that interrupts feed.

## 1. Inventory

### Components, their state and their operations

| Component | Source | State | Operations |
|---|---|---|---|
| Linux transaction engine | `src/signetdev/host/signetdev_linux.c` | `g_connection` (fd, message queue, cancel queue, `tx_state`, `rx_state`), `g_opening_connection`, `g_emulating`, the epoll and inotify fds | `handle_command` (EMULATE_BEGIN/END, OPEN, CLOSE, MESSAGE, CANCEL_MESSAGE, QUIT), `command_pipe_io_iter`, `raw_hid_io` (dequeue, `attempt_raw_hid_read`, `attempt_raw_hid_write`), `attempt_open_connection`, `inotify_fd_readable`, `handle_error`, `handle_exit` |
| Unix facade | `src/signetdev/host/signetdev_unix.c` | the command and response pipes, the worker thread | `signetdev_open_connection` (synchronous), `signetdev_close_connection`, `platform_init`, `platform_deinit` (QUIT + join) |
| Windows transaction engine | `src/signetdev/host/signetdev_win32.c` | the same queues and Tx/Rx state, `g_device_handle`, the overlapped read/write, a 128-entry command ring, `g_quitting`, `g_open_request_pending` | `state_iter`, read completion, write completion, command drain, `signetdev_open_connection`/`close_connection` (caller thread), `filter_window_messasage` (window thread) |
| HC firmware main loop | `src/firmware-hc/main.c` | `g_work_to_do` (shared with ISRs), button state and timestamps, blink state, timer target | button debounce (100 ms press, 2000 ms long press), `blink_idle`, `start_blinking`, `timer_start`/`timer_stop`, the timer check, the work LED, the boot modes (set-up loop, memory test) |
| USB mass-storage BOT | `src/firmware-hc/usbd_msc_bot.c` | `bot_state`, CBW, CSW (`dDataResidue`, `bStatus`) | CBW decode, data in/out, `MSC_BOT_SendData`, CSW send, abort/stall |
| Flash driver | `src/firmware/flash_l443xc.c` | `flash_state` (IDLE/ERASING/WRITING), write pointer and count | `flash_write_page`, `flash_write`, `flash_handler` (interrupt), `flash_idle` |
| AES helpers | `src/firmware-hc/signet_aes.c` | none of their own: they read and write the caller's buffers | `signet_aes_{128,256}_encrypt`/`_decrypt` (one block), `xor_block`, `signet_aes_{128,256}_encrypt_cbc`/`_decrypt_cbc` |
| Headers | `src/commands.h`, `src/config_f303xc.h` | none | constants |

### How they interact

Application threads call the facade. On Linux the facade writes
`<command, pointer>` envelopes into a pipe. Only the OPEN and EMULATE_BEGIN
commands read a one-byte answer back from a second pipe. One
transaction thread owns all engine state. It drains the pipe, then runs
`raw_hid_io` until both read and write would block, then sleeps in
edge-triggered `epoll_wait`. The thread wakes on the pipe, on an inotify
watch of `/dev`, or on the device fd. Messages are finalized through
`signetdev_priv_finalize_message`, which is shared code outside `src/`. A
message is finalized on the write completion (no response expected), by
`process_rx_packet` (response), by `handle_error` (disconnect), or by
`handle_exit` (quit). The Windows engine has the same queues. It is driven
by three events instead: read done, write done and command. The open and
device-removal paths run on other threads there. The device is the
counterpart: it consumes packets and answers each message that asks for a
response.

### What is hard

- A message is finalized along several paths: write completion,
  response, error and quit. A response can arrive between the last
  packet's write and the step that clears `tx_state`.
- Close and reopen, unplug and replug, each interleaved with queued and
  in-flight messages. The reopen `memset` wipes the queues.
- Edge-triggered wakeups. A consumed edge with unfinished work means the
  thread sleeps forever.
- A full device buffer (`EAGAIN`) after the Tx state has already advanced.
- Responses the device still owes a message that belonged to an earlier
  connection.
- On Windows: three threads touch `g_device_handle`, a write completion
  clears Rx, and the command ring has no full check.
- In the firmware: interrupts against the main loop, tick wrap and
  integer edges.

### What makes each component correct

- Engine:
  - each accepted message is finalized exactly once, eventually, by its own
    response;
  - normal messages go out in order, one at a time while a response is
    awaited;
  - packets reach the device in order.
- Facade: a synchronous caller gets the answer to its own command, and
  QUIT finalizes everything outstanding.
- Flash: a write request is either performed with a completion callback or
  refused visibly.
- BOT: the residue equals requested minus transferred bytes.
- Main loop: a press is reported once, a long press after 2 s, and the
  timer fires once after its delay.

## 2. Plan

Modules, in the order they are written:

1. `SignetdevLinux` + `MCSignetdevLinux` (done): the Linux engine, the
   Unix facade, the device and `/dev` as environment.
2. `SignetdevWin32` + `MCSignetdevWin32` (done): the Windows engine with
   its three event handlers, the command ring and the window-thread open
   and remove paths.
3. `FlashL443` (done): the flash state machine with the interrupt as a
   separate actor, shown to refine the abstract `FlashService`
   (`flash_safety`).
4. `MessageTransport` (done): the abstract promise of the engines. The
   Linux engine is shown to refine it on an open connection (`linux_live`).
   The Windows engine breaks it (see the findings), so no refinement
   of it is checked.
5. `MainLoop` (done): the button, the blinker, the timer and the work
   LED over a tick that wraps, and the set-up loop and memory test at
   boot.
6. `MscBot` (done): the BOT state machine of `usbd_msc_bot.c` against a
   BOT host, with its residue at a bounded width.
7. `SignetAes` (done): the AES helpers on a memory of blocks reached
   through pointers, the CBC loops against the textbook CBC definition.

## 3. Modules

### SignetdevLinux

State:

- facade: `pipe`, `respPipe`, `caller`, `submitted`, `ctl`;
- engine: `pc`, `opening`, `emulating`, `fd`, `queue`, `cancelQ`, `tx`,
  `rx`;
- kernel: the pending inotify events `ino`, and the EPOLLET edges
  `inoEdge` and `ioEdge`;
- device: `node`, `linked`, `plugs`, `wire`, `owed`, `devOut`;
- history for the properties: `got`, `fin`, `enqOrder`, `dispatched`.

The thread's loop is cut where the code returns to it. `pc` takes the
values `cmd`, `deq`, `read`, `write`, `wait` and `exited`. One action
stands for each `handle_command` case, each of the three parts of one
`raw_hid_io` call, and `epoll_wait` with its handlers.

`signetdev_priv_*` helpers that live outside `src/` are modelled from the
spec: finalize, prepare and process one-packet responses. The advance step
is assumed to build the next packet before it is written, as its call site
shows. Message payloads are abstracted to their packet counts (`Packets`).

### SignetdevWin32

State:

- caller side: the ring `slots` and `head`, the command and response
  events `cmdEv`, `respEv`, `cmdResp`, and `caller`, `submitted`, `ctl`;
- thread: `pc` (`wait`, `drain`, `faulted`, `exited`), the drain cursor
  `idx` and the snapshot `entries`, `quitting`, `emulating`;
- connection: `pendingOpen`, `wantOpen`, `queue`, `cancelQ`, `tx`, `rx`,
  `handle`, the overlapped read `rd`/`readEv`/`rdPkt` and write
  `wr`/`writeEv`/`wirePkt`;
- device and window thread: `node`, `linked`, `plugs`, `owed`, and
  `winMsgs`, the pending `WM_DEVICECHANGE` messages;
- history: `got`, `fin`, `enqOrder`, `dispatched`.

The connection state is also viewed as one record `S`. The code's helpers
(`handle_error`, `request_next_packet`, `state_iter`, the Rx packet step)
are operators from record to record, composed inside the action that calls
them; `Commit` assigns the result. `WaitForMultipleObjects` returns the
lowest signalled index, so `ReadDone` is enabled whenever the read event
is set, `WriteDone` only when it is not, and `CommandWake` only when
neither is. The drain takes one ring entry per step, so the caller may
write into the ring while it is drained, as in the code. Open and close run
on the caller thread, and the window thread handles `DBT_DEVNODES_CHANGED`
and `DBT_DEVICEREMOVECOMPLETE`. The uninitialized `rc` in
`filter_window_messasage` is a free choice of zero or non-zero. Pending
overlapped I/O of a closed handle completes with failure and sets its
event, so a completion may be handled after a reopen.

### FlashL443

State: `flash_state`, whether `flash_write_data` is NULL (`data`),
`flash_write_count` (`count`), the FLASH_CR bits PG, PER, EOPIE and LOCK,
the controller's erase (`hw`), and the FLASH_SR bits EOP and one sticky
error flag (`srErr`). The history is the kind of the request being served,
the doublewords it asked for (`want`) and programmed (`prog`), the count
of accepted requests (`acc`) and the callbacks made (`answers`).

The client's calls and `flash_idle` run in the main loop. They are
enabled only while no flash interrupt is pending (`Irq`), because the
interrupt preempts them. `flash_handler` is the interrupt. It acts only
in `FLASH_ERASING`. In any other state it returns without clearing the
flag, and the flag raises it again. `flash_write_state` is one step per
`flash_idle` call: it programs up to `Chunk` doublewords, or fails at
one of them. The controller ends an erase with EOP, which is set only
while EOPIE is, or with an error. Pointers and buffers are abstracted to
counts.

`FlashService` is what the driver promises its client. It takes a request
only when idle, and programs the buffer in steps, never more than it was
given, and nothing for an erase. Each request ends with one callback that
leaves the driver idle, and "ok" comes only after the whole buffer. A
failure may come at any point. `FlashL443` instantiates it with
`busy <- flash_state # "IDLE"` and `done <- prog`. `FlashRefined`
(`Service!Spec`) then says every step of the driver is a step of the
service or leaves it unchanged. The erase interrupt and the controller's
steps are such stuttering steps.

### MessageTransport

The abstract promise of an engine, with no queues, packets or device:
callers hand messages over (`Accept`); normal messages go to the device
one at a time, each only after every earlier one is finalized (`Start`);
each message is finalized once, with "ok" by its own response or the
emulator's answer, or with a disconnect or quit status (`Complete`).
Cancel messages (`Interrupt`) bypass the one-at-a-time rule.

`SignetdevLinux` defines `Transport == INSTANCE MessageTransport WITH
accepted <- submitted, order <- dispatched`; `fin` maps to itself. The
engine's history variables are the refinement mapping: `submitted` grows
when a caller writes MESSAGE to the pipe, `dispatched` when a normal
message is taken into Tx, and `fin` when it is finalized. `linux_live`
checks `Transport!Spec` as the property `TransportRefined`.

### MainLoop

Models `main.c`'s loop and the functions it shares with the command
code. State: `tick` (`HAL_GetTick()` as an `int` of `TickBits` bits),
`g_work_to_do` as a set of work bits, `g_ms_last_pressed`,
`s_button_state`, `s_timer_target`, `s_blink_state` without the LED
phase and the seconds countdown sent to the host, and `main()`'s locals
`work_led_state` and `work_led_off_ms`. The environment is the
finger (`down`, and `opening` while the contacts bounce after a
release). History: `edges`, `calls`, the callbacks of the last pass
(`fired`), the ticks since the timer was armed (`armedAt`, `delay`), the
unpaused run time of the blinker (`ranFor`), whether a press happened
since the last one was reported, and `lag`.

Actions: `Tick`; the finger's `Press`, `Bounce` and `Release`, each edge
running `BUTTON_HANDLER`; `timer_start`, `timer_stop`, `start_blinking`,
`pause_blinking`, `resume_blinking` (which runs `blink_idle`) and
`stop_blinking`, called by the command code between passes; and
`OtherBegin`/`OtherEnd`, another component setting and later clearing
the work bits that light the work LED (`KEYBOARD_WORK`,
`SYNC_ROOT_BLOCK_WORK`, `FLASH_WORK`, one bit `OTHER` here; their code is
not under `src/`); and `MainPass`, one pass of the `while (1)` body. The
pass reads the tick once, runs the work LED (`WorkLed`: it sets
`WORK_STATUS_WORK` when the LED lights and clears it only once the LED
goes out with the blinker off), the timer check, `blink_idle` and the press, release and
long-press tests in the code's order. Each step is an operator from
state to state: `TimerDue`, `BlinkIdleState`/`BlinkIdleWork`,
`PressStep`, `ReleaseStep` and `LongStep`. Sums and differences of ticks
wrap through `Wrap`, as `int` arithmetic does on the Cortex-M7. The
pass runs only while `g_work_to_do` is non-empty, as the code sleeps in
`wfi` otherwise.

`phase` says where `main()` is. When `is_erased_root_page()` finds the
root page erased, `main()` runs the set-up loop of lines 517-553 before
anything else. `Init` picks either case. `SetupPass` is one iteration of
that loop, which polls without sleeping. A new press is counted in
`press_count`, and the release test acknowledges every
`SetupPresses`-th press: the delay of `HAL_Delay(400)` and
`busy_blink_once(100)` is the phase `delay`, left by `DelayDone` once
`SetupDelay` ticks have passed (`Waiting`, the unsigned test of
`HAL_Delay`). A press held past `LongPress` leaves the loop. The root
block is then written, and `main()` ends in `busy_blink`, which never
returns (phase `done`, where only the tick and the finger move). The
command code and the other components start with USB, after this loop,
so their actions need phase `loop`.

When `is_memtest_root_page()` finds the root page filled with 0x80, a
build with `ENABLE_MEMORY_TEST` runs the memory test (phase `memtest`,
lines 555-569 and `emmc_compare_test`, lines 360-423). `Init` issues
the write of block 0. `MemtestDmaDone` is the eMMC finishing the
transfer in flight and its DMA callback setting `WRITE_TEST_TX_WORK` or
`READ_TEST_TX_WORK`. A read may return data that differs from what was
written. The card owes no completion: a hung card is what the timeout
is for. `MemtestPass` is one iteration of a wait loop. It tests the
deadline `ms > ms_start + 1000` first, then the completion bit,
clearing it with `END_WORK` (`EndTestWork`). After a read it runs the
`memcmp`, and then it issues the next transfer or ends the test. A
failure (rc 2, 4 or 8) ends in `busy_blink`. A pass sets
`memory_test_mode`. With `Fido2` (a build with `ENABLE_FIDO2`) that
also ends in `busy_blink`; otherwise the main loop starts. `mt_ok`
records the transfers the card completed (for a read, with the right
data).

`LoopView` is the view that `main_loop.cfg` gives TLC. It leaves out
two kinds of state:

- the history that only the properties of other configs read;
- values the code overwrites before it next reads them:
  `g_ms_last_pressed` with no press held or pending, the blinker's
  start and duration while it is stopped, its pause start while it is
  not paused, and `work_led_off_ms` while the LED is lit or
  `WORK_STATUS_WORK` is clear, and the memory test's state outside
  phase `memtest`.

No action reads either kind of state, so states that agree on the view
have the same futures. `MemtestPassesOnlyVerified` is an action
property, checked on each step as TLC takes it, so the view does not
hide the step that leaves the memory test. The view brings the run from
2.2M distinct states to 153k, or 246k with the memory test.

### MscBot

Models `usbd_msc_bot.c`, the Bulk-Only Transport of the HC firmware's
mass-storage interface, against a host that runs the BOT protocol. State:
`hmsc`, the fields of `USBD_MSC_BOT_HandleTypeDef` that the code reads
(`bot_state`, `bot_status`, `cbw`, `csw`, `bot_data_length`, and SCSI's
`scsi_blk_len`); `ep`, the two bulk endpoints (the buffer a prepared
receive fills, the stall bits, the transmission waiting on IN); the
host's OUT transfer not yet taken (`outPkt`), its phase, CBW, the bytes
it has moved (`xfer`) and whether it already retried a stalled CSW read.
`lastCsw` keeps the last CSW the host accepted, with its CBW.

Every function of the file is an operator from device state to device
state (or to the set of them, where SCSI has a choice):
`MSC_BOT_Init`, `MSC_BOT_Reset`, `MSC_BOT_DeInit`, `MSC_BOT_DataIn`,
`MSC_BOT_DataOut`, `MSC_BOT_CBW_Decode` (with `DecodeInvalid`,
`DecodeProcess`, `DecodeOk`), `MSC_BOT_SendData`, `MSC_BOT_SendCSW`,
`MSC_BOT_Abort` and `MSC_BOT_CplClrFeature`. The actions are the USB
events that call them: `DataOut` (an OUT transfer completes into the
prepared buffer), `DataIn` (the host reads IN), and the host's steps
`SendCBW`, `SendDataOut`, `OutStalled`, `InStalled` (clear the halt and
retry the CSW once), `HostTimeout`, and Reset Recovery (`BotReset`,
`ClearIn`, `ClearOut`) or a port reset (`MSC_BOT_DeInit` then
`MSC_BOT_Init`).

`usbd_msc_scsi.c` and `usbd_msc.c` are not under `src/`. They are
modelled from ST's library at the interface this file uses:
`ScsiProcessCmd` fails (leaving `bot_state` IDLE, or NO_DATA for a
zero-length command), or replies with at most the CDB's allocation
length, or runs a READ/WRITE burst `Chunk` bytes a step, taking the
residue down by what it moved. `ClearFeature` clears the stall and
flushes the endpoint before `MSC_BOT_CplClrFeature`. A CBW is a record
with its tag, length, direction, the CDB's allocation length and
whether it passes the decode tests; payload bytes are not modelled.

### SignetAes

Models `signet_aes.c`. The helpers keep no state (`signet_aes_init` is
empty); what they change is the caller's memory, so the state is `mem`,
a function from block addresses to blocks, and `last`, the last call
with its arguments and the blocks it read (history, for the
properties). A pointer is a block address or `NULL`, so `iv`, `din` and
`dout` can point into each other's buffers as they can in C.

nettle's AES is not under `src/`. `Cipher` is a permutation of the
blocks for each key size and key, and `Decipher` its inverse; a block
has `BlockBits` bits. `xor_block` is the loop of the code on a whole
block (`NULL` mask copies). The two CBC loops, `EncryptCbcLoop` and
`DecryptCbcLoop`, are RECURSIVE operators, one iteration per call,
doing the code's reads and writes in its order: `iv` becomes `dout`
after encrypting and `din` after decrypting, and both pointers move on.
The 128- and 256-bit functions differ only in the key size, a parameter.

The actions are the calls: `CbcCall`, `BlockCall` and `XorCall`, from
every memory, with every key size, key, length up to `MaxBlocks` and
pointer. `Layout` is the caller's contract: buffers lie in memory, and
input and output are disjoint or the same buffer for encryption; an
`iv` may point anywhere. `CbcEncrypted`/`CbcDecrypted` are the
definition of CBC over sequences, the reference the loops are
compared with. One call is made per behaviour, then `Done` stutters:
with no state kept between calls, a second call starts from a memory
the first already covers.

## 4. Runs

| Run | Expect | What it shows |
|---|---|---|
| `linux_safety` | pass | A normal message never starts while a response is awaited. Normal messages leave in queue order. This holds under plug, unplug, open, close, reopen (with late responses arriving on the reopened connection), emulation and quit. |
| `linux_live` | pass | On an open connection every queued message is eventually finalized, and the engine refines `MessageTransport`. |
| `linux_double_finalize` | violation | A response arrives before the write step clears Tx. A read error then finalizes the message a second time. |
| `linux_lost` | violation | The reopen `memset` drops queued and in-flight messages. |
| `win_safety` | pass | Normal messages leave in queue order, and a command in the ring is never lost while the ring has room, under all caller, window and device operations. |
| `main_loop` | pass | The loop never sleeps with a held button, an armed timer, a running blinker or a lit work LED, a long press is reported, and the set-up loop of an erased root page ends, only while the button is held, and a held press always ends. This holds with bounces, timer and blink calls, other work lighting the work LED, and the tick wrapping. A running blinker with a duration times out unless it is paused, stopped or restarted first (`BlinkTimesOut`). The memory test passes only after the card has completed the write of every block and a read of every block that returned what was written, with a card that may hang or return wrong data. |
| `main_phantom` | violation | A bounce of the contacts after a release that was already seen is reported as a new press (`main.c:707`). The set-up loop counts such a bounce as a press (`main.c:524`). |
| `bot_safety` | pass | Under valid and invalid CBWs of both directions, SCSI failures, stalls, Reset Recovery, port resets and host timeouts, a PASSED CSW reports as residue exactly the bytes that did not cross the bus, and an invalid CBW is never answered PASSED. |
| `bot_recovery` | violation | After one Reset Recovery `bot_status` stays RECOVERY, and a command the device aborts is never answered: `MSC_BOT_CplClrFeature` sends no CSW (`usbd_msc_bot.c:276`). |
| `bot_residue` | violation | A reply longer than `dDataLength` is cut to it, but the residue is taken down by the full length and wraps. The CSW says PASSED with residue 7 of 3 bits (`usbd_msc_bot.c:205`). |
| `aes_cbc` | pass | For both key sizes, every memory and every placement of `iv`, input and output, the CBC loops compute the textbook CBC encryption and decryption of what the input held, and no helper writes outside its output buffer. |
| `flash_safety` | pass | Under erase and program failures, the driver implements `FlashService` (`FlashRefined`): every accepted request gets exactly one callback, the driver is busy exactly while it is unanswered, an erase programs nothing, and a write reports success only after all its doublewords are programmed. PG, PER and EOPIE follow the driver state on every path (`ControlBitsFollowState`). |

### Further violations

The models state more properties that the code breaks. They are
not among the runs, so that each run answers its own question; each is
found by giving the property to TLC under its module's base bounds,
changed as noted beside it.

- `PacketsInOrder` (Linux, `linux_eagain.cfg`):
  `signetdev_priv_advance_message_state` runs before `write()`, and on
  `EAGAIN` nothing is rewound, so the packet just built is skipped
  (`signetdev_linux.c:118`).
- `CbcMatchesReference` (AES, `aes_inplace.cfg`, `InPlaceDecrypt =
  TRUE`): the decrypt loops chain with `iv = din`, a pointer into the
  input. When `dout == din` that block already holds plaintext, and
  every block after the first decrypts wrongly (`signet_aes.c:70`,
  `:83`). In-place encryption is correct. Whether a caller decrypts in
  place cannot be told from `src/`.

- `QuitFinalizesAll` (both engines): QUIT leaves queued and in-flight
  messages unfinalized (`signetdev_linux.c:72`, `signetdev_win32.c:206`).
- `CompletedByOwnResponse` (Linux): after a reopen, an answer the device
  still owes an old message completes a new one (`signetdev_linux.c:139`).
- `FinalizedAtMostOnce` (Windows): the read event is served before the
  write event, so a response finalizes a message still in Tx and a failed
  next write finalizes it again (`signetdev_win32.c:227`, `:54`).
- `NoMessageLost` (Windows): a cancel message whose send fails is dropped
  by `handle_error` (`signetdev_win32.c:43`); Linux has the same shape at
  `signetdev_linux.c:44`.
- `OpenOnArrival` (Windows, `EnvOps = {"OPEN", "PLUG", "OTHER"}`): the
  uninitialized `rc` in `filter_window_messasage` clears the pending open,
  and a device that arrives later is never opened (`signetdev_win32.c:376`).
- `OpenOnArrival` (Linux, `linux_discovery.cfg`): two inotify events in
  one read give the path `/dev/hidrawNsignet`, and the open never
  happens (`signetdev_linux.c:309`).
- `TimerNotEarly` (main loop): `timer_start` stores the absolute target
  `ms_count + ms`. Past `INT_MAX` it wraps negative, and the next pass
  fires `timer_timeout` at once (`main.c:162`, `:685`). A target that
  lands on 0 or `INT_MAX` never fires, and `TIMER_WORK` keeps the loop
  awake for good. `blink_idle` compares differences of ticks and does
  not have this problem.
- `WorkLedGoesOff` (main loop, `main_workled.cfg`): when the other work
  ends, `work_led_off_ms = ms_count + 10` (`main.c:673`). A blink
  started before that deadline holds off the test at line 676. If the
  tick wraps past `INT_MAX` meanwhile, `ms_count < work_led_off_ms` holds
  for another 2^32 ms: `WORK_STATUS_WORK` keeps the loop from sleeping and
  the LED lit for about 49 days. This is the wrap of `TimerNotEarly` in
  another absolute comparison.
- `BlinkNotEarly` (main loop, `MaxCalls = 3`): `start_blinking` does
  not clear `blink_paused` (`main.c:241`). A blinker started while
  paused is frozen with `BLINK_WORK` set. `resume_blinking` then shifts
  its start by the time since the old pause, so the blink runs longer
  than its duration. If that time is past `INT_MAX` (24.8 days on the
  device) it times out early.
- `EraseProgramsNothing` (flash, with `ErrIE = FALSE`): `flash_write_data`
  is never reset, so a `flash_erase` after a failed write goes on to
  program the rest of that write's buffer (`flash_l443xc.c:77`).
- `AcceptedAnswered` (flash, under `LiveSpec`): an erase on a controller
  that is still locked never starts (`flash_l443xc.c:35`), and the error
  bits are never cleared, so with ERRIE set the interrupt is raised for
  ever and the main loop starves (`flash_l443xc.c:53`).
- `RxReleasedOnlyByFinalize` (Windows, `win_cancel_rx.cfg`): the write
  completion of a cancel message sets `g_rx_state.message = NULL`
  while another message awaits its response (`signetdev_win32.c:262`).
- `NoNullDereference` (Windows, `win_null_deref.cfg`): a write completion
  left over from a closed connection is handled after a reopen, with Tx
  cleared, and reads `g_tx_state.message->resp` (`signetdev_win32.c:250`).
- `QueuedEventuallyFinalized` (Windows, `win_stall.cfg`): the write
  completion handler never calls `state_iter`, so a queued message
  waits for an unrelated event (`signetdev_win32.c:258`).
- `RingHoldsSubmitted` (Windows, with `RingSize = 2`): the ring has no
  full check, and a full ring wraps onto its tail (`signetdev_win32.c:166`).

### Bounds

There are three messages:

- `m1`: two packets, expects a response;
- `m2`: one packet, no response;
- `c1`: a cancel message.

Together they give a two-message queue, a cancel that overtakes it, a
multi-packet message, and one message of each finalize path.

- `MaxCtl`, the number of control commands: 3 in `linux_safety`, enough
  for OPEN, CLOSE, OPEN; 2 elsewhere.
- `MaxPlug`: 1 plug or unplug event in `linux_safety`, 2 in most violation
  runs (3 in `linux_discovery`, 0 in `linux_live`).
- `WireCap`: the device buffer holds one packet in the safety runs, so
  that `EAGAIN` happens. It holds four in `linux_live`, where the device
  keeps up, because the `EAGAIN` skip is its own finding.
- `RingSize`: the Windows ring has 128 entries. The pass run uses 8,
  more than the commands the bounds allow, so the ring never fills
  there. With 2 the ring wraps, which in the code takes 128 commands queued
  before one drain.
- Flash: byte counts 0, 8 and 17 (0, 1 and 3 doublewords) with
  `Chunk = 2` in place of 32. A write then spans two `flash_idle` calls,
  as a page of 256 doublewords spans eight. Up to four requests are
  accepted, enough for a failure followed by further requests. `ErrIE`
  is TRUE, so the handler's no-EOP branch is reached; the code that sets
  ERRIE is not under `src/`.
- AES: `BlockBits = 2` (4 blocks, in place of 2^128), `Addrs = 5`,
  `MaxBlocks = 3`, `Keys = {0, 1}`. Three blocks are the fewest for
  which the second chaining step reads a block the first wrote or
  moved past, and five addresses place an `iv` before, inside or after
  buffers of two or three blocks that are disjoint or coincide. Every
  initial memory is enumerated.
- Main loop: `TickBits = 3`, so ticks run from -4 to 3 and wrap every
  8 ms. The code's thresholds are scaled down with the width:
  `Debounce = 1` for 100 ms and `LongPress = 2` for 2000 ms. Both stay
  below `INT_MAX` = 3, as 100 and 2000 are far below 2^31. There are
  two edges (a press and one bounce) and two calls of the command code
  (a start and a pause or resume, or two timer calls); a work period of
  another component counts as one of them. `WorkLedOn = 2` and
  `WorkLedOff = 1` stand for 40 and 10 ms. `SetupPresses = 2` stands
  for 5, so that two edges can reach the acknowledgement, and
  `SetupDelay = 2` for 500 ms. `NrBlocks = 2` blocks, so that one
  block's wait follows another's, and `MemtestTimeout = 2` for 1000 ms.
  At 3 bits the tick can wrap during the memory test; on the device it
  starts near 0 at boot and cannot. The wrap only makes the test fail
  early, and the property is about a test that passes. `Fido2 = FALSE`,
  so a passing test enters the main loop. `MaxLag = 1`: a
  pass runs before each tick of the clock while there is work.
  `main_phantom` makes no calls.
- `MscBot`: `Lengths = {0, 1, 2}` with `Chunk = 1` gives zero-length
  commands, one-step replies and two-step READ/WRITE bursts, so a burst
  can fail part-way. `ResidueBits = 3` keeps the wrap of the residue
  observable (2^32 is past TLC's integers). `MaxCmds = 3`: a command
  that leads to a Reset Recovery, then one that runs after it.
  `bot_recovery` uses `Lengths = {0, 1}`, and `bot_residue` one command
  with `Mismatch = TRUE`.
- `EnvOps`: each run enables only the caller and device operations its
  question needs.

### Fairness

`linux_live` assumes weak fairness of the transaction thread (`Engine`) and
of the device (`Device`). The thread runs whenever it is not blocked, and a
device that is plugged in consumes packets and answers. Callers, plugs and
unplugs get no fairness: a user may never act.

The Windows module assumes weak fairness of the transaction thread, the
window thread's message pump and the device. Its liveness property is violated
(`win_stall.cfg`, further violations), so the fairness gives that trace
no way out: the stall is real, not a missing step.

`FlashL443`'s `LiveSpec` assumes weak fairness of `flash_idle` (the main
loop calls it on every pass), of `flash_handler` (a pending, enabled
interrupt is taken) and of the controller ending an erase.

`MainLoop` assumes weak fairness of `Tick` (SysTick is not masked while
the core is awake), of `MainPass`, and of `SetupPass`, `DelayDone`
and `MemtestPass` (the boot loops poll without sleeping). The card's
`MemtestDmaDone`, the finger and the command code owe nothing, so
`HeldIsResolved` and `BlinkTimesOut` rest on the loop and the tick
alone. Its `Tick` is enabled only when
`lag < MaxLag`: this bounds how long one pass of the loop may take.
Every idle function the pass calls returns quickly, so a pass takes far
less than the 100 ms debounce. Without the bound, TLC could let the tick
run past the one millisecond in which a test is true. No run of it turns
off deadlock checking, because the tick always advances.

`MscBot` assumes weak fairness of `DataOut` and `DataIn` (the USB
interrupt serves every completed transfer) and of the host as a whole.
`bot_safety` checks deadlock: a host that has sent its commands idles
in `Done`, and any state where the host waits with no transfer it can
make and no timeout is reported. `bot_recovery` turns it off, because
the host without timeouts really does wait forever there, and the
property it checks is the liveness one.

`SignetAes` has no liveness property. `aes_cbc` checks deadlock; after
its one call the model stutters in `Done`.

The engine and flash cfgs set `CHECK_DEADLOCK FALSE`. Once callers are done and the device
is quiet, the thread blocks in `epoll_wait` for good, as the code does.

## 5. Not modelled

- In `signet_aes.c`: the AES rounds themselves (nettle, a permutation
  here) and the byte granularity of buffers. Pointers are block-aligned,
  so buffers that overlap by part of a block are not modelled.
- The headers: constants only.
- The byte layout of packets and paths: abstracted to message identities
  and the first event name.
- `signetdev_priv_handle_error` (`signetdev_linux.c:50-60`): it is called
  from shared code outside `src/`.
- `platform_deinit` on Windows closes the handles after a 2 s join
  timeout, and `signetdev_set_window_handle` registers for notifications:
  neither changes the engine's state beyond what QUIT does.
- The error and opened callbacks: assumed not to call back into the
  library.
- In `main.c`: the hardware bring-up and `MX_*` configuration (register
  writes with no decisions), the LED blink of the memory test's wait, the
  card-state polling before each transfer (the card is taken as ready),
  the LED pin and the LED phase of
  `blink_idle` (output only), and the FIDO2 start-up branch. The idle
  functions of the other components are called by the pass and modelled,
  where they are, in their own modules. `BEGIN_WORK`/`END_WORK` are
  defined outside `src/`. They are taken as atomic.
- In `MscBot`: the CBW and CSW byte layout and signature (reduced to a
  valid bit), the sense-data queue (`scsi_sense_head`/`tail`, only
  written), and the storage back-end. When the IN-complete interrupt
  and the next OUT interrupt are both pending, the order in which the
  HAL serves them is not known from `src/`. `DataIn` therefore runs the
  handler in the same step as the host's read.
