------------------------------ MODULE MainLoop ------------------------------
(***************************************************************************)
(* The HC firmware's main loop (src/firmware-hc/main.c): the button, the   *)
(* one-shot timer and the LED blinker, driven by the millisecond tick.     *)
(*                                                                         *)
(* Actors: the button interrupt BUTTON_HANDLER, which stamps               *)
(* g_ms_last_pressed and sets BUTTON_PRESS_WORK on every falling edge      *)
(* (bounces included); the main loop, which sleeps in wfi with the tick    *)
(* suspended while g_work_to_do is empty and otherwise makes one pass;     *)
(* the command code that calls timer_start/stop and the blink functions    *)
(* between passes; and the user's finger.                                  *)
(*                                                                         *)
(* Ticks are `int`s of TickBits bits: HAL_GetTick() converted to int, and  *)
(* sums and differences of them, wrap as two's complement numbers do.     *)
(* Durations are scaled down with the width.                               *)
(***************************************************************************)
EXTENDS Integers, FiniteSets, FiniteSetsExt

CONSTANTS
    TickBits,     \* width of the tick arithmetic (32 in the code)
    Debounce,     \* 100 ms: release debounce
    LongPress,    \* 2000 ms: long-press threshold
    Delays,       \* timer_start arguments
    Periods,      \* start_blinking periods
    Durations,    \* start_blinking durations (0: blink until stopped)
    Owners,       \* values device_subsystem_owner() returns
    MaxEdges,     \* bound on falling edges of the button line
    MaxCalls,     \* bound on timer and blink calls of the command code
                  \* and on work periods of the other components
    MaxLag,       \* ms a pass of the loop may take
    WorkLedOn,    \* 40 ms: the work LED's minimum on time
    WorkLedOff,   \* 10 ms: the work LED's trailing on time
    SetupPresses, \* 5: presses the set-up loop acknowledges with a blink
    SetupDelay,   \* 500 ms: HAL_Delay(400) and busy_blink_once(100)
    NrBlocks,     \* blocks of the eMMC the memory test writes and reads
    MemtestTimeout, \* 1000 ms: the memory test's wait for one transfer
    Fido2         \* the build defines ENABLE_FIDO2

ASSUME /\ TickBits \in Nat \ {0, 1} /\ {Debounce, LongPress} \subseteq Nat
       /\ Delays \subseteq Nat /\ Periods \subseteq Nat /\ Durations \subseteq Nat
       /\ Owners \subseteq {"SIGNET", "CTAP", "NONE"}
       /\ NrBlocks \in Nat \ {0} /\ MemtestTimeout \in Nat /\ Fido2 \in BOOLEAN

Lo == -(2 ^ (TickBits - 1))
Hi == 2 ^ (TickBits - 1) - 1
Int32 == Lo..Hi

\* Two's complement wrap of an int result.
Wrap(x) == ((x - Lo) % (2 ^ TickBits)) + Lo

\* "OTHER" stands for the bits of the other components that light the work
\* LED: KEYBOARD_WORK, SYNC_ROOT_BLOCK_WORK and FLASH_WORK (the eMMC in use
\* by storage or the database is folded in with them).
Work == {"BUTTON_PRESS", "BUTTON_PRESSING", "TIMER", "BLINK", "WORK_STATUS",
         "OTHER", "WRITE_TEST_TX", "READ_TEST_TX"}

\* Where main() is: the erased-root-page set-up loop, the delay of its
\* acknowledgement blink, the memory test of a memtest root page, busy_blink
\* after the root block is written or the memory test has ended, or the
\* main loop.
Phases == {"setup", "delay", "memtest", "done", "loop"}

VARIABLES
    phase,
    press_count,        \* the set-up loop's local
    delayStart,         \* HAL_GetTick() when the acknowledgement began
    tick,               \* HAL_GetTick() as an int
    g_work_to_do,       \* the work bits
    down,               \* the button is held (buttonState() reads 0)
    opening,            \* the contacts are still bouncing after a release
    g_ms_last_pressed,
    s_button_state,
    s_timer_target,
    s_blink_state,
    work_led_state,     \* locals of main() kept across passes
    work_led_off_ms,
    memory_test_mode,   \* main()'s local: the memory test passed
    mt_dir,             \* emmc_compare_test: the write or the read loop,
    mt_i,               \*   its block index i,
    mt_start,           \*   ms_start of the transfer in flight,
    mt_card,            \* the eMMC: "busy" with a DMA transfer, or "idle"
    mt_data,            \* read_block equals write_block
    \* history
    mt_ok,              \* transfers the card completed: a write, or a read
                        \* that returned the block written
    edges,              \* falling edges so far
    calls,              \* timer and blink calls so far
    armedAt,            \* ticks elapsed since the timer was armed (saturating)
    delay,              \* the delay it was armed with
    fired,              \* callbacks of the last pass: a subset of CallBacks
    pressedSinceReport, \* a physical press happened since the last button_press
    lag,                \* ms since the last pass, while there is work
    ranFor              \* ms the blinker has run unpaused (saturating)
    \* The counters saturate at the largest delay or duration: the
    \* properties only compare them with one.

\* The work LED's state and the other components' work, which only the
\* pass, the tick and those components change.
ledVars == <<work_led_state, work_led_off_ms>>
testVars == <<memory_test_mode, mt_dir, mt_i, mt_start, mt_card, mt_data, mt_ok>>
bootVars == <<phase, press_count, delayStart, testVars>>

vars == <<phase, press_count, delayStart, tick, g_work_to_do, down, opening, g_ms_last_pressed, s_button_state,
          s_timer_target, s_blink_state, edges, calls, armedAt, delay, fired,
          pressedSinceReport, lag, ranFor, work_led_state, work_led_off_ms,
          testVars>>

\* "press" stands for button_press, ctaphid_press and
\* button_press_unprompted, whichever the owner selects; "setup_press"
\* is a press the set-up loop counts and "root_write" its exit.
CallBacks == {"press", "release", "long", "timer_timeout", "blink_timeout",
              "setup_press", "root_write"}

\* s_blink_state without the LED phase and the seconds countdown sent to
\* the host, which only drive outputs.
NoBlink == [blink_start |-> 0, blink_period |-> 0, blink_duration |-> 0,
            blink_paused |-> 0, pause_start |-> 0]

\* main() enters the set-up loop when is_erased_root_page() finds the
\* root page erased, the memory test when is_memtest_root_page() finds it
\* filled with 0x80 (in a build with ENABLE_MEMORY_TEST), and the main
\* loop otherwise.  The memory test issues the write of block 0 at once.
Init ==
    /\ phase \in {"setup", "memtest", "loop"} /\ press_count = 0 /\ delayStart = 0
    /\ memory_test_mode = 0 /\ mt_dir = "write" /\ mt_i = 0 /\ mt_start = 0
    /\ mt_card = IF phase = "memtest" THEN "busy" ELSE "idle"
    /\ mt_data = FALSE /\ mt_ok = {}
    /\ tick = 0                \* HAL_GetTick() counts from boot
    /\ g_work_to_do = {} /\ down = FALSE /\ opening = FALSE
    /\ g_ms_last_pressed = 0
    /\ s_button_state = 0 /\ s_timer_target = 0 /\ s_blink_state = NoBlink
    /\ edges = 0 /\ calls = 0 /\ armedAt = 0 /\ delay = 0 /\ fired = {}
    /\ pressedSinceReport = FALSE /\ lag = 0 /\ ranFor = 0
    /\ work_led_state = 0 /\ work_led_off_ms = 0

-----------------------------------------------------------------------------
(* The environment: the tick, the finger, the button interrupt.            *)

\* HAL_Delay(ms) waits while HAL_GetTick() - start < ms, in unsigned
\* arithmetic.
Waiting == (tick - delayStart) % (2 ^ TickBits) < SetupDelay

\* The loop runs, and owes a pass, while it has work; the set-up loop
\* polls without sleeping.
Polling == phase \in {"setup", "memtest"} \/ (phase = "loop" /\ g_work_to_do # {})

\* SysTick advances while the core is awake.  HAL_SuspendTick stops it in
\* wfi, but any interrupt (a USB frame, the button) wakes the core, so the
\* tick may advance whatever g_work_to_do holds.  While there is work the
\* loop makes a pass at least every MaxLag ms: a pass runs the idle
\* functions of every component and none of them blocks for long.  A
\* delay ends on the tick it has waited for.
Tick ==
    /\ ~Polling \/ lag < MaxLag
    /\ phase = "delay" => Waiting
    /\ lag' = IF Polling THEN lag + 1 ELSE 0
    /\ tick' = Wrap(tick + 1)
    /\ opening' = FALSE
    /\ armedAt' = IF "TIMER" \in g_work_to_do /\ armedAt < Max(Delays)
                  THEN armedAt + 1 ELSE armedAt
    /\ ranFor' = IF s_blink_state.blink_period > 0
                     /\ s_blink_state.blink_paused = 0
                     /\ ranFor < Max(Durations)
                 THEN ranFor + 1 ELSE ranFor
    /\ fired' = {}
    /\ UNCHANGED <<g_work_to_do, down, g_ms_last_pressed, s_button_state,
                   s_timer_target, s_blink_state, edges, calls, delay,
                   pressedSinceReport, work_led_state, work_led_off_ms,
                   bootVars>>

\* BUTTON_HANDLER, run on a falling edge of the button line.
BUTTON_HANDLER ==
    /\ g_ms_last_pressed' = tick
    /\ g_work_to_do' = g_work_to_do \cup {"BUTTON_PRESS"}
    /\ edges' = edges + 1

\* The finger presses: the line falls.
Press ==
    /\ UNCHANGED <<ledVars, bootVars>>
    /\ ~down /\ edges < MaxEdges
    /\ down' = TRUE /\ pressedSinceReport' = TRUE
    /\ BUTTON_HANDLER
    /\ fired' = {}
    /\ UNCHANGED <<tick, opening, s_button_state, s_timer_target, s_blink_state,
                   calls, armedAt, delay, lag, ranFor>>

\* The contacts bounce while the button is held or as it is let go: the
\* line falls again with the finger still on the button, or within the
\* millisecond after the release (well inside the debounce time).
Bounce ==
    /\ UNCHANGED <<ledVars, bootVars>>
    /\ down \/ opening
    /\ edges < MaxEdges
    /\ BUTTON_HANDLER
    /\ fired' = {}
    /\ UNCHANGED <<tick, down, opening, s_button_state, s_timer_target, s_blink_state,
                   calls, armedAt, delay, pressedSinceReport, lag, ranFor>>

Release ==
    /\ UNCHANGED <<ledVars, bootVars>>
    /\ down /\ down' = FALSE /\ opening' = TRUE
    /\ fired' = {}
    /\ UNCHANGED <<tick, g_work_to_do, g_ms_last_pressed, s_button_state,
                   s_timer_target, s_blink_state, edges, calls, armedAt,
                   delay, pressedSinceReport, lag, ranFor>>

\* Another component gets work that lights the work LED (a keyboard
\* report, a root block sync, a flash write), and later finishes it in its
\* idle function.
OtherBegin ==
    /\ phase = "loop" /\ "OTHER" \notin g_work_to_do
    /\ g_work_to_do' = g_work_to_do \cup {"OTHER"}
    /\ calls < MaxCalls /\ calls' = calls + 1
    /\ fired' = {}
    /\ UNCHANGED <<tick, down, opening, g_ms_last_pressed, s_button_state,
                   s_timer_target, s_blink_state, edges, armedAt, delay,
                   pressedSinceReport, lag, ranFor, work_led_state,
                   work_led_off_ms, bootVars>>

OtherEnd ==
    /\ "OTHER" \in g_work_to_do
    /\ g_work_to_do' = g_work_to_do \ {"OTHER"}
    /\ fired' = {}
    /\ UNCHANGED <<tick, down, opening, g_ms_last_pressed, s_button_state,
                   s_timer_target, s_blink_state, edges, calls, armedAt, delay,
                   pressedSinceReport, lag, ranFor, work_led_state,
                   work_led_off_ms, bootVars>>

-----------------------------------------------------------------------------
(* timer_start, timer_stop and the blink functions, called by the command  *)
(* code between passes of the loop.                                        *)

\* USB, and with it the command code, starts after the set-up loop.
Call ==
    /\ phase = "loop" /\ calls < MaxCalls /\ calls' = calls + 1
    /\ fired' = {} /\ UNCHANGED bootVars

\* Mutant: the target is kept in a wider type than the tick.
timer_start_unwrapped(ms) ==
    /\ UNCHANGED ledVars
    /\ Call
    /\ s_timer_target' = tick + ms
    /\ g_work_to_do' = g_work_to_do \cup {"TIMER"}
    /\ armedAt' = 0 /\ delay' = ms
    /\ UNCHANGED <<tick, down, opening, g_ms_last_pressed, s_button_state,
                   s_blink_state, edges, pressedSinceReport, lag, ranFor>>

timer_start(ms) ==
    /\ UNCHANGED ledVars
    /\ Call
    /\ s_timer_target' = Wrap(tick + ms)
    /\ g_work_to_do' = g_work_to_do \cup {"TIMER"}
    /\ armedAt' = 0 /\ delay' = ms
    /\ UNCHANGED <<tick, down, opening, g_ms_last_pressed, s_button_state,
                   s_blink_state, edges, pressedSinceReport, lag, ranFor>>

timer_stop ==
    /\ UNCHANGED ledVars
    /\ Call
    /\ s_timer_target' = 0
    /\ g_work_to_do' = g_work_to_do \ {"TIMER"}
    /\ UNCHANGED <<tick, down, opening, g_ms_last_pressed, s_button_state,
                   s_blink_state, edges, armedAt, delay, pressedSinceReport, lag, ranFor>>


\* blink_idle's timeout test: the duration has run out (lines 206, 216-219).
BlinkTimedOut(b, ms) ==
    /\ b.blink_period > 0 /\ b.blink_paused = 0
    /\ b.blink_duration # 0
    /\ Wrap(b.blink_duration - Wrap(ms - b.blink_start)) <= 0
    /\ b.blink_duration > 0

\* blink_idle() on the blinker b at time ms: on timeout the period is
\* cleared, BLINK_WORK ends and blink_timeout is called.
BlinkIdleState(b, ms) ==
    IF BlinkTimedOut(b, ms) THEN [b EXCEPT !.blink_period = 0] ELSE b
BlinkIdleWork(b, ms, work) ==
    IF BlinkTimedOut(b, ms) THEN work \ {"BLINK"} ELSE work
BlinkIdleFired(b, ms) ==
    IF BlinkTimedOut(b, ms) THEN {"blink_timeout"} ELSE {}

Blinker ==
    /\ UNCHANGED ledVars
    /\ Call
    /\ UNCHANGED <<tick, down, opening, g_ms_last_pressed, s_button_state,
                   s_timer_target, edges, armedAt, delay, pressedSinceReport, lag>>

\* Mutant: the blinker is started without BLINK_WORK.
start_blinking_no_work(period, duration) ==
    /\ Blinker
    /\ s_blink_state' = [s_blink_state EXCEPT !.blink_start = tick,
                                              !.blink_period = period,
                                              !.blink_duration = duration]
    /\ UNCHANGED g_work_to_do
    /\ ranFor' = 0

\* start_blinking: the new period and duration from now; blink_paused is
\* left as it was.
start_blinking(period, duration) ==
    /\ Blinker
    /\ s_blink_state' = [s_blink_state EXCEPT !.blink_start = tick,
                                              !.blink_period = period,
                                              !.blink_duration = duration]
    /\ g_work_to_do' = g_work_to_do \cup {"BLINK"}
    /\ ranFor' = 0

pause_blinking ==
    /\ Blinker
    /\ s_blink_state' = [s_blink_state EXCEPT !.blink_paused = 1,
                                              !.pause_start = tick]
    /\ UNCHANGED <<g_work_to_do, ranFor>>

\* Mutant: resuming does not shift the start by the pause.
resume_blinking_unshifted ==
    /\ s_blink_state.blink_paused = 1
    /\ Blinker
    /\ LET b == [s_blink_state EXCEPT !.blink_paused = 0]
       IN /\ s_blink_state' = BlinkIdleState(b, tick)
          /\ g_work_to_do' = BlinkIdleWork(b, tick, g_work_to_do)
          /\ fired' = BlinkIdleFired(b, tick)
          /\ UNCHANGED ranFor

\* resume_blinking: shift the start by the length of the pause, then run
\* blink_idle.
resume_blinking ==
    /\ s_blink_state.blink_paused = 1
    /\ Blinker
    /\ LET b == [s_blink_state EXCEPT
                    !.blink_start = Wrap(@ + Wrap(tick - s_blink_state.pause_start)),
                    !.blink_paused = 0]
       IN /\ s_blink_state' = BlinkIdleState(b, tick)
          /\ g_work_to_do' = BlinkIdleWork(b, tick, g_work_to_do)
          /\ fired' = BlinkIdleFired(b, tick)
          /\ UNCHANGED ranFor

stop_blinking ==
    /\ Blinker
    /\ s_blink_state' = [s_blink_state EXCEPT !.blink_period = 0,
                                              !.blink_paused = 0]
    /\ g_work_to_do' = g_work_to_do \ {"BLINK"}
    /\ UNCHANGED ranFor

-----------------------------------------------------------------------------
(* One pass of the main loop, with interrupts enabled again after the      *)
(* sleep test.  The pass reads the tick once (ms_count) and runs, in       *)
(* order: the work LED, the timer check, blink_idle, and the button       *)
(* handling.  The keyboard, command, sync, flash and SCSI idles are other  *)
(* components.  The owner is device_subsystem_owner() during the pass.     *)

\* The work LED (lines 663-681): lit while other work is pending and for
\* WorkLedOn ms after it starts, then WorkLedOff ms after it ends.
\* WORK_STATUS_WORK keeps the loop awake until the LED goes off; the LED is
\* left to blink_idle while BLINK_WORK is set.  The result is the new
\* work bits, work_led_state and work_led_off_ms.
WorkLed(ms, work) ==
    LET lit == "OTHER" \in work
        starts == lit /\ work_led_state = 0
        offMs == IF starts THEN Wrap(ms + WorkLedOn)
                 ELSE IF ~lit /\ work_led_state = 1 THEN Wrap(ms + WorkLedOff)
                 ELSE work_led_off_ms
        state == IF lit THEN 1 ELSE 0
        w0 == IF starts THEN work \cup {"WORK_STATUS"} ELSE work
        ledOn == state = 1 \/ ms < offMs
    IN [work |-> IF "BLINK" \notin w0 /\ ~ledOn THEN w0 \ {"WORK_STATUS"}
                 ELSE w0,
        state |-> state, off |-> offMs]

\* The timer check: fire once the tick has passed a non-zero target.
TimerDue(ms) == ms > s_timer_target /\ s_timer_target # 0

\* Mutant: a new press leaves BUTTON_PRESSING_WORK unset.
PressStepNoPressing(st, work, owner) ==
    IF "BUTTON_PRESS" \notin work THEN [st |-> st, work |-> work, cb |-> {}]
    ELSE IF st = 0
         THEN [st |-> 1, work |-> work \ {"BUTTON_PRESS"}, cb |-> {"press"}]
         ELSE [st |-> st, work |-> work \ {"BUTTON_PRESS"}, cb |-> {}]

\* The pending-press branch: a new press is reported to the owner and
\* the button becomes held.
PressStep(st, work, owner) ==
    IF "BUTTON_PRESS" \notin work THEN [st |-> st, work |-> work, cb |-> {}]
    ELSE IF st = 0
         THEN [st |-> 1,
               work |-> (work \ {"BUTTON_PRESS"}) \cup {"BUTTON_PRESSING"},
               cb |-> {"press"}]
         ELSE [st |-> st, work |-> work \ {"BUTTON_PRESS"}, cb |-> {}]

\* Mutant: the release test reads the button line with the wrong polarity.
ReleaseStepInverted(r, ms, held) ==
    IF held /\ r.st = 1 /\ Wrap(ms - g_ms_last_pressed) > Debounce
    THEN [st |-> 0, work |-> r.work \ {"BUTTON_PRESSING"},
          cb |-> r.cb \cup {"release"}]
    ELSE r

\* The release check, after Debounce ms since the last falling edge.
ReleaseStep(r, ms, held) ==
    IF ~held /\ r.st = 1 /\ Wrap(ms - g_ms_last_pressed) > Debounce
    THEN [st |-> 0, work |-> r.work \ {"BUTTON_PRESSING"},
          cb |-> r.cb \cup {"release"}]
    ELSE r

\* The long-press check, after LongPress ms; only the Signet subsystem
\* hears of it.
LongStep(r, ms, owner) ==
    IF r.st = 1 /\ Wrap(ms - g_ms_last_pressed) > LongPress
    THEN [st |-> 0, work |-> r.work \ {"BUTTON_PRESSING"},
          cb |-> r.cb \cup (IF owner = "SIGNET" THEN {"long"} ELSE {})]
    ELSE r

MainPass ==
    /\ phase = "loop" /\ g_work_to_do # {}
    /\ \E owner \in Owners :
       LET ms == tick
           led == WorkLed(ms, g_work_to_do)
           due == TimerDue(ms)
           w1 == IF due THEN led.work \ {"TIMER"} ELSE led.work
           b == s_blink_state
           w2 == BlinkIdleWork(b, ms, w1)
           r == LongStep(ReleaseStep(PressStep(s_button_state, w2, owner),
                                     ms, down), ms, owner)
       IN /\ s_timer_target' = IF due THEN 0 ELSE s_timer_target
          /\ s_blink_state' = BlinkIdleState(b, ms)
          /\ s_button_state' = r.st
          /\ g_work_to_do' = r.work
          /\ fired' = (IF due THEN {"timer_timeout"} ELSE {})
                        \cup BlinkIdleFired(b, ms) \cup r.cb
          /\ pressedSinceReport' = IF "press" \in r.cb THEN FALSE
                                   ELSE pressedSinceReport
          /\ work_led_state' = led.state /\ work_led_off_ms' = led.off
    /\ lag' = 0
    /\ UNCHANGED <<tick, down, opening, g_ms_last_pressed, edges, calls, armedAt, delay,
                   ranFor, bootVars>>

-----------------------------------------------------------------------------
(* The set-up loop of an erased root page (lines 517-553), polled without *)
(* sleeping: a new press lights the LED and is counted, the release test  *)
(* acknowledges every SetupPresses-th press with a blink, and a long      *)
(* press leaves the loop.  The root block is then written and main() ends *)
(* in busy_blink, which never returns.                                     *)

SetupPass ==
    /\ phase = "setup"
    /\ LET ms == tick
           pend == "BUTTON_PRESS" \in g_work_to_do
           new == pend /\ s_button_state = 0
           st1 == IF new THEN 1 ELSE s_button_state
           w1 == IF ~pend THEN g_work_to_do
                 ELSE IF new THEN (g_work_to_do \ {"BUTTON_PRESS"}) \cup {"BUTTON_PRESSING"}
                 ELSE g_work_to_do \ {"BUTTON_PRESS"}
           count == IF new THEN press_count + 1 ELSE press_count
           released == ~down /\ st1 = 1 /\ Wrap(ms - g_ms_last_pressed) > Debounce
           ack == released /\ count = SetupPresses
           st2 == IF released THEN 0 ELSE st1
           long == st2 = 1 /\ Wrap(ms - g_ms_last_pressed) > LongPress
       IN /\ s_button_state' = IF long THEN 0 ELSE st2
          /\ g_work_to_do' = IF released \/ long THEN w1 \ {"BUTTON_PRESSING"} ELSE w1
          /\ press_count' = IF ack THEN 0 ELSE count
          /\ phase' = IF long THEN "done" ELSE IF ack THEN "delay" ELSE "setup"
          /\ delayStart' = IF ack THEN ms ELSE delayStart
          /\ fired' = (IF new THEN {"setup_press"} ELSE {})
                      \cup (IF long THEN {"root_write"} ELSE {})
          /\ pressedSinceReport' = IF new THEN FALSE ELSE pressedSinceReport
    /\ lag' = 0
    /\ UNCHANGED <<tick, down, opening, g_ms_last_pressed, s_timer_target,
                   s_blink_state, edges, calls, armedAt, delay, ranFor, ledVars,
                   testVars>>

\* The acknowledgement's HAL_Delay returns to the set-up loop.
DelayDone ==
    /\ phase = "delay" /\ ~Waiting
    /\ phase' = "setup" /\ fired' = {} /\ lag' = 0
    /\ UNCHANGED <<press_count, delayStart, tick, g_work_to_do, down, opening,
                   g_ms_last_pressed, s_button_state, s_timer_target,
                   s_blink_state, edges, calls, armedAt, delay,
                   pressedSinceReport, ranFor, ledVars, testVars>>

-----------------------------------------------------------------------------
(* The memory test (lines 555-569 and emmc_compare_test, lines 360-423):   *)
(* every block is written with the same pattern by DMA, then every block   *)
(* is read back and compared.  Each transfer is waited for by polling:     *)
(* after 1000 ms the test fails (rc 2 for a write, 4 for a read), a       *)
(* mismatch fails it with rc 8, and a failed test ends in busy_blink.  A   *)
(* test that passes sets memory_test_mode, which a FIDO2 build answers    *)
(* with busy_blink too.  USB is not started yet, so command_idle has      *)
(* nothing to run; the card is in the transfer state when its DMA is done. *)

\* The work bit the DMA completion callback of each loop sets.
TestBit(dir) == IF dir = "write" THEN "WRITE_TEST_TX" ELSE "READ_TEST_TX"

\* Mutant: the completion bit is not cleared when the wait ends.
EndTestWorkKept(work, dir) == work

\* END_WORK(WRITE_TEST_TX_WORK) / END_WORK(READ_TEST_TX_WORK).
EndTestWork(work, dir) == work \ {TestBit(dir)}

\* The eMMC finishes the transfer in flight; a read may return data that
\* differs from what was written.  A card that never finishes is what
\* the timeout is for, so the completion is owed nothing.
MemtestDmaDone ==
    /\ phase = "memtest" /\ mt_card = "busy"
    /\ \E ok \in IF mt_dir = "read" THEN BOOLEAN ELSE {TRUE} :
          /\ mt_data' = IF mt_dir = "read" THEN ok ELSE mt_data
          /\ mt_ok' = IF ok THEN mt_ok \cup {<<mt_dir, mt_i>>} ELSE mt_ok
    /\ mt_card' = "idle"
    /\ g_work_to_do' = g_work_to_do \cup {TestBit(mt_dir)}
    /\ fired' = {}
    /\ UNCHANGED <<phase, press_count, delayStart, memory_test_mode, mt_dir,
                   mt_i, mt_start, tick, down, opening, g_ms_last_pressed,
                   s_button_state, s_timer_target, s_blink_state, edges,
                   calls, armedAt, delay, pressedSinceReport, lag, ranFor,
                   ledVars>>

\* One iteration of a wait loop: the timeout test on ms > ms_start + 1000
\* in int arithmetic, then the completion bit; the wait for the last
\* block's read is followed by the memcmp and the end of the test, a
\* finished wait for another block by the next transfer, issued with
\* ms_start = HAL_GetTick().
MemtestPass ==
    /\ phase = "memtest"
    /\ LET ms == tick
           late == ms > Wrap(mt_start + MemtestTimeout)
           got == ~late /\ TestBit(mt_dir) \in g_work_to_do
           bad == got /\ mt_dir = "read" /\ ~mt_data
           last == mt_i + 1 = NrBlocks
           passed == got /\ ~bad /\ mt_dir = "read" /\ last
           next == got /\ ~bad /\ ~passed
       IN /\ g_work_to_do' = IF got THEN EndTestWork(g_work_to_do, mt_dir)
                             ELSE g_work_to_do
          /\ phase' = IF late \/ bad \/ (passed /\ Fido2) THEN "done"
                      ELSE IF passed THEN "loop" ELSE "memtest"
          /\ memory_test_mode' = IF passed THEN 1 ELSE memory_test_mode
          /\ mt_dir' = IF next /\ last THEN "read" ELSE mt_dir
          /\ mt_i' = IF next THEN (IF last THEN 0 ELSE mt_i + 1) ELSE mt_i
          /\ mt_start' = IF next THEN ms ELSE mt_start
          /\ mt_card' = IF next THEN "busy" ELSE mt_card
    /\ lag' = 0 /\ fired' = {}
    /\ UNCHANGED <<press_count, delayStart, mt_data, mt_ok, tick, down,
                   opening, g_ms_last_pressed, s_button_state, s_timer_target,
                   s_blink_state, edges, calls, armedAt, delay,
                   pressedSinceReport, ranFor, ledVars>>

-----------------------------------------------------------------------------
Next ==
    \/ Tick \/ Press \/ Bounce \/ Release \/ OtherBegin \/ OtherEnd
    \/ \E ms \in Delays : timer_start(ms)
    \/ timer_stop
    \/ \E p \in Periods, d \in Durations : start_blinking(p, d)
    \/ pause_blinking \/ resume_blinking \/ stop_blinking
    \/ MainPass \/ SetupPass \/ DelayDone \/ MemtestPass \/ MemtestDmaDone

\* SysTick interrupts and the loop's passes are not starved while the
\* processor is awake; the finger and the command code owe nothing.
Fairness ==
    WF_vars(Tick) /\ WF_vars(MainPass) /\ WF_vars(SetupPass)
    /\ WF_vars(DelayDone) /\ WF_vars(MemtestPass)

Spec == Init /\ [][Next]_vars /\ Fairness

\* The state without the history kept only for TimerNotEarly,
\* BlinkNotEarly and NoPhantomPress (armedAt, delay, ranFor,
\* pressedSinceReport), and without the values the code overwrites before
\* it next reads them: g_ms_last_pressed with no press held or pending
\* (BUTTON_HANDLER stamps it before a press can be taken), the blinker's
\* start and duration while it is stopped and its pause start while it is
\* not paused (start_blinking and pause_blinking set them), and
\* work_led_off_ms while the work LED is lit or WORK_STATUS_WORK is clear;
\* the memory test's state outside the memory test, where nothing reads it
\* (MemtestPassesOnlyVerified is a property of the step that leaves it).
\* No action reads the history, so a run that checks none of those
\* properties may tell states apart by this view alone.
LoopView ==
    LET b == s_blink_state
        running == b.blink_period > 0
    IN <<phase, IF phase \in {"setup", "delay"} THEN press_count ELSE 0,
         IF phase = "delay" THEN delayStart ELSE 0,
         tick, g_work_to_do, down, opening,
         IF s_button_state = 1 \/ "BUTTON_PRESS" \in g_work_to_do
         THEN g_ms_last_pressed ELSE 0,
         s_button_state, s_timer_target,
         [b EXCEPT !.blink_start = IF running THEN @ ELSE 0,
                   !.blink_duration = IF running THEN @ ELSE 0,
                   !.pause_start = IF b.blink_paused = 1 THEN @ ELSE 0],
         edges, calls, fired, lag, work_led_state,
         IF work_led_state = 0 /\ "WORK_STATUS" \in g_work_to_do
         THEN work_led_off_ms ELSE 0,
         IF phase = "memtest" THEN testVars ELSE <<>>>>


-----------------------------------------------------------------------------
(* Properties.                                                             *)

TypeOK ==
    /\ phase \in Phases /\ press_count \in 0..SetupPresses
    /\ tick \in Int32 /\ g_ms_last_pressed \in Int32
    /\ s_timer_target \in Int32
    /\ g_work_to_do \subseteq Work /\ down \in BOOLEAN
    /\ s_button_state \in {0, 1}
    /\ s_blink_state.blink_period \in Periods \cup {0}
    /\ s_blink_state.blink_paused \in {0, 1}
    /\ fired \subseteq CallBacks
    /\ work_led_state \in {0, 1} /\ work_led_off_ms \in Int32
    /\ memory_test_mode \in {0, 1} /\ mt_i \in 0..(NrBlocks - 1)
    /\ mt_start \in Int32 /\ mt_card \in {"busy", "idle"}

\* The loop only sleeps with nothing pending: a held button, an armed
\* timer, a running blinker and a lit work LED each keep their work bit set, so the pass
\* that releases, fires or times them out does run.  The bits are set and
\* cleared by start/stop functions, by ISRs and by the pass in separate
\* places, and a path that changes the state without its bit (or clears
\* the bit and leaves the state) sleeps through the event.
AwakeWhilePending ==
    /\ s_button_state = 1 => "BUTTON_PRESSING" \in g_work_to_do
    /\ s_timer_target # 0 => "TIMER" \in g_work_to_do
    /\ (s_blink_state.blink_period > 0 /\ s_blink_state.blink_paused = 0)
          => "BLINK" \in g_work_to_do
    /\ work_led_state = 1 => "WORK_STATUS" \in g_work_to_do

\* A press the loop has reported and the finger keeps holding ends, as a
\* long press, within LongPress ms of the last edge: the pass must keep
\* running while the button is held, across bounces and the tick's wrap.
HeldIsResolved ==
    (down /\ s_button_state = 1) ~> (~down \/ s_button_state = 0)

\* A blinker running with a duration times out, unless the command code
\* pauses, stops or restarts it first: BLINK_WORK keeps the loop making
\* passes, and blink_idle's test on the wrapped difference of ticks comes
\* true within a turn of the tick wherever blink_start lies.
BlinkTimesOut ==
    (s_blink_state.blink_period > 0 /\ s_blink_state.blink_paused = 0
        /\ s_blink_state.blink_duration > 0)
    ~> (s_blink_state.blink_period = 0 \/ s_blink_state.blink_paused = 1)

\* blink_timeout is called only after the blinker has run, pauses not
\* counted, for its whole duration: blink_idle compares wrapped
\* differences of ticks, and resume_blinking shifts blink_start by the
\* pause.
BlinkNotEarly ==
    "blink_timeout" \in fired => ranFor >= s_blink_state.blink_duration

\* long_button_press is called, and the set-up loop writes the root
\* block, only while the finger is on the button: a press let go before
\* LongPress ms is a release, however the release, long-press and bounce
\* tests of a pass meet.
LongOnlyWhileHeld ==
    fired \cap {"long", "root_write"} # {} => down

\* Once the other components' work has ended, WORK_STATUS_WORK, which
\* keeps the loop from sleeping and the LED lit, is held by a deadline at
\* most WorkLedOff ms ahead: the test ms_count < work_led_off_ms compares
\* absolute ticks, and a blink that postpones the test can let the tick
\* wrap below the deadline.
WorkLedGoesOff ==
    ("WORK_STATUS" \in g_work_to_do /\ work_led_state = 0
        /\ tick < work_led_off_ms)
        => work_led_off_ms - tick <= WorkLedOff

\* timer_timeout is called no earlier than the delay given to
\* timer_start: the comparison ms_count > s_timer_target on wrapped ints.
TimerNotEarly ==
    "timer_timeout" \in fired => armedAt >= delay

\* The memory test passes (memory_test_mode) only after the card has
\* completed the write of every block, and a read of every block that
\* returned what was written: each wait must end on its own transfer's
\* completion bit, never on one left set by the transfer before, and the
\* loops and the memcmp must cover every block.
MemtestPassesOnlyVerified ==
    [][memory_test_mode' = 1 /\ memory_test_mode = 0
          => mt_ok' = {"write", "read"} \X (0..(NrBlocks - 1))]_vars

\* Every press the loop reports to the owner (button_press,
\* ctaphid_press, button_press_unprompted), and every press the set-up
\* loop counts, was a press of the finger: an edge of the contacts
\* bouncing as they open is not a new press.
NoPhantomPress ==
    [][fired' \cap {"press", "setup_press"} # {} => pressedSinceReport]_vars

=============================================================================
