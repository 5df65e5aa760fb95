--------------------------- MODULE SignetdevWin32 ---------------------------
(***************************************************************************)
(* The host-side engine of libsignetdev on Windows                         *)
(* (src/signetdev/host/signetdev_win32.c).                                 *)
(*                                                                         *)
(* Three threads share the engine's globals:                               *)
(*  - the transaction thread waits on three events (read done, write done, *)
(*    command) and handles the lowest signalled one;                       *)
(*  - the caller thread writes commands into a 128-entry ring under        *)
(*    g_command_mutex, and runs signetdev_open_connection and              *)
(*    signetdev_close_connection itself;                                   *)
(*  - the window thread runs signetdev_filter_window_messasage on          *)
(*    WM_DEVICECHANGE.                                                     *)
(* The device completes the overlapped ReadFile/WriteFile.                 *)
(*                                                                         *)
(* Each event handler of the transaction thread is one step; the command   *)
(* drain, which other threads may interleave with except the ring writers  *)
(* (they need the mutex), is one step per command.                         *)
(***************************************************************************)
EXTENDS Integers, Sequences, SequencesExt

CONSTANTS
    Msgs,       \* send_message_req structs the callers submit
    Interrupt,  \* those with msg->interrupt set: cancel messages
    Resp,       \* those with msg->resp set: a response is expected
    Packets,    \* [Msgs -> Nat \ {0}]: msg_packet_count of each message
    RingSize,   \* entries of g_command_queue (128 in the code)
    MaxCtl,     \* bound on open/close/EMULATE_* calls of the caller
    MaxPlug,    \* bound on plug / unplug events of the device
    EnvOps,     \* the caller and device operations this model lets happen
    NULL        \* the NULL pointer

ASSUME /\ Interrupt \subseteq Msgs /\ Resp \subseteq Msgs \ Interrupt
       /\ Packets \in [Msgs -> Nat \ {0}]
       /\ RingSize \in Nat \ {0} /\ MaxCtl \in Nat /\ MaxPlug \in Nat
       /\ EnvOps \subseteq {"OPEN", "CLOSE", "EMULATE_BEGIN", "EMULATE_END",
                            "QUIT", "PLUG", "UNPLUG", "OTHER"}

Codes == {"ok", "disconnect"}           \* msg_size, SIGNET_ERROR_DISCONNECT
IoStates == {"idle", "pending", "ok", "fail"}   \* an OVERLAPPED operation

VARIABLES
    slots,      \* g_command_queue: index -> <<cmd, data>>
    head,       \* g_command_queue_head (tail is 0 whenever the mutex is free)
    cmdEv,      \* g_command_event (auto-reset)
    respEv,     \* g_command_resp_event (auto-reset)
    cmdResp,    \* g_command_resp
    caller,     \* the application thread: "idle" or "blocked" in issue_command
    submitted,  \* messages some caller has already handed to the facade
    ctl,        \* number of open/close/EMULATE_* calls so far
    pc,         \* transaction thread: "wait", "drain", "exited", "faulted"
    idx,        \* the drain loop's i
    entries,    \* the drain loop's entries
    quitting,   \* g_quitting
    emulating,  \* g_emulating
    pendingOpen,\* g_open_request_pending
    wantOpen,   \* history: open returned "pending" to the caller, no close since
    queue,      \* g_head_message .. g_tail_message
    cancelQ,    \* g_head_cancel_message .. g_tail_cancel_message
    tx,         \* g_tx_state: message, msg_packet_seq, msg_packet_count
    rx,         \* g_rx_state.message
    handle,     \* g_device_handle != INVALID_HANDLE_VALUE
    rd,         \* the ReadFile on g_read_overlapped
    readEv,     \* g_msg_read_event (manual reset)
    rdPkt,      \* the response a completed read delivered (by message)
    wr,         \* the WriteFile on g_write_overlapped
    writeEv,    \* g_msg_write_event (manual reset)
    wirePkt,    \* the packet of that WriteFile: [msg, seq]
    node,       \* the device: "none" or "present"
    linked,     \* the open handle refers to the device plugged in now
    plugs,      \* number of plug / unplug events so far
    owed,       \* messages the device has fully received and still owes an answer
    winMsgs,    \* WM_DEVICECHANGE messages posted to the window thread
    got,        \* history: packet numbers the device received, per message
    fin,        \* history: finalizations of each message, in order
    enqOrder,   \* history: messages in the order they were queued
    dispatched  \* history: normal messages in the order state_iter took them

ringVars   == <<slots, head, cmdEv>>
callerVars == <<respEv, cmdResp, caller, submitted, ctl>>
threadVars == <<pc, idx, entries, quitting, emulating>>
connVars   == <<queue, cancelQ, tx, rx, handle, rd, readEv, rdPkt, wr, writeEv,
                wirePkt, fin, dispatched>>
devVars    == <<node, linked, plugs, owed, winMsgs, got>>
vars == <<ringVars, callerVars, threadVars, pendingOpen, wantOpen, connVars, devVars, enqOrder>>

NoCmd == [cmd |-> "NONE", msg |-> NULL]
NoTx  == [msg |-> NULL, seq |-> 0, count |-> 0]

-----------------------------------------------------------------------------
(* The connection state as one record, so that the helpers the handlers    *)
(* call in sequence (state_iter after an enqueue, handle_error after a     *)
(* failed send) compose as functions.                                      *)

S == [queue |-> queue, cancelQ |-> cancelQ, tx |-> tx, rx |-> rx,
      handle |-> handle, rd |-> rd, readEv |-> readEv, rdPkt |-> rdPkt,
      wr |-> wr, writeEv |-> writeEv, wirePkt |-> wirePkt, fin |-> fin,
      dispatched |-> dispatched]

Commit(s) ==
    /\ queue' = s.queue /\ cancelQ' = s.cancelQ /\ tx' = s.tx /\ rx' = s.rx
    /\ handle' = s.handle /\ rd' = s.rd /\ readEv' = s.readEv
    /\ rdPkt' = s.rdPkt /\ wr' = s.wr /\ writeEv' = s.writeEv
    /\ wirePkt' = s.wirePkt /\ fin' = s.fin /\ dispatched' = s.dispatched

\* signetdev_priv_finalize_message: record the completion.
Finalize(f, m, code, by) == [f EXCEPT ![m] = Append(@, [code |-> code, by |-> by])]

\* signetdev_priv_prepare_message_state: a fresh Tx state for m.
PrepareMessageState(m) == [msg |-> m, seq |-> 0, count |-> Packets[m]]

\* pending_message(): the Rx message, else a non-interrupt Tx message.
PendingMessage(s) ==
    IF s.rx # NULL THEN s.rx
    ELSE IF s.tx.msg # NULL /\ s.tx.msg \notin Interrupt THEN s.tx.msg
    ELSE NULL

\* The overlapped operations still in progress complete with an error and
\* signal their events (the handle is closed or the device is gone).
AbortIo(s) ==
    [s EXCEPT !.rd = IF @ = "pending" THEN "fail" ELSE @,
              !.readEv = @ \/ s.rd = "pending",
              !.wr = IF @ = "pending" THEN "fail" ELSE @,
              !.writeEv = @ \/ s.wr = "pending"]

\* rawhid_close: close the handle, aborting its overlapped operations.
RawhidClose(s) == [AbortIo(s) EXCEPT !.handle = FALSE]

\* signetdev_priv_handle_error().
HandleError(s) ==
    LET c == RawhidClose(s)
        p == PendingMessage(s)
    IN [c EXCEPT !.fin = IF p = NULL THEN @ ELSE Finalize(@, p, "disconnect", NULL),
                 !.tx.msg = NULL,
                 !.rx = NULL]

\* send_next_packet(), with the handle_error() every caller runs when it
\* fails: the Tx state is advanced, then WriteFile starts (resetting the
\* event) or fails at once on a closed handle or a removed device.
SendNextPacket(s) ==
    LET a == [s EXCEPT !.tx.seq = @ + 1] IN
    IF s.handle /\ linked
    THEN [a EXCEPT !.wr = "pending", !.writeEv = FALSE,
                   !.wirePkt = [msg |-> s.tx.msg, seq |-> a.tx.seq]]
    ELSE HandleError(a)

\* Mutant: Rx is armed for a cancel message too.
StateIterArmsCancel(s) ==
    IF s.tx.msg # NULL \/ (s.queue = <<>> /\ s.cancelQ = <<>>) THEN s
    ELSE IF s.cancelQ # <<>>
    THEN SendNextPacket([s EXCEPT !.tx = PrepareMessageState(Head(s.cancelQ)),
                                  !.rx = Head(s.cancelQ),
                                  !.cancelQ = Tail(@)])
    ELSE IF s.rx = NULL
    THEN SendNextPacket([s EXCEPT !.tx = PrepareMessageState(Head(s.queue)),
                                  !.rx = Head(s.queue),
                                  !.queue = Tail(@),
                                  !.dispatched = Append(@, Head(s.queue))])
    ELSE s

\* state_iter(): if Tx is idle, take a cancel message, else a normal one
\* when no response is awaited (Rx is armed for every normal message), and
\* send its first packet.
StateIter(s) ==
    IF s.tx.msg # NULL \/ (s.queue = <<>> /\ s.cancelQ = <<>>) THEN s
    ELSE IF s.cancelQ # <<>>
    THEN SendNextPacket([s EXCEPT !.tx = PrepareMessageState(Head(s.cancelQ)),
                                  !.cancelQ = Tail(@)])
    ELSE IF s.rx = NULL
    THEN SendNextPacket([s EXCEPT !.tx = PrepareMessageState(Head(s.queue)),
                                  !.rx = Head(s.queue),
                                  !.queue = Tail(@),
                                  !.dispatched = Append(@, Head(s.queue))])
    ELSE s

\* signetdev_priv_process_rx_packet for a one-packet response p: it
\* completes the Rx message, whatever message p answers.
ProcessRxPacket(s, p) ==
    IF s.rx # NULL
    THEN [s EXCEPT !.fin = Finalize(@, s.rx, "ok", p), !.rx = NULL]
    ELSE s

-----------------------------------------------------------------------------
(* The transaction thread. WaitForMultipleObjects returns the lowest       *)
(* signalled index: read done, then write done, then command.              *)

Waiting == pc = "wait" /\ ~quitting

\* Case 0: GetOverlappedResult of the read; process the packet, start the
\* next read (request_next_packet: ReadFile resets the event, or fails on a
\* closed handle or removed device), then state_iter. Any failure goes to
\* handle_error and skips the rest.
ReadDone ==
    /\ Waiting /\ readEv
    /\ LET s0 == [S EXCEPT !.readEv = FALSE]
           a  == ProcessRxPacket(s0, rdPkt)
       IN Commit(IF ~(handle /\ rd = "ok") THEN HandleError(s0)
                 ELSE IF handle /\ linked
                      THEN StateIter([a EXCEPT !.rd = "pending", !.readEv = FALSE])
                      ELSE HandleError(a))
    /\ UNCHANGED <<ringVars, callerVars, threadVars, pendingOpen, wantOpen, devVars, enqOrder>>

\* Case 1: GetOverlappedResult of the write. When the last packet is out the
\* message is finalized (no response) or handed to Rx; otherwise the next
\* packet is sent. state_iter is not called. A completion read with no Tx
\* message and seq = count dereferences g_tx_state.message == NULL.
WriteDone ==
    /\ Waiting /\ ~readEv /\ writeEv
    /\ LET s0 == [S EXCEPT !.writeEv = FALSE] IN
       \/ /\ ~(handle /\ wr = "ok")
          /\ Commit(HandleError(s0))
          /\ UNCHANGED pc
       \/ /\ handle /\ wr = "ok" /\ tx.seq = tx.count /\ tx.msg = NULL
          /\ pc' = "faulted"
          /\ UNCHANGED connVars
       \/ /\ handle /\ wr = "ok" /\ tx.seq = tx.count /\ tx.msg # NULL
          /\ Commit(IF tx.msg \notin Resp
                    THEN [s0 EXCEPT !.fin = Finalize(@, tx.msg, "ok", NULL),
                                    !.tx.msg = NULL, !.rx = NULL]
                    ELSE [s0 EXCEPT !.tx.msg = NULL])
          /\ UNCHANGED pc
       \/ /\ handle /\ wr = "ok" /\ tx.seq < tx.count
          /\ Commit(SendNextPacket(s0))
          /\ UNCHANGED pc
    /\ UNCHANGED <<ringVars, callerVars, idx, entries, quitting, emulating>>
    /\ UNCHANGED <<pendingOpen, wantOpen, devVars, enqOrder>>

\* Mutant: entries counted one short.
CommandWakeOneShort ==
    /\ Waiting /\ ~readEv /\ ~writeEv /\ cmdEv
    /\ cmdEv' = FALSE
    /\ pc' = "drain" /\ idx' = 0 /\ entries' = (head - 1) % RingSize
    /\ UNCHANGED <<slots, head, callerVars, quitting, emulating, pendingOpen, wantOpen>>
    /\ UNCHANGED <<connVars, devVars, enqOrder>>

\* Case 2: take g_command_mutex and count the ring's entries (tail is 0).
CommandWake ==
    /\ Waiting /\ ~readEv /\ ~writeEv /\ cmdEv
    /\ cmdEv' = FALSE
    /\ pc' = "drain" /\ idx' = 0 /\ entries' = head
    /\ UNCHANGED <<slots, head, callerVars, quitting, emulating, pendingOpen, wantOpen>>
    /\ UNCHANGED <<connVars, devVars, enqOrder>>

\* Mutant: the message is pushed at the head of its queue.
EnqueueAtHead(m) ==
    IF emulating
    THEN /\ Commit([S EXCEPT !.fin = Finalize(@, m, "ok", NULL)])
         /\ UNCHANGED enqOrder
    ELSE /\ Commit(StateIter(IF m \in Interrupt
                             THEN [S EXCEPT !.cancelQ = <<m>> \o @]
                             ELSE [S EXCEPT !.queue = <<m>> \o @]))
         /\ enqOrder' = Append(enqOrder, m)

\* handle_command for MESSAGE / CANCEL_MESSAGE: the emulator completes it,
\* else process_send_message_req / process_cancel_message_req append it and
\* run state_iter.
Enqueue(m) ==
    IF emulating
    THEN /\ Commit([S EXCEPT !.fin = Finalize(@, m, "ok", NULL)])
         /\ UNCHANGED enqOrder
    ELSE /\ Commit(StateIter(IF m \in Interrupt
                             THEN [S EXCEPT !.cancelQ = Append(@, m)]
                             ELSE [S EXCEPT !.queue = Append(@, m)]))
         /\ enqOrder' = Append(enqOrder, m)

\* One iteration of the drain loop: handle_command on entry i.
DrainStep ==
    /\ pc = "drain" /\ idx < entries /\ ~quitting
    /\ idx' = idx + 1
    /\ LET c == slots[idx] IN
       \/ /\ c.cmd = "EMULATE_BEGIN"
          /\ emulating' = (emulating \/ (~handle /\ ~pendingOpen))
          /\ cmdResp' = IF ~handle /\ ~pendingOpen THEN 1 ELSE 0
          /\ respEv' = TRUE
          /\ UNCHANGED <<quitting, connVars, enqOrder>>
       \/ /\ c.cmd = "EMULATE_END"
          /\ emulating' = FALSE
          /\ UNCHANGED <<respEv, cmdResp, quitting, connVars, enqOrder>>
       \/ /\ c.cmd \in {"MESSAGE", "CANCEL_MESSAGE"}
          /\ Enqueue(c.msg)
          /\ UNCHANGED <<respEv, cmdResp, quitting, emulating>>
       \/ /\ c.cmd = "QUIT"
          /\ quitting' = TRUE
          /\ UNCHANGED <<respEv, cmdResp, emulating, connVars, enqOrder>>
    /\ UNCHANGED <<ringVars, caller, submitted, ctl, pc, entries, pendingOpen, wantOpen, devVars>>

\* The loop ends (all entries handled, or g_quitting): reset the ring,
\* release the mutex, and leave the thread if quitting.
DrainEnd ==
    /\ pc = "drain" /\ (idx >= entries \/ quitting)
    /\ head' = 0
    /\ pc' = IF quitting THEN "exited" ELSE "wait"
    /\ UNCHANGED <<slots, cmdEv, callerVars, idx, entries, quitting, emulating>>
    /\ UNCHANGED <<pendingOpen, wantOpen, connVars, devVars, enqOrder>>

-----------------------------------------------------------------------------
(* The caller thread.                                                      *)

\* signetdev_priv_issue_command_no_resp: under g_command_mutex, which the
\* transaction thread holds for the whole drain, write the slot at head and
\* advance head modulo the ring size, with no check for a full ring.
RingWrite(c) ==
    /\ pc # "drain"
    /\ slots' = [slots EXCEPT ![head] = c]
    /\ head' = (head + 1) % RingSize
    /\ cmdEv' = TRUE

\* Messages are submitted until the application calls platform_deinit.
Submit(m) ==
    /\ m \notin submitted /\ caller # "done"
    /\ submitted' = submitted \cup {m}
    /\ RingWrite([cmd |-> IF m \in Interrupt THEN "CANCEL_MESSAGE" ELSE "MESSAGE",
                  msg |-> m])
    /\ UNCHANGED <<respEv, cmdResp, caller, ctl, threadVars, pendingOpen, wantOpen>>
    /\ UNCHANGED <<connVars, devVars, enqOrder>>

\* signetdev_priv_issue_command(EMULATE_BEGIN): write, then wait for
\* g_command_resp_event.
IssueEmulateBegin ==
    /\ "EMULATE_BEGIN" \in EnvOps /\ caller = "idle" /\ ctl < MaxCtl
    /\ RingWrite([cmd |-> "EMULATE_BEGIN", msg |-> NULL])
    /\ caller' = "blocked" /\ ctl' = ctl + 1
    /\ UNCHANGED <<respEv, cmdResp, submitted, threadVars, pendingOpen, wantOpen>>
    /\ UNCHANGED <<connVars, devVars, enqOrder>>

ReceiveResponse ==
    /\ caller = "blocked" /\ respEv
    /\ respEv' = FALSE /\ caller' = "idle"
    /\ UNCHANGED <<ringVars, cmdResp, submitted, ctl, threadVars, pendingOpen, wantOpen>>
    /\ UNCHANGED <<connVars, devVars, enqOrder>>

IssueEmulateEnd ==
    /\ "EMULATE_END" \in EnvOps /\ caller = "idle" /\ ctl < MaxCtl
    /\ RingWrite([cmd |-> "EMULATE_END", msg |-> NULL])
    /\ ctl' = ctl + 1
    /\ UNCHANGED <<respEv, cmdResp, caller, submitted, threadVars, pendingOpen, wantOpen>>
    /\ UNCHANGED <<connVars, devVars, enqOrder>>

\* signetdev_priv_platform_deinit: QUIT, then the caller is done.
IssueQuit ==
    /\ "QUIT" \in EnvOps /\ caller = "idle"
    /\ RingWrite([cmd |-> "QUIT", msg |-> NULL])
    /\ caller' = "done"
    /\ UNCHANGED <<respEv, cmdResp, submitted, ctl, threadVars, pendingOpen, wantOpen>>
    /\ UNCHANGED <<connVars, devVars, enqOrder>>

\* signetdev_open_connection(), on the calling thread: rawhid_open finds
\* the device (either variant) or sets g_open_request_pending; a found
\* device gets g_device_handle and a first ReadFile.
DeviceFound ==
    /\ handle' = TRUE /\ linked' = TRUE /\ pendingOpen' = FALSE /\ wantOpen' = FALSE
    /\ rd' = "pending" /\ readEv' = FALSE

\* Neither variant found: g_open_request_pending := pend.
OpenFailed(pend) ==
    /\ pendingOpen' = pend
    /\ UNCHANGED <<handle, linked, rd, readEv>>

OpenConnection ==
    \/ node = "present" /\ DeviceFound
    \/ node = "none" /\ OpenFailed(TRUE) /\ wantOpen' = TRUE

Open ==
    /\ "OPEN" \in EnvOps /\ caller = "idle" /\ ctl < MaxCtl
    /\ OpenConnection
    /\ ctl' = ctl + 1
    /\ UNCHANGED <<ringVars, respEv, cmdResp, caller, submitted, threadVars>>
    /\ UNCHANGED <<queue, cancelQ, tx, rx, rdPkt, wr, writeEv, wirePkt, fin, dispatched>>
    /\ UNCHANGED <<node, plugs, owed, winMsgs, got, enqOrder>>

\* signetdev_close_connection(), on the calling thread.
Close ==
    /\ "CLOSE" \in EnvOps /\ caller = "idle" /\ ctl < MaxCtl
    /\ Commit(RawhidClose(S))
    /\ pendingOpen' = FALSE /\ wantOpen' = FALSE
    /\ ctl' = ctl + 1
    /\ UNCHANGED <<ringVars, respEv, cmdResp, caller, submitted, threadVars>>
    /\ UNCHANGED <<devVars, enqOrder>>

-----------------------------------------------------------------------------
(* The window thread: signetdev_filter_window_messasage.                   *)

\* DBT_DEVNODES_CHANGED: retry a pending open. The result is tested through
\* the uninitialized rc, whose value is whatever the stack held: non-zero
\* clears g_open_request_pending whatever the open did.
WinDevnodesChanged ==
    /\ winMsgs # <<>> /\ Head(winMsgs) = "changed"
    /\ winMsgs' = Tail(winMsgs)
    /\ \/ /\ pendingOpen /\ node = "present"
          /\ DeviceFound
       \/ /\ pendingOpen /\ node = "none"
          /\ \E rcNonZero \in BOOLEAN : OpenFailed(~rcNonZero)
          /\ UNCHANGED wantOpen
       \/ /\ ~pendingOpen
          /\ UNCHANGED <<handle, linked, rd, readEv, pendingOpen, wantOpen>>
    /\ UNCHANGED <<ringVars, callerVars, threadVars>>
    /\ UNCHANGED <<queue, cancelQ, tx, rx, rdPkt, wr, writeEv, wirePkt, fin, dispatched>>
    /\ UNCHANGED <<node, plugs, owed, got, enqOrder>>

\* DBT_DEVICEREMOVECOMPLETE for the registered handle: rawhid_close.
WinDeviceRemoved ==
    /\ winMsgs # <<>> /\ Head(winMsgs) = "remove"
    /\ winMsgs' = Tail(winMsgs)
    /\ Commit(RawhidClose(S))
    /\ UNCHANGED <<ringVars, callerVars, threadVars, pendingOpen, wantOpen>>
    /\ UNCHANGED <<node, linked, plugs, owed, got, enqOrder>>

-----------------------------------------------------------------------------
(* The device and the Windows device notifications.                        *)

\* The device takes the packet of the pending WriteFile; after the last
\* packet of a message that asks for one it owes a response.
DeviceConsume ==
    /\ wr = "pending"
    /\ wr' = "ok" /\ writeEv' = TRUE
    /\ LET p == wirePkt IN
         IF p.msg = NULL THEN UNCHANGED <<got, owed>>
         ELSE /\ got' = [got EXCEPT ![p.msg] = Append(@, p.seq)]
              /\ owed' = IF p.seq = Packets[p.msg] /\ p.msg \in Resp
                         THEN Append(owed, p.msg) ELSE owed
    /\ UNCHANGED <<ringVars, callerVars, threadVars, pendingOpen, wantOpen>>
    /\ UNCHANGED <<queue, cancelQ, tx, rx, handle, rd, readEv, rdPkt, wirePkt, fin, dispatched>>
    /\ UNCHANGED <<node, linked, plugs, winMsgs, enqOrder>>

\* The device's answer completes the pending ReadFile.
DeviceRespond ==
    /\ rd = "pending" /\ owed # <<>>
    /\ rd' = "ok" /\ rdPkt' = Head(owed) /\ readEv' = TRUE
    /\ owed' = Tail(owed)
    /\ UNCHANGED <<ringVars, callerVars, threadVars, pendingOpen, wantOpen>>
    /\ UNCHANGED <<queue, cancelQ, tx, rx, handle, wr, writeEv, wirePkt, fin, dispatched>>
    /\ UNCHANGED <<node, linked, plugs, winMsgs, got, enqOrder>>

\* Arrival posts DBT_DEVNODES_CHANGED.
Plug ==
    /\ "PLUG" \in EnvOps /\ node = "none" /\ plugs < MaxPlug
    /\ node' = "present" /\ plugs' = plugs + 1
    /\ winMsgs' = Append(winMsgs, "changed")
    /\ UNCHANGED <<ringVars, callerVars, threadVars, pendingOpen, wantOpen, connVars>>
    /\ UNCHANGED <<linked, owed, got, enqOrder>>

\* Removal fails the I/O in progress and posts DBT_DEVICEREMOVECOMPLETE
\* for a registered handle, then DBT_DEVNODES_CHANGED.
Unplug ==
    /\ "UNPLUG" \in EnvOps /\ node = "present" /\ plugs < MaxPlug
    /\ node' = "none" /\ plugs' = plugs + 1 /\ linked' = FALSE /\ owed' = <<>>
    /\ Commit(AbortIo(S))
    /\ winMsgs' = winMsgs \o (IF handle THEN <<"remove", "changed">> ELSE <<"changed">>)
    /\ UNCHANGED <<ringVars, callerVars, threadVars, pendingOpen, wantOpen, got, enqOrder>>

\* Any other device arriving or leaving also posts DBT_DEVNODES_CHANGED.
OtherDeviceChange ==
    /\ "OTHER" \in EnvOps /\ plugs < MaxPlug
    /\ plugs' = plugs + 1
    /\ winMsgs' = Append(winMsgs, "changed")
    /\ UNCHANGED <<ringVars, callerVars, threadVars, pendingOpen, wantOpen, connVars>>
    /\ UNCHANGED <<node, linked, owed, got, enqOrder>>

-----------------------------------------------------------------------------

\* signetdev_priv_platform_init: events, mutex and thread created; the ring,
\* queues and Tx/Rx state are zero-initialized globals.
Init ==
    /\ slots = [i \in 0..RingSize - 1 |-> NoCmd] /\ head = 0 /\ cmdEv = FALSE
    /\ respEv = FALSE /\ cmdResp = 0 /\ caller = "idle" /\ submitted = {} /\ ctl = 0
    /\ pc = "wait" /\ idx = 0 /\ entries = 0 /\ quitting = FALSE /\ emulating = FALSE
    /\ pendingOpen = FALSE /\ wantOpen = FALSE
    /\ queue = <<>> /\ cancelQ = <<>> /\ tx = NoTx /\ rx = NULL
    /\ handle = FALSE /\ rd = "idle" /\ readEv = FALSE /\ rdPkt = NULL
    /\ wr = "idle" /\ writeEv = FALSE /\ wirePkt = [msg |-> NULL, seq |-> 0]
    /\ node \in {"none", "present"} /\ linked = FALSE /\ plugs = 0
    /\ owed = <<>> /\ winMsgs = <<>> /\ got = [m \in Msgs |-> <<>>]
    /\ fin = [m \in Msgs |-> <<>>] /\ enqOrder = <<>> /\ dispatched = <<>>

Thread == ReadDone \/ WriteDone \/ CommandWake \/ DrainStep \/ DrainEnd

Window == WinDevnodesChanged \/ WinDeviceRemoved

Device == DeviceConsume \/ DeviceRespond

Environment ==
    \/ \E m \in Msgs : Submit(m)
    \/ IssueEmulateBegin \/ ReceiveResponse \/ IssueEmulateEnd \/ IssueQuit
    \/ Open \/ Close \/ Plug \/ Unplug \/ OtherDeviceChange

Next == Thread \/ Window \/ Device \/ Environment

\* The transaction thread, the window's message pump and the device run
\* whenever they can; the application and the user need not act.
Fairness == WF_vars(Thread) /\ WF_vars(Window) /\ WF_vars(Device)

Spec == Init /\ [][Next]_vars /\ Fairness

-----------------------------------------------------------------------------
(* Properties.                                                             *)

MsgOrNull == Msgs \cup {NULL}
Finalization == [code : Codes, by : MsgOrNull]
Cmds == {NoCmd} \cup [cmd : {"MESSAGE", "CANCEL_MESSAGE", "EMULATE_BEGIN",
                             "EMULATE_END", "QUIT"}, msg : MsgOrNull]

\* Every variable holds a value of its type; the Tx packet counter never
\* passes the message's packet count.
TypeOK ==
    /\ slots \in [0..RingSize - 1 -> Cmds] /\ head \in 0..RingSize - 1
    /\ {cmdEv, respEv, quitting, emulating, pendingOpen, wantOpen} \subseteq BOOLEAN
    /\ {handle, readEv, writeEv, linked} \subseteq BOOLEAN
    /\ cmdResp \in {0, 1} /\ caller \in {"idle", "blocked", "done"}
    /\ submitted \subseteq Msgs /\ ctl \in 0..MaxCtl /\ plugs \in 0..MaxPlug
    /\ pc \in {"wait", "drain", "exited", "faulted"}
    /\ idx \in 0..RingSize /\ entries \in 0..RingSize - 1
    /\ queue \in Seq(Msgs \ Interrupt) /\ cancelQ \in Seq(Interrupt)
    /\ tx.msg \in MsgOrNull /\ tx.seq \in 0..tx.count
    /\ tx.msg # NULL => tx.count = Packets[tx.msg]
    /\ rx \in (Msgs \ Interrupt) \cup {NULL}
    /\ rd \in IoStates /\ wr \in IoStates /\ rdPkt \in MsgOrNull
    /\ node \in {"none", "present"} /\ owed \in Seq(Resp)
    /\ winMsgs \in Seq({"changed", "remove"})
    /\ fin \in [Msgs -> Seq(Finalization)]

\* Spec 8, Ordering: normal messages leave the queue for the device in the
\* order process_send_message_req appended them.
QueuePosition(m) == CHOOSE i \in 1..Len(enqOrder) : enqOrder[i] = m
DispatchInQueueOrder ==
    \A i, j \in 1..Len(dispatched) :
        i < j => QueuePosition(dispatched[i]) < QueuePosition(dispatched[j])

\* Spec 1, facade: a message a caller submitted, before QUIT, is in the
\* command ring until the drain hands it to handle_command (queued, or
\* completed by the emulator); issue_command_no_resp never overwrites or
\* hides an entry the transaction thread has not read.
RingHoldsSubmitted ==
    ~quitting =>
        \A m \in submitted :
            \/ m \in ToSet(enqOrder)
            \/ fin[m] # <<>>
            \/ \E i \in 0..head - 1 : slots[i].msg = m

\* Spec 3, Message: a message is finalized at most once: by the write
\* completion, the response, or handle_error.
FinalizedAtMostOnce == \A m \in Msgs : Len(fin[m]) <= 1

\* Spec 3, Message: once queued, a message stays where the engine will
\* finalize it from (a queue, Tx or Rx) until it is finalized; the write
\* completion of a cancel message must not drop the awaited response.
NoMessageLost ==
    \A m \in ToSet(enqOrder) :
        \/ fin[m] # <<>>
        \/ m \in ToSet(queue) \cup ToSet(cancelQ) \cup {tx.msg, rx}

\* Spec 4.1: the message awaiting a response leaves g_rx_state only in a
\* step that finalizes it (its response, or handle_error); in particular
\* the write completion of a cancel message must not clear it.
RxReleasedOnlyByFinalize ==
    [][rx # NULL /\ rx' # rx => fin'[rx] # <<>>]_vars

\* A successful write completion is handled only while g_tx_state holds a
\* message (the handler dereferences it): a completion of an earlier
\* connection never reaches a reopened one with Tx cleared.
NoNullDereference == pc # "faulted"

\* Spec 5, Shutdown: when the transaction thread has left its loop on
\* g_quitting, every message a caller submitted has been finalized (queued,
\* in flight, or still in the ring behind QUIT).
QuitFinalizesAll ==
    pc = "exited" => \A m \in submitted : fin[m] # <<>>

\* Spec 2: every message the engine queued is eventually finalized, on a
\* device that answers (sent and, if it asks for one, answered).
QueuedEventuallyFinalized ==
    \A m \in Msgs :
        (m \in ToSet(queue) \cup ToSet(cancelQ)) ~> fin[m] # <<>>

\* Spec 4.4 and 6: while the caller's open is pending and the device is
\* plugged in, the window thread eventually opens it (unless it leaves).
OpenOnArrival ==
    (wantOpen /\ node = "present") ~> (handle \/ ~wantOpen \/ node = "none")

====
