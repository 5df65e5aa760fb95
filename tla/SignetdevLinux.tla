--------------------------- MODULE SignetdevLinux ---------------------------
(***************************************************************************)
(* The host-side engine of libsignetdev on Linux                           *)
(* (src/signetdev/host/signetdev_linux.c, signetdev_unix.c).               *)
(*                                                                         *)
(* Caller threads write command envelopes into g_command_pipe; the single  *)
(* transaction_thread drains the pipe, then runs raw_hid_io until both the *)
(* hidraw read and write would block, then sleeps in epoll_wait (edge      *)
(* triggered) on the pipe, an inotify watch on /dev and the device fd.     *)
(* The device is the collaborator of the spec: it consumes packets and     *)
(* answers each message that expects a response with one packet.           *)
(*                                                                         *)
(* The engine loop is cut at the points where the code returns to its     *)
(* loop: pc = "cmd" (command_pipe_io_iter), "deq", "read", "write" (one    *)
(* call of raw_hid_io), "wait" (epoll_wait), "exited" (after pthread_exit). *)
(***************************************************************************)
EXTENDS Integers, Sequences, SequencesExt

CONSTANTS
    Msgs,       \* send_message_req structs the callers submit
    Interrupt,  \* those with msg->interrupt set: cancel messages
    Resp,       \* those with msg->resp set: a response is expected
    Packets,    \* [Msgs -> Nat \ {0}]: msg_packet_count of each message
    WireCap,    \* packets the device input buffer takes before write() gives EAGAIN
    MaxCtl,     \* bound on OPEN/CLOSE/EMULATE_* commands the callers issue
    MaxPlug,    \* bound on plug / unplug events of the device
    EnvOps,     \* the caller and device operations this model lets happen
    NULL        \* the NULL pointer

ASSUME /\ Interrupt \subseteq Msgs /\ Resp \subseteq Msgs
       /\ Packets \in [Msgs -> Nat \ {0}]
       /\ WireCap \in Nat \ {0} /\ MaxCtl \in Nat /\ MaxPlug \in Nat
       /\ EnvOps \subseteq {"OPEN", "CLOSE", "EMULATE_BEGIN", "EMULATE_END",
                            "QUIT", "UNPLUG", "PLUG"}

Codes == {"ok", "disconnect", "quit"}   \* msg_size, SIGNET_ERROR_DISCONNECT, _QUIT
Names == {"signet", "hidraw"}           \* names of /dev entries inotify reports

VARIABLES
    pipe,       \* g_command_pipe: <<command, payload>> envelopes in flight
    respPipe,   \* g_command_resp_pipe: result bytes for synchronous commands
    caller,     \* the thread issuing synchronous commands: idle/blocked/joining
    submitted,  \* messages some caller has already handed to the facade
    ctl,        \* number of control commands issued so far
    pc,         \* where transaction_thread is
    opening,    \* g_opening_connection
    emulating,  \* g_emulating
    fd,         \* g_connection.fd >= 0
    queue,      \* head_message .. tail_message
    cancelQ,    \* head_cancel_message .. tail_cancel_message
    tx,         \* tx_state: message, msg_packet_seq, msg_packet_count
    rx,         \* rx_state.message
    ino,        \* events queued on g_inotify_fd and not yet read
    inoEdge,    \* an EPOLLET edge on g_inotify_fd since the last epoll_wait
    ioEdge,     \* an EPOLLET edge (IN/OUT/ERR) on the device fd since then
    node,       \* /dev: "none", "raw" (hidrawN only), "linked" (/dev/signet too)
    linked,     \* the open fd refers to the device that is plugged in now
    plugs,      \* number of plug / unplug events so far
    wire,       \* packets written and not yet consumed by the device
    owed,       \* messages the device has fully received and still owes an answer
    devOut,     \* response packets queued for read() on the fd (tagged by message)
    got,        \* history: packet numbers the device received, per message
    fin,        \* history: finalizations of each message, in order
    enqOrder,   \* history: messages in the order handle_command queued them
    dispatched  \* history: normal messages in the order raw_hid_io took them

facadeVars  == <<pipe, respPipe, caller, submitted, ctl>>
engineVars  == <<pc, opening, emulating, fd, queue, cancelQ, tx, rx>>
kernelVars  == <<ino, inoEdge, ioEdge>>
deviceVars  == <<node, linked, plugs, wire, owed, devOut, got>>
historyVars == <<fin, enqOrder, dispatched>>
vars == <<facadeVars, engineVars, kernelVars, deviceVars, historyVars>>

NoTx == [msg |-> NULL, seq |-> 0, count |-> 0]
Present == node = "linked"

-----------------------------------------------------------------------------
(* Helpers of the engine.                                                  *)

\* signetdev_priv_finalize_message: record the completion and clear the slot.
Finalize(m, code, by) == [fin EXCEPT ![m] = Append(@, [code |-> code, by |-> by])]

\* signetdev_priv_prepare_message_state: a fresh Tx state for m.
PrepareMessageState(m) == [msg |-> m, seq |-> 0, count |-> Packets[m]]

\* pending_message(): the Rx message, else a non-interrupt Tx message.
PendingMessage ==
    IF rx # NULL THEN rx
    ELSE IF tx.msg # NULL /\ tx.msg \notin Interrupt THEN tx.msg
    ELSE NULL

FinalizePending(code) ==
    IF PendingMessage = NULL THEN fin ELSE Finalize(PendingMessage, code, NULL)

\* handle_error(): close the fd, finalize the pending message, drop Tx/Rx.
HandleError ==
    /\ fd' = FALSE
    /\ devOut' = <<>>
    /\ fin' = FinalizePending("disconnect")
    /\ tx' = [tx EXCEPT !.msg = NULL]
    /\ rx' = NULL

\* signetdev_priv_process_rx_packet for a one-packet response p: it
\* completes the Rx message, whatever message p answers.
ProcessRxPacket(p) ==
    IF rx # NULL THEN /\ fin' = Finalize(rx, "ok", p)
                      /\ rx' = NULL
                 ELSE UNCHANGED <<fin, rx>>

\* attempt_open_connection(path) with no fd open: open(path) succeeds iff
\* nodeOk; success wipes the connection (memset), failure sets
\* g_opening_connection.
OpenConnection(nodeOk) ==
    \/ /\ nodeOk
       /\ fd' = TRUE /\ linked' = TRUE /\ opening' = FALSE /\ devOut' = <<>>
       /\ queue' = <<>> /\ cancelQ' = <<>> /\ tx' = NoTx /\ rx' = NULL
    \/ /\ ~nodeOk
       /\ opening' = TRUE
       /\ UNCHANGED <<fd, linked, devOut, queue, cancelQ, tx, rx>>

\* attempt_open_connection(path): an fd already open counts as success.
AttemptOpenConnection(nodeOk) ==
    \/ /\ fd
       /\ opening' = FALSE
       /\ UNCHANGED <<fd, linked, devOut, queue, cancelQ, tx, rx>>
    \/ /\ ~fd
       /\ OpenConnection(nodeOk)

-----------------------------------------------------------------------------
(* handle_command: one envelope taken from the pipe by command_pipe_io_iter *)

Command(k) ==
    /\ pc = "cmd" /\ pipe # <<>> /\ Head(pipe).cmd = k
    /\ pipe' = Tail(pipe)

CommandResponse(rc) == respPipe' = Append(respPipe, rc)

EmulateBegin ==
    /\ Command("EMULATE_BEGIN")
    /\ IF ~opening /\ ~fd THEN emulating' = TRUE /\ CommandResponse(1)
                          ELSE UNCHANGED emulating /\ CommandResponse(0)
    /\ UNCHANGED <<caller, submitted, ctl, pc, opening, fd, queue, cancelQ, tx, rx>>
    /\ UNCHANGED <<kernelVars, deviceVars, historyVars>>

EmulateEnd ==
    /\ Command("EMULATE_END")
    /\ emulating' = FALSE
    /\ UNCHANGED <<respPipe, caller, submitted, ctl, pc, opening, fd, queue, cancelQ, tx, rx>>
    /\ UNCHANGED <<kernelVars, deviceVars, historyVars>>

\* Both device names are tried; one device of either variant is modelled,
\* so the second attempt fails exactly when the first does.
Open ==
    /\ Command("OPEN")
    /\ AttemptOpenConnection(Present)
    /\ CommandResponse(IF fd' THEN 0 ELSE -1)
    /\ UNCHANGED <<caller, submitted, ctl, pc, emulating>>
    /\ UNCHANGED <<kernelVars, node, plugs, wire, owed, got, historyVars>>

Close ==
    /\ Command("CLOSE")
    /\ opening' = FALSE
    /\ fd' = FALSE
    /\ devOut' = IF fd THEN <<>> ELSE devOut
    /\ UNCHANGED <<respPipe, caller, submitted, ctl, pc, emulating, queue, cancelQ, tx, rx>>
    /\ UNCHANGED <<kernelVars, node, linked, plugs, wire, owed, got, historyVars>>

\* Mutant: a message is pushed at the head of its queue.
MessagePushFront ==
    /\ \E k \in {"MESSAGE", "CANCEL_MESSAGE"} : Command(k)
    /\ LET m == Head(pipe).msg IN
         IF emulating
         THEN /\ fin' = Finalize(m, "ok", NULL)
              /\ UNCHANGED <<queue, cancelQ, enqOrder>>
         ELSE /\ IF m \in Interrupt
                 THEN cancelQ' = <<m>> \o cancelQ /\ UNCHANGED queue
                 ELSE queue' = <<m>> \o queue /\ UNCHANGED cancelQ
              /\ enqOrder' = Append(enqOrder, m)
              /\ UNCHANGED fin
    /\ UNCHANGED <<respPipe, caller, submitted, ctl, pc, opening, emulating, fd, tx, rx>>
    /\ UNCHANGED <<kernelVars, deviceVars, dispatched>>

\* SIGNETDEV_CMD_MESSAGE and SIGNETDEV_CMD_CANCEL_MESSAGE: handed to the
\* emulator (which completes it at once) or appended to their queue.
Message ==
    /\ \E k \in {"MESSAGE", "CANCEL_MESSAGE"} : Command(k)
    /\ LET m == Head(pipe).msg IN
         IF emulating
         THEN /\ fin' = Finalize(m, "ok", NULL)
              /\ UNCHANGED <<queue, cancelQ, enqOrder>>
         ELSE /\ IF m \in Interrupt
                 THEN cancelQ' = Append(cancelQ, m) /\ UNCHANGED queue
                 ELSE queue' = Append(queue, m) /\ UNCHANGED cancelQ
              /\ enqOrder' = Append(enqOrder, m)
              /\ UNCHANGED fin
    /\ UNCHANGED <<respPipe, caller, submitted, ctl, pc, opening, emulating, fd, tx, rx>>
    /\ UNCHANGED <<kernelVars, deviceVars, dispatched>>

\* pthread_exit runs the cleanup handler handle_exit().
Quit ==
    /\ Command("QUIT")
    /\ pc' = "exited"
    /\ fin' = FinalizePending("quit")
    /\ fd' = FALSE
    /\ UNCHANGED <<respPipe, caller, submitted, ctl, opening, emulating, queue, cancelQ, tx, rx>>
    /\ UNCHANGED <<kernelVars, deviceVars, enqOrder, dispatched>>

\* Mutant: after the pipe is drained the engine always goes to epoll_wait.
CommandsDrainedToWait ==
    /\ pc = "cmd" /\ pipe = <<>>
    /\ pc' = "wait"
    /\ UNCHANGED <<facadeVars, opening, emulating, fd, queue, cancelQ, tx, rx>>
    /\ UNCHANGED <<kernelVars, deviceVars, historyVars>>

\* read() on the pipe gives EAGAIN: go on to the device, or to epoll_wait.
CommandsDrained ==
    /\ pc = "cmd" /\ pipe = <<>>
    /\ pc' = IF fd THEN "deq" ELSE "wait"
    /\ UNCHANGED <<facadeVars, opening, emulating, fd, queue, cancelQ, tx, rx>>
    /\ UNCHANGED <<kernelVars, deviceVars, historyVars>>

-----------------------------------------------------------------------------
(* raw_hid_io: take a message if Tx is idle, then read, then write.        *)

\* Mutant: a cancel message is also recorded as awaiting a response.
TakeCancelAwaitingResponse ==
    /\ cancelQ # <<>>
    /\ tx' = PrepareMessageState(Head(cancelQ))
    /\ rx' = Head(cancelQ)
    /\ cancelQ' = Tail(cancelQ)
    /\ UNCHANGED <<queue, dispatched>>

TakeCancel ==
    /\ cancelQ # <<>>
    /\ tx' = PrepareMessageState(Head(cancelQ))
    /\ cancelQ' = Tail(cancelQ)
    /\ UNCHANGED <<queue, rx, dispatched>>

\* Mutant: a normal message is taken while a response is still awaited.
TakeMessageWhileRx ==
    /\ cancelQ = <<>> /\ queue # <<>>
    /\ tx' = PrepareMessageState(Head(queue))
    /\ rx' = IF Head(queue) \in Resp THEN Head(queue) ELSE rx
    /\ queue' = Tail(queue)
    /\ dispatched' = Append(dispatched, Head(queue))
    /\ UNCHANGED cancelQ

TakeMessage ==
    /\ cancelQ = <<>> /\ queue # <<>> /\ rx = NULL
    /\ tx' = PrepareMessageState(Head(queue))
    /\ rx' = IF Head(queue) \in Resp THEN Head(queue) ELSE rx
    /\ queue' = Tail(queue)
    /\ dispatched' = Append(dispatched, Head(queue))
    /\ UNCHANGED cancelQ

Dequeue ==
    /\ pc = "deq" /\ pc' = "read"
    /\ \/ tx.msg = NULL /\ TakeCancel
       \/ tx.msg = NULL /\ TakeMessage
       \/ /\ \/ tx.msg # NULL
             \/ cancelQ = <<>> /\ (queue = <<>> \/ rx # NULL)
          /\ UNCHANGED <<queue, cancelQ, tx, rx, dispatched>>
    /\ UNCHANGED <<facadeVars, opening, emulating, fd>>
    /\ UNCHANGED <<kernelVars, deviceVars, fin, enqOrder>>

\* attempt_raw_hid_read: a packet (loop again), EAGAIN or an error (go on
\* to the write).
Read ==
    /\ pc = "read"
    /\ \/ /\ fd /\ linked /\ devOut # <<>>
          /\ ProcessRxPacket(Head(devOut))
          /\ devOut' = Tail(devOut)
          /\ pc' = "deq"
          /\ UNCHANGED <<fd, tx>>
       \/ /\ fd /\ linked /\ devOut = <<>>
          /\ pc' = "write"
          /\ UNCHANGED <<fd, tx, rx, devOut, fin>>
       \/ /\ ~(fd /\ linked)
          /\ HandleError
          /\ pc' = "write"
    /\ UNCHANGED <<facadeVars, opening, emulating, queue, cancelQ>>
    /\ UNCHANGED <<kernelVars, node, linked, plugs, wire, owed, got, enqOrder, dispatched>>

\* attempt_raw_hid_write. The Tx state is advanced before write() is called.
Write ==
    /\ pc = "write"
    /\ \/ /\ tx.msg = NULL
          /\ pc' = "wait"
          /\ UNCHANGED <<fd, tx, rx, devOut, wire, fin>>
       \/ /\ tx.msg # NULL /\ tx.seq = tx.count
          /\ fin' = IF tx.msg \notin Resp THEN Finalize(tx.msg, "ok", NULL) ELSE fin
          /\ tx' = [tx EXCEPT !.msg = NULL]
          /\ pc' = "deq"
          /\ UNCHANGED <<fd, rx, devOut, wire>>
       \/ /\ tx.msg # NULL /\ tx.seq < tx.count
          /\ LET adv == [tx EXCEPT !.seq = @ + 1] IN
               \/ /\ fd /\ linked /\ Len(wire) < WireCap
                  /\ wire' = Append(wire, [msg |-> tx.msg, seq |-> adv.seq])
                  /\ tx' = adv
                  /\ pc' = "deq"
                  /\ UNCHANGED <<fd, rx, devOut, fin>>
               \/ /\ fd /\ linked /\ Len(wire) = WireCap
                  /\ tx' = adv
                  /\ pc' = "wait"
                  /\ UNCHANGED <<fd, rx, devOut, wire, fin>>
               \/ /\ ~(fd /\ linked)
                  /\ HandleError
                  /\ pc' = "deq"
                  /\ UNCHANGED wire
    /\ UNCHANGED <<facadeVars, opening, emulating, queue, cancelQ>>
    /\ UNCHANGED <<kernelVars, node, linked, plugs, owed, got, enqOrder, dispatched>>

-----------------------------------------------------------------------------
(* epoll_wait and the handlers of the events it returns.                   *)

\* inotify_fd_readable() while g_opening_connection: one read() takes every
\* queued event; each name is strncat'ed onto the same path buffer, so only
\* the first event of the batch names a real file. g_opening_connection is
\* only ever set while no fd is open, so attempt_open_connection opens.
InotifyReadable ==
    /\ ino' = <<>>
    /\ OpenConnection(Head(ino) = "signet" /\ Present)
    /\ UNCHANGED emulating

WaitInotify ==
    /\ inoEdge /\ opening /\ ino # <<>>
    /\ InotifyReadable
    /\ UNCHANGED <<fin>>

WaitDeviceError ==
    /\ ioEdge /\ fd /\ ~linked
    /\ HandleError
    /\ UNCHANGED <<ino, opening, emulating, linked, queue, cancelQ>>

WaitNothingToDo ==
    /\ ~(inoEdge /\ opening /\ ino # <<>>) /\ ~(ioEdge /\ fd /\ ~linked)
    /\ UNCHANGED <<ino, opening, emulating, fd, linked, devOut, queue, cancelQ, tx, rx, fin>>

EpollWait ==
    /\ pc = "wait"
    /\ \/ pipe # <<>>
       \/ inoEdge
       \/ ioEdge
    /\ inoEdge' = FALSE /\ ioEdge' = FALSE
    /\ pc' = "cmd"
    /\ WaitInotify \/ WaitDeviceError \/ WaitNothingToDo
    /\ UNCHANGED <<facadeVars, node, plugs, wire, owed, got, enqOrder, dispatched>>

-----------------------------------------------------------------------------
(* Callers: signetdev_priv_issue_command(_no_resp) on the public API.      *)

Submit(m) ==
    /\ m \notin submitted
    /\ submitted' = submitted \cup {m}
    /\ pipe' = Append(pipe, [cmd |-> IF m \in Interrupt THEN "CANCEL_MESSAGE" ELSE "MESSAGE",
                             msg |-> m])
    /\ UNCHANGED <<respPipe, caller, ctl, engineVars, kernelVars, deviceVars, historyVars>>

\* signetdev_open_connection and EMULATE_BEGIN: write, then block on the
\* response pipe. One thread issues the synchronous commands.
IssueSync(k) ==
    /\ k \in EnvOps /\ caller = "idle" /\ ctl < MaxCtl
    /\ pipe' = Append(pipe, [cmd |-> k, msg |-> NULL])
    /\ caller' = "blocked" /\ ctl' = ctl + 1
    /\ UNCHANGED <<respPipe, submitted, engineVars, kernelVars, deviceVars, historyVars>>

IssueAsync(k) ==
    /\ k \in EnvOps /\ ctl < MaxCtl
    /\ pipe' = Append(pipe, [cmd |-> k, msg |-> NULL])
    /\ ctl' = ctl + 1
    /\ UNCHANGED <<respPipe, caller, submitted, engineVars, kernelVars, deviceVars, historyVars>>

ReceiveResponse ==
    /\ caller = "blocked" /\ respPipe # <<>>
    /\ respPipe' = Tail(respPipe) /\ caller' = "idle"
    /\ UNCHANGED <<pipe, submitted, ctl, engineVars, kernelVars, deviceVars, historyVars>>

\* signetdev_priv_platform_deinit: QUIT, then pthread_join.
IssueQuit ==
    /\ "QUIT" \in EnvOps /\ caller = "idle"
    /\ pipe' = Append(pipe, [cmd |-> "QUIT", msg |-> NULL])
    /\ caller' = "joining"
    /\ UNCHANGED <<respPipe, submitted, ctl, engineVars, kernelVars, deviceVars, historyVars>>

-----------------------------------------------------------------------------
(* The device and /dev.                                                    *)

DeviceConsume ==
    /\ wire # <<>>
    /\ LET p == Head(wire) IN
         /\ got' = [got EXCEPT ![p.msg] = Append(@, p.seq)]
         /\ owed' = IF p.seq = Packets[p.msg] /\ p.msg \in Resp
                    THEN Append(owed, p.msg) ELSE owed
    /\ wire' = Tail(wire)
    /\ ioEdge' = TRUE
    /\ UNCHANGED <<facadeVars, engineVars, ino, inoEdge, node, linked, plugs, devOut, historyVars>>

\* The answer reaches read() only while an fd is open on the device.
DeviceRespond ==
    /\ owed # <<>>
    /\ owed' = Tail(owed)
    /\ devOut' = IF fd /\ linked THEN Append(devOut, Head(owed)) ELSE devOut
    /\ ioEdge' = TRUE
    /\ UNCHANGED <<facadeVars, engineVars, ino, inoEdge, node, linked, plugs, wire, got, historyVars>>

\* Plugging in: the kernel creates /dev/hidrawN, then udev the /dev/signet link.
PlugRaw ==
    /\ "PLUG" \in EnvOps /\ node = "none" /\ plugs < MaxPlug
    /\ node' = "raw" /\ plugs' = plugs + 1
    /\ ino' = Append(ino, "hidraw") /\ inoEdge' = TRUE
    /\ UNCHANGED <<facadeVars, engineVars, ioEdge, linked, wire, owed, devOut, got, historyVars>>

PlugLink ==
    /\ node = "raw"
    /\ node' = "linked"
    /\ ino' = Append(ino, "signet") /\ inoEdge' = TRUE
    /\ UNCHANGED <<facadeVars, engineVars, ioEdge, linked, plugs, wire, owed, devOut, got, historyVars>>

Unplug ==
    /\ "UNPLUG" \in EnvOps /\ Present /\ plugs < MaxPlug
    /\ node' = "none" /\ plugs' = plugs + 1 /\ linked' = FALSE
    /\ wire' = <<>> /\ owed' = <<>> /\ devOut' = <<>>
    /\ ino' = ino \o <<"signet", "hidraw">> /\ inoEdge' = TRUE
    /\ ioEdge' = TRUE
    /\ UNCHANGED <<facadeVars, engineVars, got, historyVars>>

-----------------------------------------------------------------------------

Init ==
    /\ pipe = <<>> /\ respPipe = <<>> /\ caller = "idle" /\ submitted = {} /\ ctl = 0
    /\ pc = "cmd" /\ opening = FALSE /\ emulating = FALSE /\ fd = FALSE
    /\ queue = <<>> /\ cancelQ = <<>> /\ tx = NoTx /\ rx = NULL
    /\ ino = <<>> /\ inoEdge = FALSE /\ ioEdge = FALSE
    /\ node \in {"none", "linked"} /\ linked = FALSE /\ plugs = 0
    /\ wire = <<>> /\ owed = <<>> /\ devOut = <<>>
    /\ got = [m \in Msgs |-> <<>>]
    /\ fin = [m \in Msgs |-> <<>>] /\ enqOrder = <<>> /\ dispatched = <<>>

Engine ==
    \/ EmulateBegin \/ EmulateEnd \/ Open \/ Close \/ Message \/ Quit
    \/ CommandsDrained \/ Dequeue \/ Read \/ Write \/ EpollWait

Device == DeviceConsume \/ DeviceRespond

Environment ==
    \/ \E m \in Msgs : Submit(m)
    \/ \E k \in {"OPEN", "EMULATE_BEGIN"} : IssueSync(k)
    \/ \E k \in {"CLOSE", "EMULATE_END"} : IssueAsync(k)
    \/ ReceiveResponse \/ IssueQuit
    \/ PlugRaw \/ PlugLink \/ Unplug

Next == Engine \/ Device \/ Environment

\* The engine thread runs whenever it is not blocked in epoll_wait, and the
\* device keeps consuming packets and answering; callers and the user who
\* plugs the device owe nothing.
Fairness == WF_vars(Engine) /\ WF_vars(Device)

Spec == Init /\ [][Next]_vars /\ Fairness

-----------------------------------------------------------------------------
(* Properties.                                                             *)

MsgOrNull == Msgs \cup {NULL}
Finalization == [code : Codes, by : MsgOrNull]

\* Every variable holds a value of its type; the Tx packet counter never
\* passes the message's packet count.
TypeOK ==
    /\ pc \in {"cmd", "deq", "read", "write", "wait", "exited"}
    /\ caller \in {"idle", "blocked", "joining"}
    /\ {opening, emulating, fd, linked, inoEdge, ioEdge} \subseteq BOOLEAN
    /\ submitted \subseteq Msgs /\ ctl \in 0..MaxCtl /\ plugs \in 0..MaxPlug
    /\ node \in {"none", "raw", "linked"}
    /\ queue \in Seq(Msgs \ Interrupt) /\ cancelQ \in Seq(Interrupt)
    /\ tx.msg \in MsgOrNull /\ tx.seq \in 0..tx.count
    /\ tx.msg # NULL => tx.count = Packets[tx.msg]
    /\ rx \in (Resp \ Interrupt) \cup {NULL}
    /\ ino \in Seq(Names) /\ owed \in Seq(Msgs) /\ devOut \in Seq(Msgs)
    /\ fin \in [Msgs -> Seq(Finalization)]

\* Spec 3, Connection: Tx and Rx hold different messages only while a
\* cancel message, taken by raw_hid_io ahead of the queue, is being sent
\* during the wait for a response. It fails if raw_hid_io starts a normal
\* message while a response is still awaited.
TxRxShareUnlessInterrupt ==
    (tx.msg # NULL /\ rx # NULL /\ tx.msg # rx) => tx.msg \in Interrupt

\* Spec 8, Ordering: normal messages leave the queue for the wire in the
\* order handle_command queued them (memset on reopen may drop some).
QueuePosition(m) == CHOOSE i \in 1..Len(enqOrder) : enqOrder[i] = m
DispatchInQueueOrder ==
    \A i, j \in 1..Len(dispatched) :
        i < j => QueuePosition(dispatched[i]) < QueuePosition(dispatched[j])

\* Spec 3, Message: a message is finalized at most once, along one path.
\* The engine finalizes through pending_message(), process_rx_packet and
\* the write completion; none of them may reach a completed message again.
FinalizedAtMostOnce == \A m \in Msgs : Len(fin[m]) <= 1

\* Spec 5, Shutdown: when transaction_thread has exited (handle_exit), no
\* message the engine accepted is left unfinalized in its queues.
QuitFinalizesAll ==
    pc = "exited" => \A m \in ToSet(queue) \cup ToSet(cancelQ) : fin[m] # <<>>

\* Spec 3, Message: once the engine has accepted a message it stays
\* somewhere the engine will finalize it from (a queue, Tx or Rx) until it
\* is finalized: open, close and errors never drop one.
NoMessageLost ==
    \A m \in ToSet(enqOrder) :
        \/ fin[m] # <<>>
        \/ m \in ToSet(queue) \cup ToSet(cancelQ) \cup {tx.msg, rx}

\* Spec 6, framing: the device receives the packets of each message in
\* order, none skipped (attempt_raw_hid_write advances before write()).
PacketsInOrder == \A m \in Msgs : got[m] = [i \in 1..Len(got[m]) |-> i]

\* Spec 4.1: a message completed by a response is completed by its own
\* response, not by one the device still owed an earlier message.
CompletedByOwnResponse ==
    \A m \in Msgs : \A i \in 1..Len(fin[m]) :
        fin[m][i].by # NULL => fin[m][i].by = m

\* Spec 2: every message queued on an open connection is eventually
\* finalized (sent and, if it asks for one, answered).
QueuedEventuallyFinalized ==
    \A m \in Msgs :
        (fd /\ m \in ToSet(queue) \cup ToSet(cancelQ)) ~> fin[m] # <<>>

\* Spec 4.4: while an open is pending and /dev/signet exists, the inotify
\* handler eventually opens the device.
OpenOnArrival == (opening /\ Present) ~> (fd \/ ~opening)


-----------------------------------------------------------------------------
(* Refinement.                                                             *)

Transport == INSTANCE MessageTransport WITH accepted <- submitted, order <- dispatched

\* The engine implements MessageTransport: every step of handle_command,
\* raw_hid_io and the device is a step of the abstract transport or leaves
\* its state alone, so messages are finalized once, only after a caller
\* submitted them, normal ones one at a time, and with their own response.
TransportRefined == Transport!Spec

=============================================================================
