------------------------------- MODULE MscBot -------------------------------
(***************************************************************************)
(* The USB mass-storage Bulk-Only Transport of the HC firmware             *)
(* (src/firmware-hc/usbd_msc_bot.c) against a host that follows the BOT    *)
(* protocol: CBW, optional data phase, CSW, and Reset Recovery.            *)
(*                                                                         *)
(* The device side is the code's handlers, each run atomically in the USB  *)
(* interrupt: MSC_BOT_DataOut (an OUT transfer completed), MSC_BOT_DataIn  *)
(* (an IN transfer completed), MSC_BOT_CplClrFeature (after the core       *)
(* handled CLEAR_FEATURE(ENDPOINT_HALT)) and MSC_BOT_Reset (the class      *)
(* request).  The SCSI layer (usbd_msc_scsi.c, not under src/) and the     *)
(* endpoint primitives are modelled at their interface: SCSI_ProcessCmd    *)
(* returns 0 or -1 and leaves bot_state and bot_data_length; an endpoint   *)
(* holds one prepared receive or one transmission, and may be stalled.     *)
(* The core flushes an endpoint before it calls MSC_BOT_CplClrFeature.    *)
(***************************************************************************)
EXTENDS Integers, FiniteSets

CONSTANTS
    Lengths,      \* dDataLength values the host puts in a CBW
    ResidueBits,  \* width of dDataResidue (32 in the code)
    MaxCmds,      \* bound on the CBWs the host sends
    Mismatch,     \* the CDB may ask for a length other than dDataLength
    Invalid,      \* the host may send a CBW the device must reject
    Timeout,      \* the host may give up waiting and run Reset Recovery
    Chunk         \* MSC_MEDIA_PACKET: bytes SCSI moves per READ/WRITE step

ASSUME /\ Lengths \subseteq Nat /\ ResidueBits \in Nat \ {0}
       /\ MaxCmds \in Nat /\ Chunk \in Nat \ {0}
       /\ \A l \in Lengths : l < 2 ^ ResidueBits
       /\ {Mismatch, Invalid, Timeout} \subseteq BOOLEAN

States == {"IDLE", "DATA_OUT", "DATA_IN", "LAST_DATA_IN", "SEND_DATA",
           "NO_DATA"}
Statuses == {"NORMAL", "RECOVERY", "ERROR"}

\* dDataResidue is a uint32_t.
Residue(x) == x % (2 ^ ResidueBits)

\* A CBW as the device sees it: bmFlags 0x80 is device-to-host; "valid"
\* stands for the length, signature, bLUN and bCBLength tests of
\* MSC_BOT_CBW_Decode; alloc is the length the CDB itself asks for.
Cbws == [dTag : 0..MaxCmds, dDataLength : Lengths, bmFlags : {0, 128},
         alloc : Lengths, valid : BOOLEAN]
NoCbw == [dTag |-> 0, dDataLength |-> 0, bmFlags |-> 0, alloc |-> 0,
          valid |-> FALSE]
Csws == [dTag : 0..MaxCmds, dDataResidue : 0..(2 ^ ResidueBits - 1),
         bStatus : {"PASSED", "FAILED"}]
NoCsw == [dTag |-> 0, dDataResidue |-> 0, bStatus |-> "PASSED"]

\* What the IN endpoint transmits: nothing, data, or the CSW.  "ends"
\* marks data that ends the data phase (a short or the last transfer).
NoTx == [kind |-> "none", len |-> 0, ends |-> FALSE, csw |-> NoCsw]

VARIABLES
    hmsc,       \* USBD_MSC_BOT_HandleTypeDef: bot_state, bot_status, cbw,
                \* csw, bot_data_length, and SCSI's scsi_blk_len
    ep,         \* the bulk endpoints: out (the buffer a prepared receive
                \* fills: "cbw", "data" or "none"), outStall, inStall, inTx
    outPkt,     \* the host's OUT transfer not yet taken by the endpoint
    host,       \* the host's BOT phase
    hostCbw,    \* the CBW the host is running
    xfer,       \* data bytes of this command that crossed the bus
    retried,    \* the host already cleared a stall on its CSW read
    cmds,       \* CBWs sent so far
    lastCsw     \* history: the last CSW the host accepted, with its CBW
                \* and the bytes transferred

vars == <<hmsc, ep, outPkt, host, hostCbw, xfer, retried, cmds, lastCsw>>

Phases == {"idle", "dataIn", "dataOut", "status", "recover", "recoverIn",
           "recoverOut"}
NoPkt == [kind |-> "none", cbw |-> NoCbw, len |-> 0]

\* MSC_BOT_Init: idle, normal, endpoints flushed, a receive prepared.
InitHmsc == [bot_state |-> "IDLE", bot_status |-> "NORMAL", cbw |-> NoCbw,
             csw |-> NoCsw, bot_data_length |-> 0, blk_len |-> 0]
InitEp == [out |-> "cbw", inStall |-> FALSE, outStall |-> FALSE,
           inTx |-> NoTx]

Init ==
    /\ hmsc = InitHmsc /\ ep = InitEp
    /\ outPkt = NoPkt /\ host = "idle" /\ hostCbw = NoCbw /\ xfer = 0
    /\ retried = FALSE /\ cmds = 0
    /\ lastCsw = [csw |-> NoCsw, cbw |-> NoCbw, xfer |-> 0]

-----------------------------------------------------------------------------
(* The device's functions, as operators on s = [h |-> hmsc, e |-> ep].    *)

Min2(a, b) == IF a < b THEN a ELSE b

StallIn(s) == [s EXCEPT !.e.inStall = TRUE]

MSC_BOT_SendCSW(s, status) ==
    LET csw == [s.h.csw EXCEPT !.bStatus = status]
    IN [h |-> [s.h EXCEPT !.csw = csw, !.bot_state = "IDLE"],
        e |-> [s.e EXCEPT !.inTx = [NoTx EXCEPT !.kind = "csw", !.csw = csw],
                          !.out = "cbw"]]

\* The residue is decreased by the length asked for, while the length
\* sent is cut to dDataLength.
MSC_BOT_SendData(s, len) ==
    LET length == Min2(s.h.cbw.dDataLength, len)
    IN [h |-> [s.h EXCEPT !.csw.dDataResidue = Residue(@ - len),
                          !.csw.bStatus = "PASSED",
                          !.bot_state = "SEND_DATA"],
        e |-> [s.e EXCEPT !.inTx = [NoTx EXCEPT !.kind = "data",
                                    !.len = length, !.ends = TRUE]]]

MSC_BOT_Abort(s) ==
    [s EXCEPT
        !.e.outStall = @ \/ (/\ s.h.cbw.bmFlags = 0
                             /\ s.h.cbw.dDataLength # 0
                             /\ s.h.bot_status = "NORMAL"),
        !.e.inStall = TRUE,
        !.e.out = IF s.h.bot_status = "ERROR" THEN "cbw" ELSE @]

(* SCSI_ProcessCmd (usbd_msc_scsi.c) at its interface: the set of its     *)
(* results [ret, s].  READ(10) and WRITE(10) move Chunk bytes a step and  *)
(* take the residue down by what they moved; other commands leave         *)
(* bot_data_length bytes of reply for MSC_BOT_SendData, at most what the  *)
(* CDB's allocation length asks for.  A failure sets sense data only.     *)
ScsiProcessRead(s) ==
    LET len == Min2(s.h.blk_len, Chunk)
        blk == s.h.blk_len - len
    IN [h |-> [s.h EXCEPT !.blk_len = blk,
                          !.csw.dDataResidue = Residue(@ - len),
                          !.bot_state = IF blk = 0 THEN "LAST_DATA_IN"
                                                   ELSE "DATA_IN"],
        e |-> [s.e EXCEPT !.inTx = [NoTx EXCEPT !.kind = "data", !.len = len,
                                    !.ends = (blk = 0)]]]

ScsiProcessWrite(s) ==
    LET len == Min2(s.h.blk_len, Chunk)
        t == [s EXCEPT !.h.blk_len = @ - len,
                       !.h.csw.dDataResidue = Residue(@ - len)]
    IN IF t.h.blk_len = 0 THEN MSC_BOT_SendCSW(t, "PASSED")
                          ELSE [t EXCEPT !.e.out = "data"]

ScsiFail(s) ==
    {[ret |-> -1, s |-> s]} \cup
    IF s.h.bot_state = "IDLE" /\ s.h.cbw.dDataLength = 0
    THEN {[ret |-> -1, s |-> [s EXCEPT !.h.bot_state = "NO_DATA"]]} ELSE {}

ScsiProcessCmd(s) ==
    LET c == s.h.cbw
        Ok(t) == {[ret |-> 0, s |-> t]}
        Reply(n) == [s EXCEPT !.h.bot_data_length = n]
        burst == c.alloc = c.dDataLength /\ c.dDataLength > 0
    IN ScsiFail(s) \cup
       CASE s.h.bot_state = "DATA_IN" -> Ok(ScsiProcessRead(s))
         [] s.h.bot_state = "DATA_OUT" -> Ok(ScsiProcessWrite(s))
         [] OTHER ->
              (IF c.dDataLength = 0 \/ c.alloc = 0 THEN Ok(Reply(0)) ELSE {})
              \cup UNION {Ok(Reply(n)) : n \in {n \in Lengths : 0 < n /\ n <= c.alloc
                                                     /\ c.bmFlags = 128}}
              \cup (IF burst /\ c.bmFlags = 128
                    THEN Ok(ScsiProcessRead([s EXCEPT !.h.blk_len = c.dDataLength]))
                    ELSE {})
              \cup (IF burst /\ c.bmFlags = 0
                    THEN Ok([s EXCEPT !.h.blk_len = c.dDataLength,
                                      !.h.bot_state = "DATA_OUT",
                                      !.e.out = "data"])
                    ELSE {})

\* After SCSI_ProcessCmd returned 0 in MSC_BOT_CBW_Decode.
DecodeOk(s) ==
    CASE s.h.bot_state \in {"DATA_IN", "DATA_OUT", "LAST_DATA_IN",
                            "SEND_DATA"} -> s
      [] s.h.bot_data_length > 0 -> MSC_BOT_SendData(s, s.h.bot_data_length)
      [] OTHER -> MSC_BOT_SendCSW(s, "PASSED")

\* A CBW that passed the tests: run the command.
DecodeProcess(t) ==
    {IF r.ret < 0
     THEN IF r.s.h.bot_state = "NO_DATA"
          THEN MSC_BOT_SendCSW(StallIn(r.s), "FAILED")
          ELSE MSC_BOT_Abort(r.s)
     ELSE DecodeOk(r.s) : r \in ScsiProcessCmd(t)}

\* A CBW that failed them: sense ILLEGAL_REQUEST, status ERROR, abort.
DecodeInvalid(t) == {MSC_BOT_Abort([t EXCEPT !.h.bot_status = "ERROR"])}

\* Mutants of MSC_BOT_CBW_Decode: the residue set one short, the residue
\* left from the previous command, the CBW tests dropped.
CBW_Decode_ResidueShort(s) ==
    LET t == [s EXCEPT !.h.csw.dTag = s.h.cbw.dTag,
                       !.h.csw.dDataResidue = s.h.cbw.dDataLength - 1]
    IN IF ~t.h.cbw.valid THEN DecodeInvalid(t) ELSE DecodeProcess(t)
CBW_Decode_StaleResidue(s) ==
    LET t == [s EXCEPT !.h.csw.dTag = s.h.cbw.dTag]
    IN IF ~t.h.cbw.valid THEN DecodeInvalid(t) ELSE DecodeProcess(t)
CBW_Decode_Unchecked(s) ==
    DecodeProcess([s EXCEPT !.h.csw.dTag = s.h.cbw.dTag,
                            !.h.csw.dDataResidue = s.h.cbw.dDataLength])

\* The states MSC_BOT_CBW_Decode may leave.
MSC_BOT_CBW_Decode(s) ==
    LET t == [s EXCEPT !.h.csw.dTag = s.h.cbw.dTag,
                       !.h.csw.dDataResidue = s.h.cbw.dDataLength]
    IN IF ~t.h.cbw.valid THEN DecodeInvalid(t) ELSE DecodeProcess(t)

\* A SCSI step of a READ or WRITE burst: on failure, stall IN and fail.
ScsiStep(s) ==
    {IF r.ret < 0 THEN MSC_BOT_SendCSW(StallIn(r.s), "FAILED") ELSE r.s
       : r \in ScsiProcessCmd(s)}

MSC_BOT_DataIn(s) ==
    CASE s.h.bot_state = "DATA_IN" -> ScsiStep(s)
      [] s.h.bot_state \in {"SEND_DATA", "LAST_DATA_IN", "NO_DATA"} ->
           {MSC_BOT_SendCSW(s, "PASSED")}
      [] OTHER -> {s}

MSC_BOT_DataOut(s) ==
    CASE s.h.bot_state = "IDLE" -> MSC_BOT_CBW_Decode(s)
      [] s.h.bot_state = "DATA_OUT" -> ScsiStep(s)
      [] OTHER -> {s}

\* epnum is 1 for the OUT endpoint and 129 (0x81) for the IN endpoint.
MSC_BOT_CplClrFeature(s, epnum) ==
    CASE s.h.bot_status = "ERROR" ->
           [StallIn(s) EXCEPT !.h.bot_status = "NORMAL"]
      [] epnum = 129 /\ s.h.bot_status # "RECOVERY" ->
           MSC_BOT_SendCSW(s, "FAILED")
      [] OTHER -> s

MSC_BOT_Reset(s) ==
    [s EXCEPT !.h.bot_state = "IDLE", !.h.bot_status = "RECOVERY",
              !.e.out = "cbw"]

\* CLEAR_FEATURE(ENDPOINT_HALT) as the USB core and usbd_msc.c handle it:
\* the stall is cleared, the endpoint flushed (a transmission waiting on
\* it is dropped), then MSC_BOT_CplClrFeature runs.
ClearFeature(s, epnum) ==
    MSC_BOT_CplClrFeature(
        IF epnum = 129 THEN [s EXCEPT !.e.inStall = FALSE, !.e.inTx = NoTx]
                       ELSE [s EXCEPT !.e.outStall = FALSE], epnum)

MSC_BOT_DeInit(s) == [s EXCEPT !.h.bot_state = "IDLE"]

MSC_BOT_Init(s) ==
    [h |-> [s.h EXCEPT !.bot_state = "IDLE", !.bot_status = "NORMAL"],
     e |-> InitEp]

-----------------------------------------------------------------------------
(* Actions.  Dev is the device's state as the operators above take it.    *)

Dev == [h |-> hmsc, e |-> ep]
Become(t) == hmsc' = t.h /\ ep' = t.e

\* An OUT transfer completes into the prepared buffer (bytes that are not
\* a 31-byte CBW fail MSC_BOT_CBW_Decode's length test), then the USB
\* interrupt calls MSC_BOT_DataOut.
DataOut ==
    /\ outPkt.kind # "none" /\ ep.out # "none" /\ ~ep.outStall
    /\ LET cbw == IF outPkt.kind = "cbw" THEN outPkt.cbw ELSE NoCbw
           s == [h |-> IF ep.out = "cbw" THEN [hmsc EXCEPT !.cbw = cbw]
                                         ELSE hmsc,
                 e |-> [ep EXCEPT !.out = "none"]]
       IN \E t \in MSC_BOT_DataOut(s) : Become(t)
    /\ outPkt' = NoPkt
    /\ IF outPkt.kind = "data" /\ host = "dataOut"
       THEN /\ xfer' = xfer + outPkt.len
            /\ host' = IF xfer' = hostCbw.dDataLength THEN "status"
                                                       ELSE "dataOut"
       ELSE UNCHANGED <<xfer, host>>
    /\ UNCHANGED <<hostCbw, retried, cmds, lastCsw>>

\* The host reads the IN endpoint; when the transfer completes the USB
\* interrupt calls MSC_BOT_DataIn.  A CSW is accepted when its tag is the
\* command's; any other packet where a CSW is due is a phase error.
DataIn ==
    LET tx == ep.inTx
        got == xfer + tx.len
    IN /\ host \in {"dataIn", "status"}
       /\ tx.kind # "none" /\ ~ep.inStall
       /\ \E t \in MSC_BOT_DataIn([Dev EXCEPT !.e.inTx = NoTx]) : Become(t)
       /\ CASE host = "dataIn" /\ tx.kind = "data" ->
                 /\ xfer' = got
                 /\ host' = IF tx.ends \/ got >= hostCbw.dDataLength
                            THEN "status" ELSE "dataIn"
                 /\ UNCHANGED lastCsw
            [] host = "status" /\ tx.kind = "csw"
                 /\ tx.csw.dTag = hostCbw.dTag ->
                 /\ host' = "idle"
                 /\ lastCsw' = [csw |-> tx.csw, cbw |-> hostCbw, xfer |-> xfer]
                 /\ UNCHANGED xfer
            [] OTHER -> host' = "recover" /\ UNCHANGED <<xfer, lastCsw>>
       /\ UNCHANGED <<outPkt, hostCbw, retried, cmds>>

\* The host sends a CBW (tags count the commands).
SendCBW ==
    /\ host = "idle" /\ cmds < MaxCmds /\ outPkt.kind = "none"
    /\ \E l \in Lengths, f \in {0, 128}, v \in IF Invalid THEN BOOLEAN ELSE {TRUE} :
       \E a \in IF Mismatch THEN Lengths ELSE {l} :
         LET c == [dTag |-> cmds + 1, dDataLength |-> l, bmFlags |-> f,
                   alloc |-> a, valid |-> v]
         IN /\ outPkt' = [NoPkt EXCEPT !.kind = "cbw", !.cbw = c]
            /\ hostCbw' = c
            /\ host' = CASE l = 0 -> "status"
                         [] f = 128 -> "dataIn"
                         [] OTHER -> "dataOut"
    /\ xfer' = 0 /\ retried' = FALSE /\ cmds' = cmds + 1
    /\ UNCHANGED <<hmsc, ep, lastCsw>>

SendDataOut ==
    /\ host = "dataOut" /\ outPkt.kind = "none" /\ ~ep.outStall
    /\ outPkt' = [NoPkt EXCEPT !.kind = "data",
                  !.len = Min2(Chunk, hostCbw.dDataLength - xfer)]
    /\ UNCHANGED <<hmsc, ep, host, hostCbw, xfer, retried, cmds, lastCsw>>

\* A stalled data-out phase: the host drops its transfer, clears the
\* halt on the OUT endpoint and goes on to the CSW.
OutStalled ==
    /\ host = "dataOut" /\ ep.outStall
    /\ Become(ClearFeature(Dev, 1))
    /\ outPkt' = NoPkt /\ host' = "status"
    /\ UNCHANGED <<hostCbw, xfer, retried, cmds, lastCsw>>

\* A stall on the data-in phase or on the first CSW read: clear the halt
\* on the IN endpoint and read the CSW.  A second stall on the CSW read
\* starts Reset Recovery.
InStalled ==
    /\ host \in {"dataIn", "status"} /\ ep.inStall
    /\ IF host = "status" /\ retried
       THEN /\ host' = "recover" /\ UNCHANGED <<hmsc, ep, retried>>
       ELSE /\ Become(ClearFeature(Dev, 129))
            /\ host' = "status"
            /\ retried' = (host = "status")
    /\ UNCHANGED <<outPkt, hostCbw, xfer, cmds, lastCsw>>

\* The host gives up waiting on a phase of the command.
HostTimeout ==
    /\ Timeout /\ host \in {"dataIn", "dataOut", "status"}
    /\ host' = "recover" /\ outPkt' = NoPkt
    /\ UNCHANGED <<hmsc, ep, hostCbw, xfer, retried, cmds, lastCsw>>

\* Reset Recovery: the Bulk-Only Mass Storage Reset class request, then
\* CLEAR_FEATURE on the IN and on the OUT endpoint.  A host whose reset
\* fails resets the port instead: the stack calls MSC_BOT_DeInit and, on
\* the new configuration, MSC_BOT_Init.
BotReset ==
    /\ host = "recover" /\ outPkt' = NoPkt
    /\ \/ Become(MSC_BOT_Reset(Dev)) /\ host' = "recoverIn"
       \/ Become(MSC_BOT_Init(MSC_BOT_DeInit(Dev))) /\ host' = "idle"
    /\ UNCHANGED <<hostCbw, xfer, retried, cmds, lastCsw>>

ClearIn ==
    /\ host = "recoverIn"
    /\ Become(ClearFeature(Dev, 129)) /\ host' = "recoverOut"
    /\ UNCHANGED <<outPkt, hostCbw, xfer, retried, cmds, lastCsw>>

ClearOut ==
    /\ host = "recoverOut"
    /\ Become(ClearFeature(Dev, 1)) /\ host' = "idle"
    /\ UNCHANGED <<outPkt, hostCbw, xfer, retried, cmds, lastCsw>>

\* The host has sent all its commands and every one was answered.
Done == host = "idle" /\ cmds = MaxCmds /\ UNCHANGED vars

Host == SendCBW \/ SendDataOut \/ OutStalled \/ InStalled \/ HostTimeout
        \/ BotReset \/ ClearIn \/ ClearOut

Next == DataOut \/ DataIn \/ Host \/ Done

\* The USB interrupt serves every completed transfer, and a host keeps
\* driving its command.
Fairness == WF_vars(DataOut) /\ WF_vars(DataIn) /\ WF_vars(Host)

Spec == Init /\ [][Next]_vars /\ Fairness

-----------------------------------------------------------------------------
(* Properties.                                                            *)

TypeOK ==
    /\ hmsc \in [bot_state : States, bot_status : Statuses,
                 cbw : Cbws \cup {NoCbw}, csw : Csws,
                 bot_data_length : Lengths \cup {0}, blk_len : Lengths \cup {0}]
    /\ ep \in [out : {"none", "cbw", "data"}, inStall : BOOLEAN,
               outStall : BOOLEAN,
               inTx : [kind : {"none", "data", "csw"}, len : Lengths \cup {0},
                       ends : BOOLEAN, csw : Csws]]
    /\ host \in Phases /\ hostCbw \in Cbws \cup {NoCbw}
    /\ xfer \in Nat /\ retried \in BOOLEAN /\ cmds \in 0..MaxCmds

\* A CSW the host accepts as PASSED reports as residue the bytes of the
\* command's dDataLength that did not cross the bus (MSC_BOT_SendData,
\* SCSI's READ/WRITE steps and the residue set in MSC_BOT_CBW_Decode).
ResidueIsUntransferred ==
    lastCsw.csw.bStatus = "PASSED" =>
        lastCsw.csw.dDataResidue = lastCsw.cbw.dDataLength - lastCsw.xfer

\* A CBW that fails MSC_BOT_CBW_Decode's tests is never answered PASSED,
\* however the stalls, clears and resets that follow it interleave.
InvalidNeverPassed ==
    (lastCsw.cbw # NoCbw /\ ~lastCsw.cbw.valid) =>
        lastCsw.csw.bStatus = "FAILED"

\* Every command the host starts ends: its CSW is accepted or the host
\* has run Reset Recovery (MSC_BOT_CplClrFeature must send the CSW the
\* host waits for after clearing a stall).
CommandAnswered == (host # "idle") ~> (host = "idle")

====
