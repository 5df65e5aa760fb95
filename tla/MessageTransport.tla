-------------------------- MODULE MessageTransport --------------------------
(***************************************************************************)
(* What the host engine promises its callers, whatever the platform:       *)
(*                                                                         *)
(*  - a message is finalized only after a caller handed it over, and      *)
(*    exactly once;                                                        *)
(*  - normal messages go to the device one at a time: the next one starts *)
(*    only when every one started before it has been finalized;           *)
(*  - a message that expects a response is completed "ok" only by its own *)
(*    response (or by the emulator, which answers without the device);    *)
(*    otherwise it ends with a disconnect or quit status.                  *)
(*                                                                         *)
(* Cancel messages (Interrupt) bypass the one-at-a-time rule: they are    *)
(* sent while a response is awaited.                                       *)
(***************************************************************************)
EXTENDS Sequences, SequencesExt

CONSTANTS Msgs, Interrupt, Resp, NULL

VARIABLES
    accepted,   \* messages callers have handed to the engine
    order,      \* normal messages in the order they went to the device
    fin         \* the finalizations of each message

vars == <<accepted, order, fin>>

Codes == {"ok", "disconnect", "quit"}

\* The completions a message may get: a message expecting a response gets
\* its own response (by = m) or the emulator's answer (by = NULL).
Outcomes(m) ==
    IF m \in Resp
    THEN {[code |-> "ok", by |-> m]} \cup [code : Codes, by : {NULL}]
    ELSE [code : Codes, by : {NULL}]

Init ==
    /\ accepted = {}
    /\ order = <<>>
    /\ fin = [m \in Msgs |-> <<>>]

Accept(m) ==
    /\ m \notin accepted
    /\ accepted' = accepted \cup {m}
    /\ UNCHANGED <<order, fin>>

\* A normal message starts only when all earlier ones are finalized.
Start(m) ==
    /\ m \in accepted \ Interrupt
    /\ m \notin ToSet(order)
    /\ \A i \in DOMAIN order : fin[order[i]] # <<>>
    /\ order' = Append(order, m)
    /\ UNCHANGED <<accepted, fin>>

Complete(m) ==
    /\ m \in accepted
    /\ fin[m] = <<>>
    /\ \E r \in Outcomes(m) : fin' = [fin EXCEPT ![m] = <<r>>]
    /\ UNCHANGED <<accepted, order>>

Next == \E m \in Msgs : Accept(m) \/ Start(m) \/ Complete(m)

Spec == Init /\ [][Next]_vars

=============================================================================
