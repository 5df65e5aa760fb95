------------------------- MODULE MCSignetdevLinux -------------------------
(* Instantiation of SignetdevLinux for TLC.                                 *)
EXTENDS SignetdevLinux

CONSTANTS m1, m2, c1

\* m1 asks for a two-packet exchange with a response, m2 is a one-packet
\* message without response, c1 a one-packet cancel (interrupt) message.
MCMsgs == {m1, m2, c1}
MCInterrupt == {c1}
MCResp == {m1}
\* Both normal messages expect a response.
MCRespBoth == {m1, m2}
MCPackets == [m \in MCMsgs |-> IF m = m1 THEN 2 ELSE 1]
=============================================================================
