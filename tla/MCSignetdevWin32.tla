-------------------------- MODULE MCSignetdevWin32 --------------------------
(* Model values and definitions that instantiate SignetdevWin32 for TLC:  *)
(* m1 takes two packets and asks for a response, m2 takes one and asks    *)
(* for none (or for one, in MCRespBoth), c1 is a cancel message.          *)
EXTENDS SignetdevWin32

CONSTANTS m1, m2, c1

MCMsgs == {m1, m2, c1}
MCInterrupt == {c1}
MCResp == {m1}
MCRespBoth == {m1, m2}
MCNoCancel == {m1, m2}
MCNone == {}
MCPackets == [m \in Msgs |-> IF m = m1 THEN 2 ELSE 1]

=============================================================================
