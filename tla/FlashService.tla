---------------------------- MODULE FlashService ----------------------------
(***************************************************************************)
(* What the flash driver promises its client, whatever the controller      *)
(* does: it serves one request at a time, taking a new one only when idle; *)
(* a write programs at most the doublewords it was given, in steps; an     *)
(* erase programs none; every request ends with exactly one callback, the  *)
(* driver idle again; and "ok" is reported only once the whole buffer is   *)
(* programmed.  A failure may come at any point, after part of the buffer. *)
(***************************************************************************)
EXTENDS Naturals, Sequences

VARIABLES
    busy,      \* a request is being served
    kind,      \* its kind: "page", "write" or "erase"
    want,      \* doublewords it asked to program
    done,      \* doublewords programmed for it so far
    answers    \* the callbacks, "ok" or "fail", in order

vars == <<busy, kind, want, done, answers>>

Init ==
    /\ busy = FALSE /\ kind = "none" /\ want = 0 /\ done = 0
    /\ answers = <<>>

\* The client's request is taken when the driver is idle.
Request ==
    /\ ~busy /\ busy'
    /\ kind' \in {"page", "write", "erase"}
    /\ want' \in Nat /\ (kind' = "erase" => want' = 0)
    /\ done' = 0
    /\ UNCHANGED answers

\* Part of the buffer is programmed.
Program ==
    /\ busy /\ busy'
    /\ done < done' /\ done' <= want
    /\ UNCHANGED <<kind, want, answers>>

\* The request ends with its callback; the step may program a last part
\* of the buffer first.  "ok" needs the whole buffer.
Finish ==
    /\ busy /\ ~busy'
    /\ done <= done' /\ done' <= want
    /\ \E r \in {"ok", "fail"} :
          /\ answers' = Append(answers, r)
          /\ r = "ok" => done' = want
    /\ UNCHANGED <<kind, want>>

Next == Request \/ Program \/ Finish

Spec == Init /\ [][Next]_vars

=============================================================================
