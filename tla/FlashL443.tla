----------------------------- MODULE FlashL443 -----------------------------
(***************************************************************************)
(* The STM32L443 flash driver of src/firmware/flash_l443xc.c.              *)
(*                                                                         *)
(* Three actors share the driver's globals: the client, which calls        *)
(* flash_write_page, flash_write and flash_erase from the main loop; the   *)
(* main loop's flash_idle, which programs up to 32 doublewords per call;   *)
(* and flash_handler, the flash interrupt, which ends an erase.  The       *)
(* flash controller is the environment: an erase started by STRT ends      *)
(* with EOP or with an error flag, and a doubleword program may fail.      *)
(*                                                                         *)
(* Data are abstracted to counts: the source and destination pointers to  *)
(* whether flash_write_data is NULL, the buffer to the number of           *)
(* doublewords still to program.  FLASH_CR is kept as the bits the driver *)
(* touches (PG, PER, EOPIE) and the LOCK bit.  FLASH_SR is kept as EOP     *)
(* and one sticky error flag: nothing in this driver writes an error bit  *)
(* back to clear it.                                                       *)
(***************************************************************************)
EXTENDS Naturals, Sequences

CONSTANTS
    ByteCounts,   \* the count arguments the client passes
    Chunk,        \* doublewords per flash_idle call (32 in the code)
    MaxReq,       \* bound on accepted requests
    ErrIE,        \* whether an error flag raises the flash interrupt
    Faults        \* whether the controller may report an error

ASSUME /\ ByteCounts \subseteq Nat /\ Chunk \in Nat \ {0} /\ MaxReq \in Nat
       /\ ErrIE \in BOOLEAN /\ Faults \in BOOLEAN

VARIABLES
    flash_state,   \* enum flash_state
    data,          \* flash_write_data # NULL
    count,         \* flash_write_count
    pg, per, eopie, locked,   \* FLASH_CR bits
    hw,            \* the controller: "idle" or "erasing"
    eop, srErr,    \* FLASH_SR: EOP and the error bits (0xfffe)
    \* history for the properties
    kind,          \* the accepted request being served
    want,          \* doublewords it asked for
    prog,          \* doublewords programmed for it
    acc,           \* requests accepted
    answers        \* the callbacks made, in order

vars == <<flash_state, data, count, pg, per, eopie, locked, hw, eop, srErr,
          kind, want, prog, acc, answers>>

States == {"IDLE", "ERASING", "WRITING"}
Kinds == {"none", "page", "write", "erase"}

\* (count + 7)/8: bytes to doublewords.
Doublewords(n) == (n + 7) \div 8

\* The flash interrupt is pending: EOP with EOPIE, or an error with ERRIE.
Irq == (eop /\ eopie) \/ (srErr /\ ErrIE)

\* A callback: flash_write_complete or flash_write_failed.
Answer(r) == answers' = Append(answers, r)

Max2(S) == CHOOSE x \in S : \A y \in S : y <= x


\* The globals at reset.  EOPIE is assumed set by the platform's flash
\* init; LOCK is set at reset, and code outside this file may clear it.
Init ==
    /\ flash_state = "IDLE" /\ data = FALSE /\ count = 0
    /\ pg = FALSE /\ per = FALSE /\ eopie = TRUE /\ locked \in BOOLEAN
    /\ hw = "idle" /\ eop = FALSE /\ srErr = FALSE
    /\ kind = "none" /\ want = 0 /\ prog = 0 /\ acc = 0 /\ answers = <<>>

\* Starting an erase: PER and STRT; a locked controller ignores STRT.
StartErase(unlocked) == hw' = IF unlocked THEN "erasing" ELSE hw

Accept(k, n) == /\ acc < MaxReq /\ acc' = acc + 1
                /\ kind' = k /\ want' = n /\ prog' = 0

\* flash_write_page: if idle, take the buffer, unlock, erase the page.
\* A call while busy does nothing.
flash_write_page(n) ==
    /\ flash_state = "IDLE"
    /\ Accept("page", Doublewords(n))
    /\ data' = TRUE /\ count' = Doublewords(n)
    /\ locked' = FALSE /\ per' = TRUE
    /\ StartErase(TRUE)
    /\ flash_state' = "ERASING"
    /\ UNCHANGED <<pg, eopie, eop, srErr, answers>>

\* flash_write: if idle, take the buffer, unlock, set PG and clear EOPIE.
flash_write(n) ==
    /\ flash_state = "IDLE"
    /\ Accept("write", Doublewords(n))
    /\ data' = TRUE /\ count' = Doublewords(n)
    /\ locked' = FALSE /\ pg' = TRUE /\ eopie' = FALSE
    /\ flash_state' = "WRITING"
    /\ UNCHANGED <<per, hw, eop, srErr, answers>>

\* flash_erase: no state check and no unlock; the client calls it only
\* when the driver is idle.  flash_write_data is left as it is.
flash_erase ==
    /\ flash_state = "IDLE"
    /\ Accept("erase", 0)
    /\ per' = TRUE
    /\ StartErase(~locked)
    /\ flash_state' = "ERASING"
    /\ UNCHANGED <<data, count, pg, eopie, locked, eop, srErr, answers>>

\* The controller ends an erase: EOP (only with EOPIE) or an error flag.
EraseEnds ==
    /\ hw = "erasing"
    /\ hw' = "idle"
    /\ \/ eop' = eopie /\ UNCHANGED srErr
       \/ Faults /\ srErr' = TRUE /\ UNCHANGED eop
    /\ UNCHANGED <<flash_state, data, count, pg, per, eopie, locked,
                   kind, want, prog, acc, answers>>

\* A program failure at the j-th doubleword of this call: the j writes
\* happened, the count was decremented j-1 times, PG is cleared, EOPIE
\* set, and flash_write_failed is called.
ProgramFails(j) ==
    /\ prog' = prog + j /\ count' = count - (j - 1) /\ srErr' = TRUE
    /\ pg' = FALSE /\ eopie' = TRUE /\ flash_state' = "IDLE"
    /\ Answer("fail")

\* Doublewords one flash_write_state call programs when none fails.
Batch == IF count < Chunk THEN count ELSE Chunk

\* Mutant: the loop runs a full chunk whatever the count.
flash_write_state_full_chunk ==
    \/ /\ ~srErr \/ Batch = 0
       /\ prog' = prog + Chunk /\ count' = count - Chunk
       /\ IF count' = 0
            THEN /\ pg' = FALSE /\ eopie' = TRUE /\ flash_state' = "IDLE"
                 /\ Answer("ok")
            ELSE UNCHANGED <<pg, eopie, flash_state, answers>>
       /\ UNCHANGED srErr
    \/ /\ Batch > 0 /\ (srErr \/ Faults)
       /\ \E j \in 1..(IF srErr THEN 1 ELSE Batch) : ProgramFails(j)

\* Mutant: the completion test is off by one.
flash_write_state_early ==
    \/ /\ ~srErr \/ Batch = 0
       /\ prog' = prog + Batch /\ count' = count - Batch
       /\ IF count' <= 1
            THEN /\ pg' = FALSE /\ eopie' = TRUE /\ flash_state' = "IDLE"
                 /\ Answer("ok")
            ELSE UNCHANGED <<pg, eopie, flash_state, answers>>
       /\ UNCHANGED srErr
    \/ /\ Batch > 0 /\ (srErr \/ Faults)
       /\ \E j \in 1..(IF srErr THEN 1 ELSE Batch) : ProgramFails(j)

\* flash_write_state: program up to Chunk doublewords, each followed by a
\* check of the error bits; a sticky error fails the first one.  When the
\* count reaches zero, clear PG, set EOPIE and call flash_write_complete.
flash_write_state ==
    \/ /\ ~srErr \/ Batch = 0
       /\ prog' = prog + Batch /\ count' = count - Batch
       /\ IF count' = 0
            THEN /\ pg' = FALSE /\ eopie' = TRUE /\ flash_state' = "IDLE"
                 /\ Answer("ok")
            ELSE UNCHANGED <<pg, eopie, flash_state, answers>>
       /\ UNCHANGED srErr
    \/ /\ Batch > 0 /\ (srErr \/ Faults)
       /\ \E j \in 1..(IF srErr THEN 1 ELSE Batch) : ProgramFails(j)

\* flash_idle, called from the main loop, which the interrupt preempts.
flash_idle ==
    /\ ~Irq
    /\ flash_state = "WRITING"
    /\ flash_write_state
    /\ UNCHANGED <<data, per, locked, hw, eop, kind, want, acc>>

\* Mutant: PER is not cleared.
flash_handler_keeps_per ==
    /\ Irq /\ flash_state = "ERASING"
    /\ UNCHANGED per
    /\ IF eop
         THEN /\ eop' = FALSE
              /\ IF data
                   THEN /\ pg' = TRUE /\ eopie' = FALSE
                        /\ flash_state' = "WRITING"
                        /\ UNCHANGED answers
                   ELSE /\ flash_state' = "IDLE" /\ Answer("ok")
                        /\ UNCHANGED <<pg, eopie>>
         ELSE /\ flash_state' = "IDLE" /\ Answer("fail")
              /\ UNCHANGED <<eop, pg, eopie>>
    /\ UNCHANGED <<data, count, locked, hw, srErr, kind, want, prog, acc>>

\* flash_handler, the flash interrupt, in FLASH_ERASING: clear PER; on EOP
\* clear it and go on to program the buffer, or complete an erase with no
\* buffer; without EOP the erase failed.  In any other state it returns
\* and, the flag it was raised for left set, is raised again.
flash_handler ==
    /\ Irq /\ flash_state = "ERASING"
    /\ per' = FALSE
    /\ IF eop
         THEN /\ eop' = FALSE
              /\ IF data
                   THEN /\ pg' = TRUE /\ eopie' = FALSE
                        /\ flash_state' = "WRITING"
                        /\ UNCHANGED answers
                   ELSE /\ flash_state' = "IDLE" /\ Answer("ok")
                        /\ UNCHANGED <<pg, eopie>>
         ELSE /\ flash_state' = "IDLE" /\ Answer("fail")
              /\ UNCHANGED <<eop, pg, eopie>>
    /\ UNCHANGED <<data, count, locked, hw, srErr, kind, want, prog, acc>>

\* The client's calls run in the main loop, so they too wait for the
\* interrupt to return.
Client ==
    /\ ~Irq
    /\ \/ \E n \in ByteCounts : flash_write_page(n) \/ flash_write(n)
       \/ flash_erase

Next == Client \/ flash_idle \/ flash_handler \/ EraseEnds

Spec == Init /\ [][Next]_vars

(***************************************************************************)
(* Properties.                                                             *)
(***************************************************************************)

TypeOK ==
    /\ flash_state \in States /\ kind \in Kinds
    /\ {data, pg, per, eopie, locked, eop, srErr} \subseteq BOOLEAN
    /\ hw \in {"idle", "erasing"}
    /\ count \in 0..Doublewords(Max2(ByteCounts)) /\ want \in Nat /\ prog \in Nat
    /\ acc \in 0..MaxReq /\ answers \in Seq({"ok", "fail"})

\* The control register follows the driver's state along every path: PG
\* is set exactly while writing, PER only while erasing, and EOPIE is
\* restored whenever a write ends, so the next erase can interrupt.
ControlBitsFollowState ==
    /\ pg = (flash_state = "WRITING")
    /\ per => flash_state = "ERASING"
    /\ eopie = (flash_state # "WRITING")

\* flash_erase programs nothing: the erase interrupt goes on to write only
\* a buffer of the same request.
EraseProgramsNothing == kind = "erase" => prog = 0

\* The driver implements FlashService: the client's calls, flash_idle,
\* flash_handler and their error paths take a request only when idle,
\* program no more than its buffer (an erase nothing), and end it with one
\* callback that leaves the driver idle, "ok" only after the whole buffer.
Service == INSTANCE FlashService WITH busy <- flash_state # "IDLE", done <- prog
FlashRefined == Service!Spec

\* Every accepted request is eventually answered, under fair scheduling of
\* the main loop, the interrupt and the controller.
Fairness == WF_vars(flash_idle) /\ WF_vars(flash_handler) /\ WF_vars(EraseEnds)

LiveSpec == Spec /\ Fairness

AcceptedAnswered == \A n \in 1..MaxReq : acc = n ~> Len(answers) = n
=============================================================================
