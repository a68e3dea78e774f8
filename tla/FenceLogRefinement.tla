------------------------- MODULE FenceLogRefinement -------------------------
(***************************************************************************)
(* FenceLog implements AppendLog, on a medium without faults and when      *)
(* recovery waits for the appends in flight.                               *)
(***************************************************************************)
EXTENDS FenceLog

\* A slot's status is decided by reserve_tail and its state byte: a claimed slot
\* whose state is still FREE is pending like one that is WRITING.
StatusOf(s) ==
    IF s >= reserve_tail THEN "free"
    ELSE IF rec[s].state \in {"FREE", "WRITING"} THEN "pending"
    ELSE IF rec[s].state = "COMMITTED" THEN "stored"
    ELSE "dropped"

Abs == INSTANCE AppendLog WITH
    Offered <- [term : Terms, data : Payloads, writer : Hosts],
    Blank   <- NoEntry,
    status  <- [s \in Slots |-> StatusOf(s)],
    content <- entry,
    visible <- committed_tail

\* The lock-free runtime, step by step, is the abstract log: no interleaving of
\* append, read, trim and recover, and no crash, does anything else.
ImplementsAppendLog == Abs!AbsSpec
=============================================================================
