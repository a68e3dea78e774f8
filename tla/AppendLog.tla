------------------------------ MODULE AppendLog ------------------------------
(***************************************************************************)
(* What the Fence log promises, without threads, counters or memory: slots *)
(* are handed out in order and once, an entry is stored as it was given or *)
(* not at all, and the visible prefix grows over stored entries only.      *)
(***************************************************************************)
EXTENDS Integers

CONSTANTS
    Capacity,
    Offered,  \* the entries clients append
    Blank     \* the content of a slot that was never handed out

VARIABLES
    status,   \* of each slot
    content,  \* the entry each slot was handed out for
    visible   \* the slots below it can be read

absVars == <<status, content, visible>>

Positions == 0 .. Capacity - 1

AbsInit ==
    /\ status = [s \in Positions |-> "free"]
    /\ content = [s \in Positions |-> Blank]
    /\ visible = 0

\* The first free slot is handed out for an entry.
HandOut(s) ==
    /\ status[s] = "free"
    /\ \A r \in Positions : r < s => status[r] # "free"
    /\ status' = [status EXCEPT ![s] = "pending"]
    /\ \E e \in Offered : content' = [content EXCEPT ![s] = e]
    /\ UNCHANGED visible

Store(s) ==
    /\ status[s] = "pending"
    /\ status' = [status EXCEPT ![s] = "stored"]
    /\ UNCHANGED <<content, visible>>

\* The writer of a pending entry is dead: the entry will never be stored.
GiveUp(s) ==
    /\ status[s] = "pending"
    /\ status' = [status EXCEPT ![s] = "dropped"]
    /\ UNCHANGED <<content, visible>>

\* A visible entry is trimmed.
Discard(s) ==
    /\ status[s] = "stored"
    /\ s < visible
    /\ status' = [status EXCEPT ![s] = "dropped"]
    /\ UNCHANGED <<content, visible>>

\* The visible prefix grows over entries that are all stored at this moment.
Show ==
    /\ visible' \in visible + 1 .. Capacity
    /\ \A s \in visible .. visible' - 1 : status[s] = "stored"
    /\ UNCHANGED <<status, content>>

AbsNext ==
    \/ \E s \in Positions : HandOut(s) \/ Store(s) \/ GiveUp(s) \/ Discard(s)
    \/ Show

AbsSpec == AbsInit /\ [][AbsNext]_absVars
=============================================================================
