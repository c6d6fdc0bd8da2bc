----------------------------- MODULE ProvenDays -----------------------------
(***************************************************************************)
(* What the persistent store promises about the days of one entity.  A day *)
(* of a partition is proven by at most one write, and then shows exactly   *)
(* the rows that write gave it.  A write changes the proofs of its own     *)
(* days and of no other, unless it withdraws all of them.  The writes of a *)
(* transaction become visible together or not at all.                      *)
(***************************************************************************)
EXTENDS Integers

CONSTANTS
    Bases,    \* the partitions of the entity
    LastDay,  \* days are 1 .. LastDay
    MaxRows   \* the most rows one write has for one day

VARIABLES
    proven,  \* the proof of each day that readers see
    draft,   \* the same with the writes of the open transaction
    write    \* the write applied last in it, NoWrite if there is none

Days == 1..LastDay
Positions == 0..(MaxRows - 1)

\* A write has its rows (a number of them per day) for the days from start to
\* end, and proves these days if it is reusable.  generation names it.
Writes == [basis : Bases, start : Days, end : Days, reusable : BOOLEAN,
           rows : [Days -> 0..MaxRows], state : BOOLEAN,
           invalidate_financial : BOOLEAN, generation : Nat \ {0}]
NoWrite == [generation |-> 0]

Unproven == [generation |-> 0, rows |-> {}]

\* The proofs after write w.
After(w) ==
    [b \in Bases |-> [d \in Days |->
        IF b = w.basis /\ d \in w.start..w.end
        THEN IF w.reusable THEN [generation |-> w.generation, rows |-> 0..(w.rows[d] - 1)]
             ELSE Unproven
        ELSE IF w.invalidate_financial THEN Unproven ELSE draft[b][d]]]

Init ==
    /\ proven = [b \in Bases |-> [d \in Days |-> Unproven]]
    /\ draft = proven
    /\ write = NoWrite

Apply ==
    /\ write' \in Writes
    /\ draft' = After(write')
    /\ UNCHANGED proven

Commit ==
    /\ proven' = draft /\ write' = NoWrite
    /\ UNCHANGED draft

Rollback ==
    /\ draft' = proven /\ write' = NoWrite
    /\ UNCHANGED proven

Next == Apply \/ Commit \/ Rollback

Spec == Init /\ [][Next]_<<proven, draft, write>>
=============================================================================
