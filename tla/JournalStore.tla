---------------------------- MODULE JournalStore ----------------------------
(* What a journal file promises its callers: the operations of all processes *)
(* on the file take effect one after the other, each on the result of the    *)
(* one before, and none is lost.                                             *)

CONSTANT Ops

VARIABLE file    \* the operations whose effect the file shows

Init == file = {}

Apply(op) == op \notin file /\ file' = file \cup {op}

Next == \E op \in Ops : Apply(op)

Spec == Init /\ [][Next]_file
=============================================================================
