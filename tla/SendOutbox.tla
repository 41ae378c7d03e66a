----------------------------- MODULE SendOutbox -----------------------------
(***************************************************************************)
(* What the composer queue promises the person who sends: a send is said   *)
(* on its thread's transcript at most once, unless it is withdrawn first   *)
(* or its thread is deleted; said, withdrawn or deleted, it stays so, and  *)
(* what a transcript shows is never reordered.                             *)
(***************************************************************************)
EXTENDS Naturals, Sequences, SequencesExt

CONSTANTS Threads, Sends, Home

VARIABLES
    state,   \* [Sends -> "unsent" | "waiting" | "said" | "withdrawn" | "deleted"]
    said     \* [Threads -> Seq(Sends)]

vars == <<state, said>>

Init ==
    /\ state = [s \in Sends |-> "unsent"]
    /\ said = [t \in Threads |-> <<>>]

\* One send is accepted into the outbox.
Accept(s) ==
    /\ state[s] = "unsent"
    /\ state' = [state EXCEPT ![s] = "waiting"]
    /\ UNCHANGED said

\* Sends enter the transcripts of their threads, each behind what is there.
Say(S) ==
    /\ \A s \in S : state[s] \in {"unsent", "waiting"}
    /\ state' = [s \in Sends |-> IF s \in S THEN "said" ELSE state[s]]
    /\ \A t \in Threads :
          /\ IsPrefix(said[t], said'[t])
          /\ LET new == SubSeq(said'[t], Len(said[t]) + 1, Len(said'[t]))
             IN /\ IsInjective(new)
                /\ ToSet(new) = {s \in S : Home[s] = t}
    /\ DOMAIN said' = Threads

Withdraw(s) ==
    /\ state[s] = "waiting"
    /\ state' = [state EXCEPT ![s] = "withdrawn"]
    /\ UNCHANGED said

\* A thread goes away with its sends; what the others show does not move.
DropThread(t) ==
    /\ state' = [s \in Sends |->
                    IF Home[s] = t /\ state[s] # "unsent" THEN "deleted" ELSE state[s]]
    /\ said' = [said EXCEPT ![t] = <<>>]

Next ==
    \/ \E s \in Sends : Accept(s) \/ Withdraw(s)
    \/ \E S \in SUBSET Sends : Say(S)
    \/ \E t \in Threads : DropThread(t)

Spec == Init /\ [][Next]_vars
=============================================================================
