---------------------------- MODULE JournalLock -----------------------------
(***************************************************************************)
(* The lock file of the two journals that guard cloud computers,           *)
(* server/box-create-idempotency.ts and server/box-delete-journal.ts (the  *)
(* same protocol on two files).  A process publishes its candidate at the  *)
(* lock's path with link(2); it may find the lock of a process that died,  *)
(* and then stands for election as the one that removes it.  Each system   *)
(* call is an action, so calls of several processes interleave and a       *)
(* process can die between any two of them.                                *)
(*                                                                         *)
(* A member of Procs is one run of the program.  Pids are reused: kill(2)  *)
(* answers for whoever has the pid now.  The election of a token is a      *)
(* chain of files that are never removed; the i-th file of the chain is    *)
(* reaper[token][i], because its path follows from the i-1 before it.      *)
(***************************************************************************)
EXTENDS Naturals

CONSTANTS Procs,           \* runs of the program
          PidOf,           \* the pid of each
          NoLock, Nobody,  \* no file at the path
          MaxOps,          \* bound on the operations of a run
          MaxGenerations,  \* MAX_REAPER_GENERATIONS
          MaxFaults        \* bound on file system calls that fail

Tokens == Procs \X (0..MaxOps)

ASSUME ConstantsAssumption ==
    /\ MaxOps \in Nat /\ MaxGenerations \in Nat \ {0} /\ MaxFaults \in Nat
    /\ NoLock \notin Tokens /\ Nobody \notin Procs

VARIABLES
    life,     \* [Procs -> {"unborn", "live", "dead"}]
    pc,       \* the next call of each run
    op,       \* operations it has begun; with the run, the token of its lock
    lock,     \* the token in the lock file, or NoLock
    reaper,   \* [Tokens -> [1..MaxGenerations -> Procs \cup {Nobody}]]
    seen,     \* the token a run read from the lock file
    gen,      \* its place in the election chain of that token
    file,     \* the journal: the operations it shows
    view,     \* the journal as a run has loaded it
    faults

vars == <<life, pc, op, lock, reaper, seen, gen, file, view, faults>>

Token(p) == <<p, op[p]>>
OwnerOf(t) == t[1]

\* process.kill(pid, 0), asked about the pid a run had.
Alive(p) == \E q \in Procs : life[q] = "live" /\ PidOf[q] = PidOf[p]

Electing == {"elect", "confirm", "reap"}
Critical == {"load", "operate", "release", "unlock"}
Places == {"idle", "link", "read", "retry"} \cup Electing \cup Critical

-----------------------------------------------------------------------------
Init ==
    /\ life = [p \in Procs |-> "unborn"]
    /\ pc = [p \in Procs |-> "idle"]
    /\ op = [p \in Procs |-> 0]
    /\ lock = NoLock
    /\ reaper = [t \in Tokens |-> [i \in 1..MaxGenerations |-> Nobody]]
    /\ seen = [p \in Procs |-> NoLock]
    /\ gen = [p \in Procs |-> 1]
    /\ file = {}
    /\ view = [p \in Procs |-> {}]
    /\ faults = 0

Goto(p, place) == pc' = [pc EXCEPT ![p] = place]

-----------------------------------------------------------------------------
(* Runs of the program. *)

Boot(p) ==
    /\ life[p] = "unborn" /\ ~Alive(p)
    /\ life' = [life EXCEPT ![p] = "live"]
    /\ UNCHANGED <<pc, op, lock, reaper, seen, gen, file, view, faults>>

Die(p) ==
    /\ life[p] = "live"
    /\ life' = [life EXCEPT ![p] = "dead"]
    /\ Goto(p, "idle")
    /\ UNCHANGED <<op, lock, reaper, seen, gen, file, view, faults>>

-----------------------------------------------------------------------------
(* acquireJournalLock *)

\* A fresh token, and a candidate file that names it.
Begin(p) ==
    /\ life[p] = "live" /\ pc[p] = "idle" /\ op[p] < MaxOps
    /\ op' = [op EXCEPT ![p] = @ + 1]
    /\ Goto(p, "link")
    /\ UNCHANGED <<life, lock, reaper, seen, gen, file, view, faults>>

Link(p) ==
    /\ pc[p] = "link"
    /\ IF lock = NoLock THEN lock' = Token(p) /\ Goto(p, "load")
       ELSE lock' = lock /\ Goto(p, "read")
    /\ UNCHANGED <<life, op, reaper, seen, gen, file, view, faults>>

\* Mutant: a dead owner's lock is removed by whoever finds it.
ReadUnelected(p) ==
    /\ pc[p] = "read"
    /\ IF lock = NoLock \/ Alive(OwnerOf(lock))
       THEN Goto(p, "retry") /\ UNCHANGED <<seen, gen>>
       ELSE /\ seen' = [seen EXCEPT ![p] = lock]
            /\ gen' = [gen EXCEPT ![p] = 1]
            /\ Goto(p, "confirm")
    /\ UNCHANGED <<life, op, lock, reaper, file, view, faults>>

\* Mutant: the chain starts one file early.
ReadFromZero(p) ==
    /\ pc[p] = "read"
    /\ IF lock = NoLock \/ Alive(OwnerOf(lock))
       THEN Goto(p, "retry") /\ UNCHANGED <<seen, gen>>
       ELSE /\ seen' = [seen EXCEPT ![p] = lock]
            /\ gen' = [gen EXCEPT ![p] = 0]
            /\ Goto(p, "elect")
    /\ UNCHANGED <<life, op, lock, reaper, file, view, faults>>

\* The lock can be gone by now, or have an owner that is alive.
Read(p) ==
    /\ pc[p] = "read"
    /\ IF lock = NoLock \/ Alive(OwnerOf(lock))
       THEN Goto(p, "retry") /\ UNCHANGED <<seen, gen>>
       ELSE /\ seen' = [seen EXCEPT ![p] = lock]
            /\ gen' = [gen EXCEPT ![p] = 1]
            /\ Goto(p, "elect")
    /\ UNCHANGED <<life, op, lock, reaper, file, view, faults>>

\* Mutant: a reaper that died keeps its office.
ElectOnce(p) ==
    LET t == seen[p]  elected == reaper[t][gen[p]] IN
    /\ pc[p] = "elect"
    /\ IF elected = Nobody
       THEN /\ reaper' = [reaper EXCEPT ![t][gen[p]] = p]
            /\ Goto(p, "confirm")
       ELSE reaper' = reaper /\ Goto(p, "retry")
    /\ UNCHANGED <<life, op, lock, seen, gen, file, view, faults>>

\* claimReaperAuthority, one file of the chain.  A file that is there stays as
\* it is, so that finding it, reading it and probing its pid are one step.
Elect(p) ==
    LET t == seen[p]  elected == reaper[t][gen[p]] IN
    /\ pc[p] = "elect"
    /\ \/ /\ elected = Nobody
          /\ reaper' = [reaper EXCEPT ![t][gen[p]] = p]
          /\ Goto(p, "confirm") /\ gen' = gen
       \/ /\ elected # Nobody /\ Alive(elected)
          /\ Goto(p, "retry") /\ UNCHANGED <<reaper, gen>>
       \/ /\ elected # Nobody /\ ~Alive(elected)
          /\ IF gen[p] < MaxGenerations
             THEN gen' = [gen EXCEPT ![p] = @ + 1] /\ UNCHANGED pc
             ELSE Goto(p, "idle") /\ UNCHANGED gen
          /\ UNCHANGED reaper
    /\ UNCHANGED <<life, op, lock, seen, file, view, faults>>

\* Mutant: the lock is not read again after the election.
ConfirmTrusting(p) ==
    /\ pc[p] = "confirm"
    /\ Goto(p, "reap")
    /\ UNCHANGED <<life, op, lock, reaper, seen, gen, file, view, faults>>

\* reapDeadLock, after the election: is it still that lock, and dead?
Confirm(p) ==
    /\ pc[p] = "confirm"
    /\ IF lock # seen[p] \/ Alive(OwnerOf(lock)) THEN Goto(p, "retry") ELSE Goto(p, "reap")
    /\ UNCHANGED <<life, op, lock, reaper, seen, gen, file, view, faults>>

\* unlink removes whatever is at the path by now.
Reap(p) ==
    /\ pc[p] = "reap"
    /\ lock' = NoLock
    /\ Goto(p, "retry")
    /\ UNCHANGED <<life, op, reaper, seen, gen, file, view, faults>>

\* The read or the unlink fails, and the error ends the operation.
ReapFails(p) ==
    /\ pc[p] \in {"confirm", "reap"} /\ faults < MaxFaults
    /\ faults' = faults + 1
    /\ Goto(p, "idle")
    /\ UNCHANGED <<life, op, lock, reaper, seen, gen, file, view>>

Retry(p) ==
    /\ pc[p] = "retry"
    /\ Goto(p, "link")
    /\ UNCHANGED <<life, op, lock, reaper, seen, gen, file, view, faults>>

\* LOCK_WAIT_MS has passed.
GiveUp(p) ==
    /\ pc[p] = "retry"
    /\ Goto(p, "idle")
    /\ UNCHANGED <<life, op, lock, reaper, seen, gen, file, view, faults>>

-----------------------------------------------------------------------------
(* withJournalLock *)

Load(p) ==
    /\ pc[p] = "load"
    /\ view' = [view EXCEPT ![p] = file]
    /\ Goto(p, "operate")
    /\ UNCHANGED <<life, op, lock, reaper, seen, gen, file, faults>>

\* Mutant: the operation writes its own record only.
SaveOwn(p) ==
    /\ pc[p] = "operate"
    /\ file' = {Token(p)}
    /\ Goto(p, "release")
    /\ UNCHANGED <<life, op, lock, reaper, seen, gen, view, faults>>

\* The operation replaces the whole file by what it made of what it loaded.
Save(p) ==
    /\ pc[p] = "operate"
    /\ file' = view[p] \cup {Token(p)}
    /\ Goto(p, "release")
    /\ UNCHANGED <<life, op, lock, reaper, seen, gen, view, faults>>

\* It only reads, or it throws.
LeaveAlone(p) ==
    /\ pc[p] = "operate"
    /\ Goto(p, "release")
    /\ UNCHANGED <<life, op, lock, reaper, seen, gen, file, view, faults>>

\* releaseJournalLock reads the lock before it removes it.
Release(p) ==
    /\ pc[p] = "release"
    /\ IF lock = Token(p) THEN Goto(p, "unlock") ELSE Goto(p, "idle")
    /\ UNCHANGED <<life, op, lock, reaper, seen, gen, file, view, faults>>

Unlock(p) ==
    /\ pc[p] = "unlock"
    /\ lock' = NoLock
    /\ Goto(p, "idle")
    /\ UNCHANGED <<life, op, reaper, seen, gen, file, view, faults>>

\* The lock stays: it could not be read or removed, or its candidate could
\* not be removed, which throws before anybody is there to release the lock.
UnlockFails(p) ==
    /\ pc[p] \in {"load", "release", "unlock"} /\ faults < MaxFaults
    /\ faults' = faults + 1
    /\ Goto(p, "idle")
    /\ UNCHANGED <<life, op, lock, reaper, seen, gen, file, view>>

-----------------------------------------------------------------------------
\* The calls a run makes once it has begun an operation.
Call(p) ==
    \/ Link(p) \/ Read(p) \/ Elect(p) \/ Confirm(p) \/ Reap(p) \/ Retry(p)
    \/ Load(p) \/ Save(p) \/ Release(p) \/ Unlock(p)

Next ==
    \E p \in Procs :
       \/ Boot(p)
       \/ Die(p)
       \/ Begin(p)
       \/ Call(p)
       \/ ReapFails(p)
       \/ GiveUp(p)
       \/ LeaveAlone(p)
       \/ UnlockFails(p)

Spec == Init /\ [][Next]_vars

\* The calls are synchronous: a run that does not die goes on.
FairSpec == Spec /\ \A p \in Procs : WF_vars(Call(p))

-----------------------------------------------------------------------------
(* Properties *)

TypeOK ==
    /\ life \in [Procs -> {"unborn", "live", "dead"}]
    /\ pc \in [Procs -> Places]
    /\ op \in [Procs -> 0..MaxOps]
    /\ lock \in Tokens \cup {NoLock}
    /\ reaper \in [Tokens -> [1..MaxGenerations -> Procs \cup {Nobody}]]
    /\ seen \in [Procs -> Tokens \cup {NoLock}]
    /\ gen \in [Procs -> 1..MaxGenerations]
    /\ file \in SUBSET Tokens
    /\ view \in [Procs -> SUBSET Tokens]
    /\ faults \in 0..MaxFaults

\* At most one run works on the journal, whoever died with the lock and
\* however many tried to remove it.
MutualExclusion ==
    \A p, q \in Procs : pc[p] \in Critical /\ pc[q] \in Critical => p = q

\* The lock of a run that is alive is never taken away, so that release never
\* finds that its "lock ownership changed unexpectedly".
HolderKeepsLock == \A p \in Procs : pc[p] \in Critical => lock = Token(p)

\* Operations are serial and none is lost: the journal implements the store.
Store == INSTANCE JournalStore WITH Ops <- Tokens, file <- file
ImplementsStore == Store!Spec

\* A lock whose owner died does not outlive it while somebody keeps trying,
\* even if elected reapers die too; only a failing call may leave it there,
\* or a pid that is taken over by a later run.
PidsNotReused == [](\A p \in Procs : life[p] = "dead" => ~Alive(p))
DeadLockRetired ==
    \/ <>(faults > 0)
    \/ ~PidsNotReused
    \/ \A t \in Tokens :
          <>[](lock = t /\ life[OwnerOf(t)] = "dead")
            => <>[](\A p \in Procs : pc[p] = "idle")
=============================================================================
