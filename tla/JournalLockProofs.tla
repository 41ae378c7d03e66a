------------------------- MODULE JournalLockProofs --------------------------
(* Proofs that the lock of the journals excludes, is never taken from a run  *)
(* that is alive, and makes the journal a serial store, for any number of    *)
(* runs, deaths, reused pids, elections and failed unlink(2) calls.          *)
EXTENDS JournalLock, TLAPS

-----------------------------------------------------------------------------
(* The inductive invariant. *)

\* Runs that are not alive make no call.
OnlyLiveCall == \A p \in Procs : pc[p] # "idle" => life[p] = "live"

\* A lock names a run that has been started.
LockHasOwner == lock # NoLock => life[OwnerOf(lock)] # "unborn"

\* A run that stands for election has seen a lock whose owner is dead.
SeenIsDead ==
    \A p \in Procs : pc[p] \in Electing =>
        seen[p] \in Tokens /\ life[OwnerOf(seen[p])] = "dead"

\* Everybody elected before it for that lock is dead.
EarlierReapersDead ==
    \A p \in Procs : pc[p] \in Electing =>
        \A i \in 1..MaxGenerations : i < gen[p] =>
            /\ reaper[seen[p]][i] \in Procs
            /\ life[reaper[seen[p]][i]] = "dead"

\* A run that goes on to reap holds the office.
ReaperElected ==
    \A p \in Procs : pc[p] \in {"confirm", "reap"} => reaper[seen[p]][gen[p]] = p

\* What it is about to remove is the lock it was elected for.
ReapsWhatItSaw == \A p \in Procs : pc[p] = "reap" => lock = seen[p]

ReapersBorn ==
    \A t \in Tokens, i \in 1..MaxGenerations :
        reaper[t][i] \in Procs => life[reaper[t][i]] # "unborn"

\* A run operates on the journal as it is.
ViewIsFile == \A p \in Procs : pc[p] = "operate" => view[p] = file

\* The journal does not show an operation before it is saved.
TokenIsNew ==
    /\ \A t \in file : t[2] <= op[t[1]]
    /\ \A p \in Procs :
         pc[p] \in (Places \ {"idle", "release", "unlock"}) => Token(p) \notin file

IInv ==
    /\ TypeOK
    /\ OnlyLiveCall
    /\ LockHasOwner
    /\ SeenIsDead
    /\ ReapersBorn
    /\ EarlierReapersDead
    /\ ReaperElected
    /\ ReapsWhatItSaw
    /\ HolderKeepsLock
    /\ ViewIsFile
    /\ TokenIsNew

-----------------------------------------------------------------------------
\* A probe of a run that is alive always finds it.
LEMMA LiveIsAlive ==
    ASSUME NEW p \in Procs, life[p] = "live"
    PROVE  Alive(p)
  BY DEF Alive

\* At most one elected run has an office it can use.
LEMMA OneReaper ==
    ASSUME IInv, NEW p \in Procs, NEW q \in Procs,
           pc[p] \in {"confirm", "reap"}, pc[q] \in {"confirm", "reap"}, seen[p] = seen[q]
    PROVE  p = q
  <1>1. gen[p] \in 1..MaxGenerations /\ gen[q] \in 1..MaxGenerations
    BY DEF IInv, TypeOK
  <1>2. life[p] = "live" /\ life[q] = "live"
    BY DEF IInv, OnlyLiveCall
  <1>3. reaper[seen[p]][gen[p]] = p /\ reaper[seen[q]][gen[q]] = q
    BY DEF IInv, ReaperElected
  <1>4. ~(gen[p] < gen[q])
    BY <1>1, <1>2, <1>3 DEF IInv, EarlierReapersDead, Electing
  <1>5. ~(gen[q] < gen[p])
    BY <1>1, <1>2, <1>3 DEF IInv, EarlierReapersDead, Electing
  <1>6. gen[p] = gen[q]
    BY <1>1, <1>4, <1>5, ConstantsAssumption
  <1> QED
    BY <1>3, <1>6

\* The owner of a lock somebody is about to remove is not in the journal.
LEMMA NoHolderWhileReaping ==
    ASSUME IInv, NEW p \in Procs, NEW q \in Procs, pc[p] = "reap", pc[q] \in Critical
    PROVE  FALSE
  <1>1. lock = seen[p] /\ lock = Token(q)
    BY DEF IInv, ReapsWhatItSaw, HolderKeepsLock
  <1>2. life[OwnerOf(seen[p])] = "dead"
    BY DEF IInv, SeenIsDead, Electing
  <1>3. OwnerOf(Token(q)) = q
    BY DEF OwnerOf, Token
  <1>4. life[q] = "live"
    BY DEF IInv, OnlyLiveCall, Critical
  <1> QED
    BY <1>1, <1>2, <1>3, <1>4

-----------------------------------------------------------------------------
LEMMA InitIInv == Init => IInv
  <1> SUFFICES ASSUME Init PROVE IInv
    OBVIOUS
  <1>1. TypeOK
    BY ConstantsAssumption DEF Init, TypeOK, Places, Tokens
  <1>2. \A p \in Procs : pc[p] = "idle"
    BY DEF Init
  <1>3. ReapersBorn
    BY ConstantsAssumption DEF Init, ReapersBorn
  <1>4. LockHasOwner
    BY DEF Init, LockHasOwner
  <1>5. file = {}
    BY DEF Init
  <1> QED
    BY <1>1, <1>2, <1>3, <1>4, <1>5
    DEF IInv, OnlyLiveCall, SeenIsDead, EarlierReapersDead, ReaperElected, ReapsWhatItSaw,
        HolderKeepsLock, ViewIsFile, TokenIsNew, Electing, Critical

-----------------------------------------------------------------------------
(* Type correctness. *)

LEMMA TypeStep == TypeOK /\ [Next]_vars => TypeOK'
  <1> SUFFICES ASSUME TypeOK, [Next]_vars PROVE TypeOK'
    OBVIOUS
  <1>c. MaxOps \in Nat /\ MaxGenerations \in Nat \ {0} /\ MaxFaults \in Nat
    BY ConstantsAssumption
  <1>t. \A p \in Procs : Token(p) \in Tokens
    BY DEF TypeOK, Token, Tokens
  <1>g. \A p \in Procs, place \in Places : Goto(p, place) => pc' \in [Procs -> Places]
    BY DEF TypeOK, Goto
  <1>1. ASSUME NEW p \in Procs, Boot(p) PROVE TypeOK'
    BY <1>1 DEF Boot, TypeOK
  <1>2. ASSUME NEW p \in Procs, Die(p) PROVE TypeOK'
    BY <1>2, <1>g DEF Die, TypeOK, Places
  <1>3. ASSUME NEW p \in Procs, Begin(p) PROVE TypeOK'
    <2>1. op' \in [Procs -> 0..MaxOps]
      BY <1>3, <1>c DEF Begin, TypeOK
    <2> QED
      BY <1>3, <2>1, <1>g DEF Begin, TypeOK, Places
  <1>4. ASSUME NEW p \in Procs, Link(p) PROVE TypeOK'
    BY <1>4, <1>g, <1>t DEF Link, TypeOK, Places, Critical
  <1>5. ASSUME NEW p \in Procs, Read(p) PROVE TypeOK'
    <2>1. gen' \in [Procs -> 1..MaxGenerations]
      BY <1>5, <1>c DEF Read, TypeOK
    <2> QED
      BY <1>5, <2>1, <1>g DEF Read, TypeOK, Places, Electing
  <1>6. ASSUME NEW p \in Procs, Elect(p) PROVE TypeOK'
    <2> DEFINE t == seen[p]
               chain == [reaper[t] EXCEPT ![gen[p]] = p]
    <2>0. t \in Tokens => chain \in [1..MaxGenerations -> Procs \cup {Nobody}]
      <3>1. t \in Tokens => reaper[t] \in [1..MaxGenerations -> Procs \cup {Nobody}]
        BY DEF TypeOK
      <3> QED
        BY <3>1
    <2>4. [reaper EXCEPT ![t] = chain] \in [Tokens -> [1..MaxGenerations -> Procs \cup {Nobody}]]
      <3> HIDE DEF chain, t
      <3> QED
        BY <2>0 DEF TypeOK
    <2>5. reaper' = reaper \/ reaper' = [reaper EXCEPT ![t] = chain]
      BY <1>6 DEF Elect
    <2>1. reaper' \in [Tokens -> [1..MaxGenerations -> Procs \cup {Nobody}]]
      <3> HIDE DEF chain, t
      <3> QED
        BY <2>4, <2>5 DEF TypeOK
    <2>2. gen' \in [Procs -> 1..MaxGenerations]
      BY <1>6, <1>c DEF Elect, TypeOK
    <2>3. pc' \in [Procs -> Places]
      BY <1>6, <1>g DEF Elect, TypeOK, Places, Electing
    <2> QED
      BY <1>6, <2>1, <2>2, <2>3 DEF Elect, TypeOK
  <1>7. ASSUME NEW p \in Procs, Confirm(p) PROVE TypeOK'
    BY <1>7, <1>g DEF Confirm, TypeOK, Places, Electing
  <1>8. ASSUME NEW p \in Procs, Reap(p) PROVE TypeOK'
    BY <1>8, <1>g DEF Reap, TypeOK, Places
  <1>9. ASSUME NEW p \in Procs, ReapFails(p) PROVE TypeOK'
    BY <1>9, <1>g, <1>c DEF ReapFails, TypeOK, Places
  <1>10. ASSUME NEW p \in Procs, Retry(p) PROVE TypeOK'
    BY <1>10, <1>g DEF Retry, TypeOK, Places
  <1>11. ASSUME NEW p \in Procs, GiveUp(p) PROVE TypeOK'
    BY <1>11, <1>g DEF GiveUp, TypeOK, Places
  <1>12. ASSUME NEW p \in Procs, Load(p) PROVE TypeOK'
    BY <1>12, <1>g DEF Load, TypeOK, Places, Critical
  <1>13. ASSUME NEW p \in Procs, Save(p) PROVE TypeOK'
    BY <1>13, <1>g, <1>t DEF Save, TypeOK, Places, Critical
  <1>14. ASSUME NEW p \in Procs, LeaveAlone(p) PROVE TypeOK'
    BY <1>14, <1>g DEF LeaveAlone, TypeOK, Places, Critical
  <1>15. ASSUME NEW p \in Procs, Release(p) PROVE TypeOK'
    BY <1>15, <1>g DEF Release, TypeOK, Places, Critical
  <1>16. ASSUME NEW p \in Procs, Unlock(p) PROVE TypeOK'
    BY <1>16, <1>g DEF Unlock, TypeOK, Places
  <1>17. ASSUME NEW p \in Procs, UnlockFails(p) PROVE TypeOK'
    BY <1>17, <1>g, <1>c DEF UnlockFails, TypeOK, Places
  <1>18. ASSUME UNCHANGED vars PROVE TypeOK'
    BY <1>18 DEF vars, TypeOK
  <1> QED
    BY <1>1, <1>2, <1>3, <1>4, <1>5, <1>6, <1>7, <1>8, <1>9, <1>10, <1>11, <1>12, <1>13,
       <1>14, <1>15, <1>16, <1>17, <1>18 DEF Next, Call

-----------------------------------------------------------------------------
(* The invariant is inductive: one lemma for each action. *)

LEMMA BootKeepsIInv ==
    ASSUME IInv, NEW p \in Procs, Boot(p), TypeOK'
    PROVE  IInv'
  <1> USE DEF IInv, TypeOK
  <1>1. OnlyLiveCall' /\ LockHasOwner'
    BY DEF Boot, OnlyLiveCall, Goto, LockHasOwner
  <1>2. SeenIsDead' /\ ReapersBorn' /\ EarlierReapersDead' /\ ReaperElected'
    BY DEF Boot, SeenIsDead, Goto, Electing, ReapersBorn, EarlierReapersDead,
       ReaperElected
  <1>3. ReapsWhatItSaw' /\ HolderKeepsLock'
    BY DEF Boot, ReapsWhatItSaw, Goto, HolderKeepsLock, Critical, Token
  <1>4. ViewIsFile' /\ TokenIsNew'
    BY DEF Boot, ViewIsFile, Goto, TokenIsNew, Places, Electing, Critical, Token
  <1> QED
    BY <1>1, <1>2, <1>3, <1>4

LEMMA DieKeepsIInv ==
    ASSUME IInv, NEW p \in Procs, Die(p), TypeOK'
    PROVE  IInv'
  <1> USE DEF IInv, TypeOK
  <1>1. OnlyLiveCall' /\ LockHasOwner'
    BY DEF Die, OnlyLiveCall, Goto, LockHasOwner
  <1>2. SeenIsDead' /\ ReapersBorn' /\ EarlierReapersDead' /\ ReaperElected'
    BY DEF Die, SeenIsDead, Goto, Electing, ReapersBorn, EarlierReapersDead,
       ReaperElected
  <1>3. ReapsWhatItSaw' /\ HolderKeepsLock'
    BY DEF Die, ReapsWhatItSaw, Goto, HolderKeepsLock, Critical, Token
  <1>4. ViewIsFile' /\ TokenIsNew'
    BY DEF Die, ViewIsFile, Goto, TokenIsNew, Places, Electing, Critical, Token
  <1> QED
    BY <1>1, <1>2, <1>3, <1>4

LEMMA BeginKeepsIInv ==
    ASSUME IInv, NEW p \in Procs, Begin(p), TypeOK'
    PROVE  IInv'
  <1> USE DEF IInv, TypeOK
  <1>1. OnlyLiveCall' /\ LockHasOwner'
    BY DEF Begin, OnlyLiveCall, Goto, LockHasOwner
  <1>2. SeenIsDead' /\ ReapersBorn' /\ EarlierReapersDead' /\ ReaperElected'
    BY DEF Begin, SeenIsDead, Goto, Electing, ReapersBorn, EarlierReapersDead,
       ReaperElected
  <1>3. ReapsWhatItSaw' /\ HolderKeepsLock'
    BY DEF Begin, ReapsWhatItSaw, Goto, HolderKeepsLock, Critical, Token
  <1>4. ViewIsFile' /\ TokenIsNew'
    BY DEF Begin, ViewIsFile, Goto, TokenIsNew, Places, Electing, Critical, Token,
       Tokens
  <1> QED
    BY <1>1, <1>2, <1>3, <1>4

LEMMA LinkKeepsIInv ==
    ASSUME IInv, NEW p \in Procs, Link(p), TypeOK'
    PROVE  IInv'
  <1> USE DEF IInv, TypeOK
  <1>1. OnlyLiveCall' /\ LockHasOwner'
    <2>1. OnlyLiveCall'
      BY DEF Link, OnlyLiveCall, Goto
    <2>2. OwnerOf(Token(p)) = p
      BY DEF OwnerOf, Token
    <2>3. LockHasOwner'
      BY <2>2 DEF Link, LockHasOwner, OnlyLiveCall
    <2> QED
      BY <2>1, <2>3
  <1>2. SeenIsDead' /\ ReapersBorn' /\ EarlierReapersDead' /\ ReaperElected'
    BY DEF Link, SeenIsDead, Goto, Electing, ReapersBorn, EarlierReapersDead,
       ReaperElected
  <1>3. ReapsWhatItSaw' /\ HolderKeepsLock'
    <2>1. \A q \in Procs : Token(q) # NoLock
      BY ConstantsAssumption DEF Token, Tokens
    <2>2. \A q \in Procs : pc[q] = "reap" => lock # NoLock
      BY ConstantsAssumption DEF ReapsWhatItSaw, SeenIsDead, Electing
    <2>3. ReapsWhatItSaw'
      BY <2>2 DEF Link, ReapsWhatItSaw, Goto
    <2>4. \A q \in Procs : Token(q)' = Token(q)
      BY DEF Link, Token
    <2>5. HolderKeepsLock'
      BY <2>1, <2>4 DEF Link, HolderKeepsLock, Goto, Critical
    <2> QED
      BY <2>3, <2>5
  <1>4. ViewIsFile' /\ TokenIsNew'
    BY DEF Link, ViewIsFile, Goto, TokenIsNew, Places, Electing, Critical, Token
  <1> QED
    BY <1>1, <1>2, <1>3, <1>4

LEMMA ReadKeepsIInv ==
    ASSUME IInv, NEW p \in Procs, Read(p), TypeOK'
    PROVE  IInv'
  <1> USE DEF IInv, TypeOK
  <1>1. OnlyLiveCall' /\ LockHasOwner'
    BY DEF Read, OnlyLiveCall, Goto, LockHasOwner
  <1>2. SeenIsDead' /\ ReapersBorn' /\ EarlierReapersDead' /\ ReaperElected'
    <2>1. CASE lock = NoLock \/ Alive(OwnerOf(lock))
      BY <2>1 DEF Read, SeenIsDead, ReapersBorn, EarlierReapersDead, ReaperElected, Goto, Electing
    <2>2. CASE lock # NoLock /\ ~Alive(OwnerOf(lock))
      <3>1. lock \in Tokens /\ OwnerOf(lock) \in Procs
        BY <2>2 DEF OwnerOf, Tokens
      <3>2. life[OwnerOf(lock)] = "dead"
        BY <2>2, <3>1, LiveIsAlive DEF LockHasOwner
      <3>3. seen' = [seen EXCEPT ![p] = lock] /\ gen' = [gen EXCEPT ![p] = 1]
        BY <2>2 DEF Read
      <3>4. SeenIsDead'
        BY <3>1, <3>2, <3>3 DEF Read, SeenIsDead, Goto, Electing
      <3>5. \A i \in 1..MaxGenerations : ~(i < 1)
        OBVIOUS
      <3>6. EarlierReapersDead'
        BY <3>3, <3>5 DEF Read, EarlierReapersDead, Goto, Electing
      <3>7. ReapersBorn' /\ ReaperElected'
        BY <3>3 DEF Read, ReapersBorn, ReaperElected, Goto
      <3> QED
        BY <3>4, <3>6, <3>7
    <2> QED
      BY <2>1, <2>2
  <1>3. ReapsWhatItSaw' /\ HolderKeepsLock'
    BY DEF Read, ReapsWhatItSaw, Goto, HolderKeepsLock, Critical, Token
  <1>4. ViewIsFile' /\ TokenIsNew'
    BY DEF Read, ViewIsFile, Goto, TokenIsNew, Places, Electing, Critical, Token
  <1> QED
    BY <1>1, <1>2, <1>3, <1>4

LEMMA ElectKeepsIInv ==
    ASSUME IInv, NEW p \in Procs, Elect(p), TypeOK'
    PROVE  IInv'
  <1> USE DEF IInv, TypeOK
  <1>1. OnlyLiveCall' /\ LockHasOwner'
    BY DEF Elect, OnlyLiveCall, Goto, LockHasOwner
  <1>2. SeenIsDead' /\ ReapersBorn' /\ EarlierReapersDead' /\ ReaperElected'
    <2> DEFINE t == seen[p]
               here == reaper[t][gen[p]]
    <2>1. t \in Tokens /\ gen[p] \in 1..MaxGenerations /\ life[p] = "live"
      BY DEF Elect, SeenIsDead, OnlyLiveCall, Electing
    <2>2. SeenIsDead'
      BY DEF Elect, SeenIsDead, Goto, Electing
    <2>3. CASE here = Nobody
      <3>1. /\ reaper' = [reaper EXCEPT ![t][gen[p]] = p]
            /\ pc' = [pc EXCEPT ![p] = "confirm"] /\ gen' = gen /\ seen' = seen /\ life' = life
        BY <2>3 DEF Elect, Goto
      <3>2. /\ reaper'[t][gen[p]] = p
            /\ \A u \in Tokens, i \in 1..MaxGenerations :
                 (u # t \/ i # gen[p]) => reaper'[u][i] = reaper[u][i]
        BY <2>1, <3>1
      <3>3. ReapersBorn'
        BY <2>1, <3>1, <3>2 DEF ReapersBorn
      <3>4. ASSUME NEW q \in Procs, pc'[q] \in Electing, NEW i \in 1..MaxGenerations, i < gen[q]
            PROVE  reaper'[seen[q]][i] \in Procs /\ life[reaper'[seen[q]][i]] = "dead"
        <4>1. pc[q] \in Electing
          BY <3>1, <3>4 DEF Elect, Electing
        <4>2. /\ seen[q] \in Tokens
              /\ reaper[seen[q]][i] \in Procs /\ life[reaper[seen[q]][i]] = "dead"
          BY <3>4, <4>1 DEF SeenIsDead, EarlierReapersDead
        <4>3. seen[q] # t \/ i # gen[p]
          BY <2>3, <4>2, ConstantsAssumption
        <4> QED
          BY <3>2, <4>2, <4>3
      <3>5. EarlierReapersDead'
        BY <3>1, <3>4 DEF EarlierReapersDead
      <3>6. ASSUME NEW q \in Procs, q # p, pc[q] \in {"confirm", "reap"}
            PROVE  reaper'[seen[q]][gen[q]] = q
        <4>1. seen[q] \in Tokens /\ gen[q] \in 1..MaxGenerations /\ reaper[seen[q]][gen[q]] = q
          BY <3>6 DEF SeenIsDead, ReaperElected, Electing
        <4>2. seen[q] # t \/ gen[q] # gen[p]
          BY <2>3, <4>1, ConstantsAssumption
        <4> QED
          BY <3>2, <4>1, <4>2
      <3>7. ReaperElected'
        BY <3>1, <3>2, <3>6 DEF ReaperElected
      <3> QED
        BY <2>2, <3>3, <3>5, <3>7
    <2>4. CASE here # Nobody /\ Alive(here)
      <3>1. pc' = [pc EXCEPT ![p] = "retry"] /\ UNCHANGED <<reaper, gen, seen, life>>
        BY <2>4 DEF Elect, Goto
      <3>2. ReapersBorn' /\ ReaperElected'
        BY <3>1 DEF ReapersBorn, ReaperElected
      <3>3. EarlierReapersDead'
        BY <3>1 DEF EarlierReapersDead, Electing
      <3> QED
        BY <2>2, <3>2, <3>3
    <2>5. CASE here # Nobody /\ ~Alive(here) /\ gen[p] < MaxGenerations
      <3>1. gen' = [gen EXCEPT ![p] = @ + 1] /\ UNCHANGED <<pc, reaper, seen, life>>
        BY <2>5 DEF Elect
      <3>2. here \in Procs /\ life[here] = "dead"
        <4>1. here \in Procs
          <5>1. reaper[t] \in [1..MaxGenerations -> Procs \cup {Nobody}]
            BY <2>1
          <5> QED
            BY <2>1, <2>5, <5>1
        <4>2. life[here] # "unborn"
          BY <2>1, <4>1 DEF ReapersBorn
        <4>3. life[here] # "live"
          BY <2>5, <4>1, LiveIsAlive
        <4> QED
          BY <4>1, <4>2, <4>3
      <3>3. \A i \in 1..MaxGenerations : i < gen[p] + 1 => i < gen[p] \/ i = gen[p]
        BY <2>1, ConstantsAssumption
      <3>4. EarlierReapersDead'
        BY <3>1, <3>2, <3>3 DEF EarlierReapersDead
      <3>5. ReapersBorn' /\ ReaperElected'
        BY <3>1 DEF Elect, ReapersBorn, ReaperElected
      <3> QED
        BY <2>2, <3>4, <3>5
    <2>6. CASE here # Nobody /\ ~Alive(here) /\ ~(gen[p] < MaxGenerations)
      <3>1. pc' = [pc EXCEPT ![p] = "idle"] /\ UNCHANGED <<reaper, gen, seen, life>>
        BY <2>6 DEF Elect, Goto
      <3>2. ReapersBorn' /\ ReaperElected'
        BY <3>1 DEF ReapersBorn, ReaperElected
      <3>3. EarlierReapersDead'
        BY <3>1 DEF EarlierReapersDead, Electing
      <3> QED
        BY <2>2, <3>2, <3>3
    <2> QED
      BY <2>3, <2>4, <2>5, <2>6
  <1>3. ReapsWhatItSaw' /\ HolderKeepsLock'
    BY DEF Elect, ReapsWhatItSaw, Goto, HolderKeepsLock, Critical, Token
  <1>4. ViewIsFile' /\ TokenIsNew'
    BY DEF Elect, ViewIsFile, Goto, TokenIsNew, Places, Electing, Critical, Token
  <1> QED
    BY <1>1, <1>2, <1>3, <1>4

LEMMA ConfirmKeepsIInv ==
    ASSUME IInv, NEW p \in Procs, Confirm(p), TypeOK'
    PROVE  IInv'
  <1> USE DEF IInv, TypeOK
  <1>1. OnlyLiveCall' /\ LockHasOwner'
    BY DEF Confirm, OnlyLiveCall, Goto, LockHasOwner
  <1>2. SeenIsDead' /\ ReapersBorn' /\ EarlierReapersDead' /\ ReaperElected'
    <2>1. UNCHANGED <<life, reaper, seen, gen>>
      BY DEF Confirm
    <2>2. \A q \in Procs : pc'[q] \in Electing =>
             pc[q] \in Electing /\ (pc'[q] \in {"confirm", "reap"} => pc[q] \in {"confirm", "reap"})
      BY DEF Confirm, Goto, Electing
    <2>3. SeenIsDead' /\ ReapersBorn' /\ EarlierReapersDead'
      BY <2>1, <2>2 DEF SeenIsDead, ReapersBorn, EarlierReapersDead
    <2>4. ReaperElected'
      BY <2>1, <2>2 DEF ReaperElected, Electing
    <2> QED
      BY <2>3, <2>4
  <1>3. ReapsWhatItSaw' /\ HolderKeepsLock'
    BY DEF Confirm, ReapsWhatItSaw, Goto, HolderKeepsLock, Critical, Token
  <1>4. ViewIsFile' /\ TokenIsNew'
    BY DEF Confirm, ViewIsFile, Goto, TokenIsNew, Places, Electing, Critical, Token
  <1> QED
    BY <1>1, <1>2, <1>3, <1>4

LEMMA ReapKeepsIInv ==
    ASSUME IInv, NEW p \in Procs, Reap(p), TypeOK'
    PROVE  IInv'
  <1> USE DEF IInv, TypeOK
  <1>1. OnlyLiveCall' /\ LockHasOwner'
    BY DEF Reap, OnlyLiveCall, Goto, LockHasOwner
  <1>2. SeenIsDead' /\ ReapersBorn' /\ EarlierReapersDead' /\ ReaperElected'
    BY DEF Reap, SeenIsDead, Goto, Electing, ReapersBorn, EarlierReapersDead,
       ReaperElected
  <1>3. ReapsWhatItSaw' /\ HolderKeepsLock'
    <2>1. ASSUME NEW q \in Procs, pc[q] = "reap" PROVE q = p
      BY <2>1, OneReaper DEF Reap, ReapsWhatItSaw
    <2>2. \A q \in Procs : pc[q] \notin Critical
      BY NoHolderWhileReaping DEF Reap
    <2> QED
      BY <2>1, <2>2 DEF Reap, ReapsWhatItSaw, HolderKeepsLock, Goto, Critical
  <1>4. ViewIsFile' /\ TokenIsNew'
    BY DEF Reap, ViewIsFile, Goto, TokenIsNew, Places, Electing, Critical, Token
  <1> QED
    BY <1>1, <1>2, <1>3, <1>4

LEMMA ReapFailsKeepsIInv ==
    ASSUME IInv, NEW p \in Procs, ReapFails(p), TypeOK'
    PROVE  IInv'
  <1> USE DEF IInv, TypeOK
  <1>1. OnlyLiveCall' /\ LockHasOwner'
    BY DEF ReapFails, OnlyLiveCall, Goto, LockHasOwner
  <1>2. SeenIsDead' /\ ReapersBorn' /\ EarlierReapersDead' /\ ReaperElected'
    BY DEF ReapFails, SeenIsDead, Goto, Electing, ReapersBorn, EarlierReapersDead,
       ReaperElected
  <1>3. ReapsWhatItSaw' /\ HolderKeepsLock'
    BY DEF ReapFails, ReapsWhatItSaw, Goto, HolderKeepsLock, Critical, Token
  <1>4. ViewIsFile' /\ TokenIsNew'
    BY DEF ReapFails, ViewIsFile, Goto, TokenIsNew, Places, Electing, Critical,
       Token
  <1> QED
    BY <1>1, <1>2, <1>3, <1>4

LEMMA RetryKeepsIInv ==
    ASSUME IInv, NEW p \in Procs, Retry(p), TypeOK'
    PROVE  IInv'
  <1> USE DEF IInv, TypeOK
  <1>1. OnlyLiveCall' /\ LockHasOwner'
    BY DEF Retry, OnlyLiveCall, Goto, LockHasOwner
  <1>2. SeenIsDead' /\ ReapersBorn' /\ EarlierReapersDead' /\ ReaperElected'
    BY DEF Retry, SeenIsDead, Goto, Electing, ReapersBorn, EarlierReapersDead,
       ReaperElected
  <1>3. ReapsWhatItSaw' /\ HolderKeepsLock'
    BY DEF Retry, ReapsWhatItSaw, Goto, HolderKeepsLock, Critical, Token
  <1>4. ViewIsFile' /\ TokenIsNew'
    BY DEF Retry, ViewIsFile, Goto, TokenIsNew, Places, Electing, Critical, Token
  <1> QED
    BY <1>1, <1>2, <1>3, <1>4

LEMMA GiveUpKeepsIInv ==
    ASSUME IInv, NEW p \in Procs, GiveUp(p), TypeOK'
    PROVE  IInv'
  <1> USE DEF IInv, TypeOK
  <1>1. OnlyLiveCall' /\ LockHasOwner'
    BY DEF GiveUp, OnlyLiveCall, Goto, LockHasOwner
  <1>2. SeenIsDead' /\ ReapersBorn' /\ EarlierReapersDead' /\ ReaperElected'
    BY DEF GiveUp, SeenIsDead, Goto, Electing, ReapersBorn, EarlierReapersDead,
       ReaperElected
  <1>3. ReapsWhatItSaw' /\ HolderKeepsLock'
    BY DEF GiveUp, ReapsWhatItSaw, Goto, HolderKeepsLock, Critical, Token
  <1>4. ViewIsFile' /\ TokenIsNew'
    BY DEF GiveUp, ViewIsFile, Goto, TokenIsNew, Places, Electing, Critical, Token
  <1> QED
    BY <1>1, <1>2, <1>3, <1>4

LEMMA LoadKeepsIInv ==
    ASSUME IInv, NEW p \in Procs, Load(p), TypeOK'
    PROVE  IInv'
  <1> USE DEF IInv, TypeOK
  <1>1. OnlyLiveCall' /\ LockHasOwner'
    BY DEF Load, OnlyLiveCall, Goto, LockHasOwner
  <1>2. SeenIsDead' /\ ReapersBorn' /\ EarlierReapersDead' /\ ReaperElected'
    BY DEF Load, SeenIsDead, Goto, Electing, ReapersBorn, EarlierReapersDead,
       ReaperElected
  <1>3. ReapsWhatItSaw' /\ HolderKeepsLock'
    BY DEF Load, ReapsWhatItSaw, Goto, HolderKeepsLock, Critical, Token
  <1>4. ViewIsFile' /\ TokenIsNew'
    BY DEF Load, ViewIsFile, Goto, TokenIsNew, Places, Electing, Critical, Token
  <1> QED
    BY <1>1, <1>2, <1>3, <1>4

LEMMA SaveKeepsIInv ==
    ASSUME IInv, NEW p \in Procs, Save(p), TypeOK'
    PROVE  IInv'
  <1> USE DEF IInv, TypeOK
  <1>1. OnlyLiveCall' /\ LockHasOwner'
    BY DEF Save, OnlyLiveCall, Goto, LockHasOwner
  <1>2. SeenIsDead' /\ ReapersBorn' /\ EarlierReapersDead' /\ ReaperElected'
    BY DEF Save, SeenIsDead, Goto, Electing, ReapersBorn, EarlierReapersDead,
       ReaperElected
  <1>3. ReapsWhatItSaw' /\ HolderKeepsLock'
    BY DEF Save, ReapsWhatItSaw, Goto, HolderKeepsLock, Critical, Token
  <1>4. ViewIsFile' /\ TokenIsNew'
    BY DEF Save, ViewIsFile, Goto, TokenIsNew, Places, Electing, Critical, Token,
       HolderKeepsLock, Tokens
  <1> QED
    BY <1>1, <1>2, <1>3, <1>4

LEMMA LeaveAloneKeepsIInv ==
    ASSUME IInv, NEW p \in Procs, LeaveAlone(p), TypeOK'
    PROVE  IInv'
  <1> USE DEF IInv, TypeOK
  <1>1. OnlyLiveCall' /\ LockHasOwner'
    BY DEF LeaveAlone, OnlyLiveCall, Goto, LockHasOwner
  <1>2. SeenIsDead' /\ ReapersBorn' /\ EarlierReapersDead' /\ ReaperElected'
    BY DEF LeaveAlone, SeenIsDead, Goto, Electing, ReapersBorn, EarlierReapersDead,
       ReaperElected
  <1>3. ReapsWhatItSaw' /\ HolderKeepsLock'
    BY DEF LeaveAlone, ReapsWhatItSaw, Goto, HolderKeepsLock, Critical, Token
  <1>4. ViewIsFile' /\ TokenIsNew'
    BY DEF LeaveAlone, ViewIsFile, Goto, TokenIsNew, Places, Electing, Critical,
       Token
  <1> QED
    BY <1>1, <1>2, <1>3, <1>4

LEMMA ReleaseKeepsIInv ==
    ASSUME IInv, NEW p \in Procs, Release(p), TypeOK'
    PROVE  IInv'
  <1> USE DEF IInv, TypeOK
  <1>1. OnlyLiveCall' /\ LockHasOwner'
    BY DEF Release, OnlyLiveCall, Goto, LockHasOwner
  <1>2. SeenIsDead' /\ ReapersBorn' /\ EarlierReapersDead' /\ ReaperElected'
    BY DEF Release, SeenIsDead, Goto, Electing, ReapersBorn, EarlierReapersDead,
       ReaperElected
  <1>3. ReapsWhatItSaw' /\ HolderKeepsLock'
    BY DEF Release, ReapsWhatItSaw, Goto, HolderKeepsLock, Critical, Token
  <1>4. ViewIsFile' /\ TokenIsNew'
    BY DEF Release, ViewIsFile, Goto, TokenIsNew, Places, Electing, Critical, Token
  <1> QED
    BY <1>1, <1>2, <1>3, <1>4

LEMMA UnlockKeepsIInv ==
    ASSUME IInv, NEW p \in Procs, Unlock(p), TypeOK'
    PROVE  IInv'
  <1> USE DEF IInv, TypeOK
  <1>1. OnlyLiveCall' /\ LockHasOwner'
    BY DEF Unlock, OnlyLiveCall, Goto, LockHasOwner
  <1>2. SeenIsDead' /\ ReapersBorn' /\ EarlierReapersDead' /\ ReaperElected'
    BY DEF Unlock, SeenIsDead, Goto, Electing, ReapersBorn, EarlierReapersDead,
       ReaperElected
  <1>3. ReapsWhatItSaw' /\ HolderKeepsLock'
    <2>1. \A q \in Procs : pc[q] # "reap"
      BY NoHolderWhileReaping DEF Unlock, Critical
    <2>2. ASSUME NEW q \in Procs, pc[q] \in Critical PROVE q = p
      BY <2>2 DEF Unlock, HolderKeepsLock, Critical, Token
    <2> QED
      BY <2>1, <2>2 DEF Unlock, ReapsWhatItSaw, HolderKeepsLock, Goto, Critical
  <1>4. ViewIsFile' /\ TokenIsNew'
    BY DEF Unlock, ViewIsFile, Goto, TokenIsNew, Places, Electing, Critical, Token
  <1> QED
    BY <1>1, <1>2, <1>3, <1>4

LEMMA UnlockFailsKeepsIInv ==
    ASSUME IInv, NEW p \in Procs, UnlockFails(p), TypeOK'
    PROVE  IInv'
  <1> USE DEF IInv, TypeOK
  <1>1. OnlyLiveCall' /\ LockHasOwner'
    BY DEF UnlockFails, OnlyLiveCall, Goto, LockHasOwner
  <1>2. SeenIsDead' /\ ReapersBorn' /\ EarlierReapersDead' /\ ReaperElected'
    BY DEF UnlockFails, SeenIsDead, Goto, Electing, ReapersBorn, EarlierReapersDead,
       ReaperElected
  <1>3. ReapsWhatItSaw' /\ HolderKeepsLock'
    BY DEF UnlockFails, ReapsWhatItSaw, Goto, HolderKeepsLock, Critical, Token
  <1>4. ViewIsFile' /\ TokenIsNew'
    BY DEF UnlockFails, ViewIsFile, Goto, TokenIsNew, Places, Electing, Critical,
       Token
  <1> QED
    BY <1>1, <1>2, <1>3, <1>4

LEMMA NextKeepsIInv == IInv /\ [Next]_vars => IInv'
  <1> SUFFICES ASSUME IInv, [Next]_vars PROVE IInv'
    OBVIOUS
  <1>1. TypeOK'
    BY TypeStep DEF IInv
  <1>2. ASSUME NEW p \in Procs, Call(p) PROVE IInv'
    BY <1>1, <1>2, LinkKeepsIInv, ReadKeepsIInv, ElectKeepsIInv, ConfirmKeepsIInv, ReapKeepsIInv,
       RetryKeepsIInv, LoadKeepsIInv, SaveKeepsIInv, ReleaseKeepsIInv, UnlockKeepsIInv DEF Call
  <1>3. CASE Next
    BY <1>1, <1>2, <1>3, BootKeepsIInv, DieKeepsIInv, BeginKeepsIInv, ReapFailsKeepsIInv,
       GiveUpKeepsIInv, LeaveAloneKeepsIInv, UnlockFailsKeepsIInv DEF Next
  <1>4. CASE UNCHANGED vars
    BY <1>4 DEF vars, IInv, TypeOK, OnlyLiveCall, LockHasOwner, SeenIsDead, ReapersBorn,
       EarlierReapersDead, ReaperElected, ReapsWhatItSaw, HolderKeepsLock, ViewIsFile,
       TokenIsNew, Token
  <1> QED
    BY <1>3, <1>4

LEMMA Inductive == Spec => []IInv
  <1> QED
    BY InitIInv, NextKeepsIInv, PTL DEF Spec

-----------------------------------------------------------------------------
(* What follows from it. *)

\* The lock files, the election chains, the journal and the places of all runs
\* keep their shape.
THEOREM TypeCorrect == Spec => []TypeOK
  <1>1. IInv => TypeOK
    BY DEF IInv
  <1> QED
    BY <1>1, Inductive, PTL

\* Two holders would have the same token in the lock file.
THEOREM Exclusion == Spec => []MutualExclusion
  <1>1. IInv => MutualExclusion
    BY DEF IInv, HolderKeepsLock, MutualExclusion, Token
  <1> QED
    BY <1>1, Inductive, PTL

\* No reaper, however late, removes the lock of a run that is alive.
THEOREM LockIsKept == Spec => []HolderKeepsLock
  <1>1. IInv => HolderKeepsLock
    BY DEF IInv
  <1> QED
    BY <1>1, Inductive, PTL

\* The journal implements the serial store: a save is one operation of the
\* store, everything else leaves the store as it is.
THEOREM Serial == Spec => ImplementsStore
  <1>1. Init => Store!Init
    BY DEF Init, Store!Init
  <1>2. IInv /\ [Next]_vars => [Store!Next]_file
    <2> SUFFICES ASSUME IInv, [Next]_vars PROVE Store!Next \/ UNCHANGED file
      OBVIOUS
    <2>1. ASSUME NEW p \in Procs, Save(p) PROVE Store!Next
      <3>1. Token(p) \in Tokens
        BY DEF IInv, TypeOK, Token, Tokens
      <3>2. Token(p) \notin file
        BY <2>1 DEF IInv, TokenIsNew, Save, Places, Critical
      <3>3. file' = file \cup {Token(p)}
        BY <2>1 DEF IInv, ViewIsFile, Save
      <3> QED
        BY <3>1, <3>2, <3>3 DEF Store!Next, Store!Apply
    <2>2. ASSUME NEW p \in Procs, Call(p), ~Save(p) PROVE UNCHANGED file
      BY <2>2 DEF Call, Link, Read, Elect, Confirm, Reap, Retry, Load, Release, Unlock
    <2>3. CASE Next
      BY <2>1, <2>2, <2>3 DEF Next, Boot, Die, Begin, ReapFails, GiveUp, LeaveAlone, UnlockFails
    <2>4. CASE UNCHANGED vars
      BY <2>4 DEF vars
    <2> QED
      BY <2>3, <2>4
  <1> QED
    BY <1>1, <1>2, Inductive, PTL DEF Spec, ImplementsStore, Store!Spec
=============================================================================
