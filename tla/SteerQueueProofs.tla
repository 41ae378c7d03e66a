-------------------------- MODULE SteerQueueProofs --------------------------
(* Theorems about the composer queue, for every instance of SteerQueue:     *)
(* the types of its state; that what waits is never lost, doubled or        *)
(* reordered, and is handed over again only if it went back in line; that   *)
(* the bot's slots are used as far as they may be and no further; and, for  *)
(* instances without live steering, that the words of a send are said once  *)
(* and that the queue implements SendOutbox.                                *)
EXTENDS SteerQueue, SequenceTheorems, FiniteSetTheorems, WellFoundedInduction, TLAPS

-----------------------------------------------------------------------------
(* Facts about the helpers. *)

\* Taking one element out of a sequence leaves a sequence over the same set.
LEMMA RemoveAtType ==
    ASSUME NEW S, NEW s \in Seq(S), NEW k \in DOMAIN s
    PROVE  RemoveAt(s, k) \in Seq(S)
<1>1. SubSeq(s, 1, k - 1) \in Seq(S)
  OBVIOUS
<1>2. SubSeq(s, k + 1, Len(s)) \in Seq(S)
  OBVIOUS
<1> QED
  BY <1>1, <1>2 DEF RemoveAt

\* A drain, from well-typed values, leaves well-typed values.
LEMMA DrainType ==
    ASSUME ConstantsAssumption, NEW failing,
           NEW q \in [Threads -> Seq(Ids)], NEW ah \in SUBSET (Threads \X Threads),
           NEW tn \in [Threads -> TurnPhases], NEW bt \in [Threads -> Seq(Ids)],
           NEW st \in [Ids -> Statuses], NEW tx \in [Threads -> Seq(Ids)],
           NEW gr, NEW co
    PROVE  LET d == Drained(failing, q, ah, tn, bt, st, tx, gr, co)
           IN /\ d.queue \in [Threads -> Seq(Ids)]
              /\ d.ahead \subseteq Threads \X Threads
              /\ d.turn \in [Threads -> TurnPhases]
              /\ d.batch \in [Threads -> Seq(Ids)]
              /\ d.text \in [Threads -> Seq(Ids)]
              /\ d.status \in [Ids -> Statuses]
<1> DEFINE d == Drained(failing, q, ah, tn, bt, st, tx, gr, co)
<1>1. d.queue \in [Threads -> Seq(Ids)]
  BY DEF Drained, Claimed
<1>2. d.ahead \subseteq Threads \X Threads
  BY DEF Drained
<1>3. d.turn \in [Threads -> TurnPhases]
  BY DEF Drained, TurnPhases
<1>4. d.batch \in [Threads -> Seq(Ids)]
  BY DEF Drained
<1>5. d.text \in [Threads -> Seq(Ids)]
  <2>1. \A t \in Threads : tx[t] \o q[t] \in Seq(Ids)
    OBVIOUS
  <2> QED
    BY <2>1 DEF Drained
<1>6. d.status \in [Ids -> Statuses]
  BY DEF Drained, Statuses
<1> QED
  BY <1>1, <1>2, <1>3, <1>4, <1>5, <1>6

\* The step of a drain leaves the variables it assigns well typed.
LEMMA DrainStepType ==
    ASSUME ConstantsAssumption,
           NEW q \in [Threads -> Seq(Ids)], NEW ah \in SUBSET (Threads \X Threads),
           NEW tn \in [Threads -> TurnPhases], NEW bt \in [Threads -> Seq(Ids)],
           NEW st \in [Ids -> Statuses], NEW tx \in [Threads -> Seq(Ids)],
           NEW gr, NEW co,
           Drain(q, ah, tn, bt, st, tx, gr, co)
    PROVE  /\ queue' \in [Threads -> Seq(Ids)]
           /\ ahead' \subseteq Threads \X Threads
           /\ turn' \in [Threads -> TurnPhases]
           /\ batch' \in [Threads -> Seq(Ids)]
           /\ text' \in [Threads -> Seq(Ids)]
           /\ status' \in [Ids -> Statuses]
<1>1. PICK failing \in SUBSET Threads :
        LET d == Drained(failing, q, ah, tn, bt, st, tx, gr, co)
        IN /\ queue' = d.queue /\ ahead' = d.ahead /\ turn' = d.turn
           /\ batch' = d.batch /\ text' = d.text /\ status' = d.status
  BY Zenon DEF Drain
<1> QED
  BY <1>1, DrainType

LEMMA AtTheEndType ==
    ASSUME NEW q, NEW ah \in SUBSET (Threads \X Threads), NEW t \in Threads
    PROVE  AtTheEnd(ah, q, t) \subseteq Threads \X Threads
BY DEF AtTheEnd, Waiting

LEMMA NoSteerType ==
    ASSUME ConstantsAssumption
    PROVE  NoSteer \in SteerRecord
<1>1. PICK s \in Sends : Home[s] \in Threads
  BY DEF ConstantsAssumption
<1>2. (CHOOSE t \in Threads : TRUE) \in Threads
  BY <1>1
<1> QED
  BY <1>2 DEF NoSteer, SteerRecord

-----------------------------------------------------------------------------
(* Type correctness. *)

LEMMA TypeInit == ASSUME Init PROVE TypeOK
<1> USE ConstantsAssumption
<1>1. sendOf \in [Ids -> Sends]
  <2>1. (CHOOSE s \in Sends : TRUE) \in Sends
    BY DEF ConstantsAssumption
  <2> QED
    BY <2>1 DEF Init
<1>2. steer \in [Requests -> SteerRecord]
  BY NoSteerType DEF Init
<1>3. [t \in Threads |-> <<>>] \in [Threads -> Seq(Ids)]
  OBVIOUS
<1>4. /\ status \in [Ids -> Statuses] /\ turn \in [Threads -> TurnPhases]
      /\ alive \in [Threads -> BOOLEAN] /\ handed \in [Ids -> Nat]
  BY DEF Init, Statuses, TurnPhases
<1>5. text \in [Threads -> Seq(Ids)] /\ queue \in [Threads -> Seq(Ids)] /\ batch \in [Threads -> Seq(Ids)]
  BY <1>3 DEF Init
<1> QED
  BY <1>1, <1>2, <1>4, <1>5 DEF Init, TypeOK

LEMMA TypeStep == ASSUME TypeOK, [Next]_vars PROVE TypeOK'
<1> USE ConstantsAssumption
<1>h. \A i \in Ids : HomeOf(i) \in Threads
  BY DEF TypeOK, HomeOf, ConstantsAssumption
<1>e. ASSUME NEW t \in Threads
      PROVE  /\ AtTheEnd(ahead, queue, t) \subseteq Threads \X Threads
             /\ \A i \in Ids : Append(queue[t], i) \in Seq(Ids)
  BY AtTheEndType DEF TypeOK
<1>r. ASSUME NEW t \in Threads PROVE Retired(t) \in [Ids -> Statuses]
  BY DEF Retired, TypeOK, Statuses
<1>q. ASSUME NEW s \in Sends, NEW i \in Ids, Enqueue(s, i)
      PROVE  /\ sendOf' \in [Ids -> Sends] /\ status' \in [Ids -> Statuses]
             /\ queue' \in [Threads -> Seq(Ids)] /\ ahead' \subseteq Threads \X Threads
             /\ accepted' \subseteq Sends /\ rows' \in Seq(Ids)
             /\ UNCHANGED <<text, turn, batch>>
  <2> DEFINE t == Home[s]
  <2>1. t \in Threads
    BY DEF ConstantsAssumption
  <2>2. /\ Append(queue[t], i) \in Seq(Ids) /\ AtTheEnd(ahead, queue, t) \subseteq Threads \X Threads
        /\ Append(rows, i) \in Seq(Ids)
    BY <1>e, <2>1 DEF TypeOK
  <2> QED
    BY <1>q, <2>1, <2>2 DEF Enqueue, TypeOK, Statuses
<1>n. ASSUME NEW s \in Sends, NEW i \in Ids, StartNow(s, i)
      PROVE  /\ sendOf' \in [Ids -> Sends] /\ status' \in [Ids -> Statuses]
             /\ text' \in [Threads -> Seq(Ids)] /\ turn' \in [Threads -> TurnPhases]
             /\ batch' \in [Threads -> Seq(Ids)] /\ accepted' \subseteq Sends
             /\ UNCHANGED <<rows, queue, ahead>>
  <2>1. Home[s] \in Threads
    BY DEF ConstantsAssumption
  <2>2. Append(text[Home[s]], i) \in Seq(Ids)
    BY <2>1 DEF TypeOK
  <2> QED
    BY <1>n, <2>1, <2>2 DEF StartNow, TypeOK, Statuses, TurnPhases
<1>1. ASSUME NEW s \in Sends, NEW i \in Ids, Post(s, i) PROVE TypeOK'
  <2>1. UNCHANGED <<notices, alive, phase, steer, group, coord, handed, requeued, crossed, crashes>>
    BY <1>1 DEF Post
  <2>2. CASE Enqueue(s, i)
    BY <2>1, <2>2, <1>q DEF TypeOK
  <2>3. CASE StartNow(s, i)
    BY <2>1, <2>3, <1>n DEF TypeOK
  <2>4. CASE /\ sendOf' = [sendOf EXCEPT ![i] = s]
             /\ status' = [status EXCEPT ![i] = "posting"]
             /\ UNCHANGED <<rows, text, queue, ahead, turn, batch, accepted>>
    BY <2>1, <2>4 DEF TypeOK, Statuses
  <2> QED
    BY <1>1, <2>2, <2>3, <2>4 DEF Post, StartOrQueue
<1>2. ASSUME NEW i \in Ids, PostTaken(i) PROVE TypeOK'
  BY <1>2 DEF PostTaken, TypeOK, durable, memory
<1>3. ASSUME NEW i \in Ids, NEW o \in Outcomes, PostAnswered(i, o) PROVE TypeOK'
  <2> DEFINE s == sendOf[i]
  <2>1. UNCHANGED <<notices, alive, phase, steer, group, coord, handed, requeued, crossed, crashes>>
    BY <1>3 DEF PostAnswered
  <2>2. s \in Sends /\ Home[s] \in Threads
    BY DEF TypeOK, ConstantsAssumption
  <2>3. CASE Enqueue(s, i)
    BY <2>1, <2>2, <2>3, <1>q DEF TypeOK
  <2>4. CASE StartNow(s, i)
    BY <2>1, <2>2, <2>4, <1>n DEF TypeOK
  <2>5. CASE /\ status' = [status EXCEPT ![i] = "direct"]
             /\ text' = [text EXCEPT ![Home[s]] = Append(@, i)]
             /\ accepted' = accepted \cup {s}
             /\ UNCHANGED <<sendOf, rows, queue, ahead, turn, batch>>
    <3>1. Append(text[Home[s]], i) \in Seq(Ids)
      BY <2>2 DEF TypeOK
    <3> QED
      BY <2>1, <2>2, <2>5, <3>1 DEF TypeOK, Statuses
  <2>6. CASE /\ status' = [status EXCEPT ![i] = IF handed[i] = 1 THEN "bounced" ELSE "gone"]
             /\ UNCHANGED <<sendOf, rows, text, queue, ahead, turn, batch, accepted>>
    BY <2>1, <2>6 DEF TypeOK, Statuses
  <2> QED
    BY <1>3, <2>3, <2>4, <2>5, <2>6 DEF PostAnswered, StartOrQueue
<1>4. ASSUME NEW t \in Threads, NEW k \in Ids, Cancel(t, k) PROVE TypeOK'
  <2>1. RemoveAt(queue[t], k) \in Seq(Ids)
    BY <1>4, RemoveAtType DEF Cancel, TypeOK
  <2> QED
    BY <1>4, <2>1 DEF Cancel, TypeOK, Statuses
<1>5. ASSUME NEW r \in Requests, NEW t \in Threads, HoldAndAsk(r, t) PROVE TypeOK'
  <2>1. steer' \in [Requests -> SteerRecord]
    <3>1. [phase |-> "asked", thread |-> t, items |-> queue[t]] \in SteerRecord
      BY DEF TypeOK, SteerRecord
    <3> QED
      BY <1>5, <3>1 DEF HoldAndAsk, TypeOK
  <2>2. queue' \in [Threads -> Seq(Ids)] /\ ahead' \subseteq Threads \X Threads /\ crossed' \subseteq Threads
    <3>1. queue' \in [Threads -> Seq(Ids)]
      BY <1>5 DEF HoldAndAsk, TypeOK, Lifted
    <3>2. ahead' \subseteq Threads \X Threads
      BY <1>5 DEF HoldAndAsk, TypeOK
    <3>3. crossed' \subseteq Threads
      BY <1>5 DEF HoldAndAsk, TypeOK
    <3> QED
      BY <3>1, <3>2, <3>3
  <2> QED
    BY <1>5, <2>1, <2>2 DEF HoldAndAsk, TypeOK, durable
<1>6. ASSUME NEW t \in Threads, HoldRefused(t) PROVE TypeOK'
  <2>1. UNCHANGED <<sendOf, rows, notices, alive, phase, steer, group, coord,
                   handed, accepted, requeued, crossed, crashes>>
    BY <1>6 DEF HoldRefused
  <2>2. CASE Busy(t)
    BY <1>6, <2>1, <2>2, <1>e DEF HoldRefused, TypeOK
  <2>3. CASE ~Busy(t)
    <3>1. Drain(queue, AtTheEnd(ahead, queue, t), turn, batch, status, text, group, coord)
      BY <1>6, <2>3 DEF HoldRefused
    <3> QED
      BY <2>1, <3>1, <1>e, DrainStepType DEF TypeOK
  <2> QED
    BY <2>2, <2>3
<1>7. ASSUME NEW r \in Requests, HeldTaken(r) PROVE TypeOK'
  <2>1. steer' \in [Requests -> SteerRecord]
    <3>1. steer[r] \in SteerRecord
      BY DEF TypeOK
    <3>2. [steer[r] EXCEPT !.phase = "delivered"] \in SteerRecord
      BY <3>1 DEF SteerRecord
    <3> QED
      BY <1>7, <3>2 DEF HeldTaken, TypeOK
  <2>2. handed' \in [Ids -> Nat]
    BY <1>7 DEF HeldTaken, TypeOK
  <2> QED
    BY <1>7, <2>1, <2>2 DEF HeldTaken, TypeOK, durable
<1>8. ASSUME NEW r \in Requests, NEW o \in Outcomes, HeldAnswered(r, o) PROVE TypeOK'
  <2> DEFINE t == steer[r].thread
             items == steer[r].items
             line == IF queue[t] = <<>> THEN AtTheEnd(ahead, queue, t) ELSE ahead
  <2>1. t \in Threads /\ items \in Seq(Ids)
    BY DEF TypeOK, SteerRecord
  <2>2. UNCHANGED <<sendOf, rows, notices, alive, phase, group, coord, handed, accepted, crossed, crashes>>
    BY <1>8 DEF HeldAnswered
  <2>3. steer' \in [Requests -> SteerRecord] /\ requeued' \subseteq Ids
    <3>1. ToSet(items) \subseteq Ids
      BY <2>1 DEF ToSet
    <3> QED
      BY <1>8, <3>1, NoSteerType DEF HeldAnswered, TypeOK
  <2>4. PutBack(t, items) \in [Threads -> Seq(Ids)] /\ line \subseteq Threads \X Threads
    <3>1. items \o queue[t] \in Seq(Ids)
      BY <2>1 DEF TypeOK
    <3> QED
      BY <3>1, <2>1, <1>e DEF PutBack, TypeOK
  <2>5. CASE Folded(t, o)
    <3>1. text[t] \o items \in Seq(Ids)
      BY <2>1 DEF TypeOK
    <3>2. /\ status' = SettledHeld(items)
          /\ text' = IF alive[t] THEN [text EXCEPT ![t] = @ \o items] ELSE text
          /\ UNCHANGED <<queue, ahead, turn, batch>>
      BY <1>8, <2>5 DEF HeldAnswered
    <3>3. SettledHeld(items) \in [Ids -> Statuses]
      BY DEF SettledHeld, TypeOK, Statuses
    <3> QED
      BY <2>1, <2>2, <2>3, <3>1, <3>2, <3>3 DEF TypeOK
  <2>6. CASE ~Folded(t, o) /\ alive[t] /\ ~Busy(t)
    <3>1. Drain(PutBack(t, items), line, turn, batch, status, text, group, coord)
      BY <1>8, <2>6 DEF HeldAnswered
    <3> QED
      BY <2>2, <2>3, <2>4, <3>1, DrainStepType DEF TypeOK
  <2>7. CASE ~Folded(t, o) /\ ~(alive[t] /\ ~Busy(t))
    <3>1. /\ queue' = PutBack(t, items)
          /\ ahead' = line
          /\ UNCHANGED <<status, text, turn, batch>>
      BY <1>8, <2>7 DEF HeldAnswered
    <3> QED
      BY <2>2, <2>3, <2>4, <3>1 DEF TypeOK
  <2> QED
    BY <2>5, <2>6, <2>7
<1>9. ASSUME NEW t \in Threads, CallAdapter(t) PROVE TypeOK'
  <2>1. turn' \in [Threads -> TurnPhases] /\ handed' \in [Ids -> Nat]
    BY <1>9 DEF CallAdapter, TypeOK, TurnPhases
  <2> QED
    BY <1>9, <2>1 DEF CallAdapter, TypeOK, durable
<1>d. ASSUME NEW t \in Threads, NEW p \in {"early", "idle"}, TurnVarsKept, UNCHANGED handed,
             Drain(queue, ahead, [turn EXCEPT ![t] = p], batch, status, text, group, coord)
             \/ Drain(queue, ahead, [turn EXCEPT ![t] = p], [batch EXCEPT ![t] = <<>>],
                      Retired(t), text, group, coord)
      PROVE  TypeOK'
  <2>1. [turn EXCEPT ![t] = p] \in [Threads -> TurnPhases]
    BY DEF TypeOK, TurnPhases
  <2>2. [batch EXCEPT ![t] = <<>>] \in [Threads -> Seq(Ids)]
    BY DEF TypeOK
  <2> QED
    BY <1>d, <1>r, <2>1, <2>2, DrainStepType DEF TypeOK, TurnVarsKept
<1>10. ASSUME NEW t \in Threads, DispatchAcked(t) PROVE TypeOK'
  <2>1. CASE turn[t] = "early"
    BY <1>10, <2>1, <1>d DEF DispatchAcked
  <2>2. CASE turn[t] = "dispatching"
    BY <1>10, <2>2 DEF DispatchAcked, TypeOK, TurnPhases, TurnVarsKept
  <2> QED
    BY <1>10, <2>1, <2>2 DEF DispatchAcked
<1>11. ASSUME NEW t \in Threads, TurnCompleted(t) PROVE TypeOK'
  BY <1>11, <1>d DEF TurnCompleted
<1>12. ASSUME NEW t \in Threads, SetupEnds(t) PROVE TypeOK'
  BY <1>12, <1>d DEF SetupEnds
<1>13. ASSUME GroupTurnStarts PROVE TypeOK'
  BY <1>13 DEF GroupTurnStarts, TypeOK, durable
<1>14. ASSUME GroupTurnEnds PROVE TypeOK'
  BY <1>14, DrainStepType DEF GroupTurnEnds, TypeOK
<1>15. ASSUME NEW t \in Threads, WorkHandedOut(t) PROVE TypeOK'
  BY <1>15 DEF WorkHandedOut, TypeOK, durable
<1>16. ASSUME NEW t \in Threads, WorkReturned(t) PROVE TypeOK'
  BY <1>16, DrainStepType DEF WorkReturned, TypeOK
<1>17. ASSUME NEW t \in Threads, DeleteThread(t) PROVE TypeOK'
  <2>1. PICK failing \in SUBSET Threads :
          LET d == IF t \in coord
                   THEN Drained(failing, queue, ahead, turn, batch, status, text, group, coord')
                   ELSE [queue |-> queue, ahead |-> ahead, turn |-> turn, batch |-> batch,
                         text |-> text, status |-> status]
          IN /\ queue' = d.queue /\ ahead' = d.ahead /\ turn' = d.turn /\ batch' = d.batch
             /\ text' = [d.text EXCEPT ![t] = <<>>]
             /\ status' = [i \in Ids |-> IF HomeOf(i) = t /\ status[i] \notin {"free", "posting", "bounced"}
                                         THEN "gone" ELSE d.status[i]]
    BY <1>17 DEF DeleteThread
  <2> DEFINE d == IF t \in coord
                  THEN Drained(failing, queue, ahead, turn, batch, status, text, group, coord')
                  ELSE [queue |-> queue, ahead |-> ahead, turn |-> turn, batch |-> batch,
                        text |-> text, status |-> status]
  <2>2. /\ d.queue \in [Threads -> Seq(Ids)]
        /\ d.ahead \subseteq Threads \X Threads
        /\ d.turn \in [Threads -> TurnPhases]
        /\ d.batch \in [Threads -> Seq(Ids)]
        /\ d.text \in [Threads -> Seq(Ids)]
        /\ d.status \in [Ids -> Statuses]
    BY DrainType DEF TypeOK
  <2>3. /\ queue' = d.queue /\ ahead' = d.ahead /\ turn' = d.turn /\ batch' = d.batch
        /\ text' = [d.text EXCEPT ![t] = <<>>]
        /\ status' = [i \in Ids |-> IF HomeOf(i) = t /\ status[i] \notin {"free", "posting", "bounced"}
                                    THEN "gone" ELSE d.status[i]]
    BY <2>1
  <2>4. text' \in [Threads -> Seq(Ids)] /\ status' \in [Ids -> Statuses]
    <3> HIDE DEF d
    <3> QED
      BY <2>2, <2>3 DEF Statuses
  <2>5. /\ alive' \in [Threads -> BOOLEAN] /\ notices' \subseteq Ids /\ coord' \subseteq Threads
        /\ UNCHANGED <<sendOf, rows, phase, steer, group, handed, accepted, requeued, crossed, crashes>>
    BY <1>17 DEF DeleteThread, TypeOK
  <2> HIDE DEF d
  <2> QED
    BY <2>2, <2>3, <2>4, <2>5 DEF TypeOK
<1>w. ASSUME Wiped, status' \in [Ids -> Statuses], text' \in [Threads -> Seq(Ids)]
      PROVE  TypeOK'
  <2>1. [u \in Threads |-> <<>>] \in [Threads -> Seq(Ids)]
    OBVIOUS
  <2>2. queue' \in [Threads -> Seq(Ids)] /\ batch' \in [Threads -> Seq(Ids)]
    BY <1>w, <2>1 DEF Wiped
  <2>3. steer' \in [Requests -> SteerRecord] /\ turn' \in [Threads -> TurnPhases]
    BY <1>w, NoSteerType DEF Wiped, TurnPhases
  <2>4. requeued' \subseteq Ids /\ crashes' \in Nat
    BY <1>w DEF Wiped, TypeOK
  <2>5. /\ sendOf' \in [Ids -> Sends] /\ notices' \subseteq Ids /\ alive' \in [Threads -> BOOLEAN]
        /\ handed' \in [Ids -> Nat] /\ accepted' \subseteq Sends /\ rows' \in Seq(Ids)
    BY <1>w DEF Wiped, TypeOK
  <2>6. phase' \in {"up", "recovering"} /\ ahead' \subseteq Threads \X Threads
        /\ group' \in BOOLEAN /\ coord' \subseteq Threads /\ crossed' \subseteq Threads
    BY <1>w DEF Wiped
  <2> QED
    BY <1>w, <2>2, <2>3, <2>4, <2>5, <2>6 DEF TypeOK
<1>a. ASSUME NEW st \in [Ids -> Statuses] PROVE Abandoned(st) \in [Ids -> Statuses]
  BY DEF Abandoned, Statuses
<1>18. ASSUME Crash PROVE TypeOK'
  BY <1>18, <1>w, <1>a DEF Crash, TypeOK
<1>19. ASSUME NEW t \in Threads, NEW n \in 0..MaxIds, CrashInDrain(t, n) PROVE TypeOK'
  <2>1. ASSUME NEW failing, NEW tn, NEW st \in [Ids -> Statuses], NEW gr, NEW co,
               CutDrain(t, n, failing, tn, st, gr, co)
        PROVE  status' \in [Ids -> Statuses] /\ text' \in [Threads -> Seq(Ids)]
    <3>1. SubSeq(queue[t], 1, n) \in Seq(Ids)
      BY <2>1 DEF CutDrain, TypeOK
    <3>2. /\ text[t] \o SubSeq(queue[t], 1, n) \in Seq(Ids)
          /\ \A u \in Threads : text[u] \o queue[u] \in Seq(Ids)
      BY <3>1 DEF TypeOK
    <3>3. text' \in [Threads -> Seq(Ids)]
      BY <2>1, <3>2 DEF CutDrain, TypeOK
    <3> DEFINE fires == {u \in Threads : Fires(u, failing, queue, ahead, tn, gr, co)}
               before == {u \in fires : <<u, t>> \in ahead}
               claimed == UNION {ToSet(queue[u]) : u \in (before \ failing) \cup {t}}
               refused == UNION {ToSet(queue[u]) : u \in before \cap failing}
    <3>4. status' = Abandoned([i \in Ids |-> IF i \in claimed THEN "dispatching"
                                            ELSE IF i \in refused THEN "gone" ELSE st[i]])
      BY <2>1 DEF CutDrain
    <3> HIDE DEF claimed, refused
    <3>5. [i \in Ids |-> IF i \in claimed THEN "dispatching"
                        ELSE IF i \in refused THEN "gone" ELSE st[i]] \in [Ids -> Statuses]
      BY DEF Statuses
    <3> QED
      BY <1>a, <3>3, <3>4, <3>5
  <2>2. status' \in [Ids -> Statuses] /\ text' \in [Threads -> Seq(Ids)]
    BY <1>19, <1>r, <2>1 DEF CrashInDrain, TypeOK
  <2> QED
    BY <1>19, <1>w, <2>2 DEF CrashInDrain
<1>20. ASSUME NEW r \in Requests, NEW n \in Ids, CrashInSteer(r, n) PROVE TypeOK'
  <2>0. steer[r].thread \in Threads /\ steer[r].items \in Seq(Ids)
    BY DEF TypeOK, SteerRecord
  <2>1. text[steer[r].thread] \o SubSeq(steer[r].items, 1, n) \in Seq(Ids)
    <3>1. SubSeq(steer[r].items, 1, n) \in Seq(Ids)
      BY <1>20, <2>0 DEF CrashInSteer
    <3> QED
      BY <2>0, <3>1 DEF TypeOK
  <2>3. status' \in [Ids -> Statuses]
    BY <1>20, <1>a DEF CrashInSteer, TypeOK
  <2>4. text' \in [Threads -> Seq(Ids)]
    BY <1>20, <2>0, <2>1 DEF CrashInSteer, TypeOK
  <2> QED
    BY <1>20, <1>w, <2>3, <2>4 DEF CrashInSteer
<1>21. ASSUME NEW i \in Ids, Recover(i) PROVE TypeOK'
  <2>1. Append(text[HomeOf(i)], i) \in Seq(Ids)
    BY <1>h DEF TypeOK
  <2>2. status' \in [Ids -> Statuses] /\ phase' \in {"up", "recovering"} /\ notices' \subseteq Ids
    BY <1>21, <1>h DEF Recover, TypeOK, Statuses, memory
  <2>3. text' \in [Threads -> Seq(Ids)]
    BY <1>21, <1>h, <2>1 DEF Recover, TypeOK
  <2> QED
    BY <1>21, <2>2, <2>3 DEF Recover, TypeOK, memory
<1>22. ASSUME NEW i \in Ids, Restore(i) PROVE TypeOK'
  BY <1>22, <1>h, <1>e DEF Restore, TypeOK, durable
<1>23. ASSUME Listen PROVE TypeOK'
  BY <1>23, DrainStepType DEF Listen, TypeOK
<1>24. ASSUME UNCHANGED vars PROVE TypeOK'
  BY <1>24 DEF vars, durable, memory, TypeOK
<1> QED
  BY <1>1, <1>2, <1>3, <1>4, <1>5, <1>6, <1>7, <1>8, <1>9, <1>10, <1>11, <1>12, <1>13,
     <1>14, <1>15, <1>16, <1>17, <1>18, <1>19, <1>20, <1>21, <1>22, <1>23, <1>24 DEF Next

\* The database, the queue map and the in-flight steers keep their shape in
\* every instance of the composer queue.
THEOREM TypeCorrect == Spec => []TypeOK
<1> QED
  BY TypeInit, TypeStep, PTL DEF Spec
-----------------------------------------------------------------------------
(* The inductive invariant.  A drain takes the queues, the turns, their      *)
(* batches, the rows and the transcripts as its caller left them, so these   *)
(* come in as parameters: q, h (the held steers), tn, bt, st, tx, and also   *)
(* rq (what was requeued) and ph (the phase of the process).                 *)

Waits(i, q, h) == i \in ToSet(q[HomeOf(i)]) \/ \E r \in Requests : i \in ToSet(h[r].items)

\* Words wait, and run, in the thread they were sent to.
Homed(q, h, bt, st) ==
    /\ \A t \in Threads : \A i \in ToSet(q[t]) : HomeOf(i) = t
    /\ \A r \in Requests : \A i \in ToSet(h[r].items) : HomeOf(i) = h[r].thread
    /\ \A t \in Threads : \A i \in ToSet(bt[t]) : HomeOf(i) = t /\ st[i] # "free"

\* Words wait in one place.
Once(q, h) ==
    /\ \A t \in Threads : IsInjective(q[t])
    /\ \A r \in Requests : /\ IsInjective(h[r].items)
                           /\ h[r].phase = "none" => h[r].items = <<>>
                           /\ \A i \in ToSet(h[r].items) : i \notin ToSet(q[HomeOf(i)])
                           /\ \A p \in Requests \ {r} : ToSet(h[r].items) \cap ToSet(h[p].items) = {}

\* What waits for a live thread has a pending row, and nothing else is pending
\* while the server is up.
Backed(q, h, st, ph) ==
    \A i \in Ids :
        /\ Waits(i, q, h) => st[i] \in {"pending", "gone"} /\ (alive[HomeOf(i)] => st[i] = "pending")
        /\ st[i] = "pending" => alive[HomeOf(i)] /\ (ph = "up" => Waits(i, q, h))

RowsFit(st) ==
    /\ IsInjective(rows)
    /\ \A i \in ToSet(rows) : st[i] \notin {"free", "posting"}
    /\ \A i \in Ids : st[i] = "pending" => i \in ToSet(rows)

InOrder(s) == \A j, k \in 1..Len(s) : j < k => Before(s[j], s[k])

\* A queue that is put back in front of what came meanwhile is in order.
Ordered(q, h) ==
    \A t \in Threads \ crossed :
        /\ InOrder(q[t])
        /\ \A r \in Requests : h[r].phase # "none" /\ h[r].thread = t =>
              /\ InOrder(h[r].items)
              /\ \A x \in ToSet(h[r].items), y \in ToSet(q[t]) : Before(x, y)
              /\ \A p \in Requests \ {r} : h[p].phase # "none" => h[p].thread # t

\* While the server boots, rows come back from the oldest on.
Booting(q, h, tn, st, ph) ==
    ph = "recovering" =>
        /\ \A r \in Requests : h[r] = NoSteer
        /\ \A t \in Threads : tn[t] = "idle"
        /\ \A i \in Ids : st[i] = "pending" /\ i \notin ToSet(q[HomeOf(i)]) =>
              \A t \in Threads : \A j \in ToSet(q[t]) : Before(j, i)

\* What was taken from the line is on the transcript.
LinesFit(st, tx, ph) ==
    /\ ph = "up" => \A i \in Ids : st[i] = "dispatching" => i \in ToSet(tx[HomeOf(i)])
    /\ \A s \in accepted : alive[Home[s]] =>
          \E i \in Ids : /\ sendOf[i] = s /\ st[i] # "free"
                         /\ \/ st[i] \in {"pending", "dispatching", "interrupted", "cancelled"}
                            \/ i \in ToSet(tx[Home[s]])

\* Words that wait, or that a turn is about to hand over, were handed over
\* before only if they went back in line.
Fresh(i, rq) == handed[i] > 0 => i \in rq
HandedFits(q, h, tn, bt, st, rq, ph) ==
    /\ \A i \in Ids : /\ handed[i] > 1 => i \in rq
                      /\ st[i] = "free" => handed[i] = 0
                      /\ ph = "recovering" /\ st[i] = "pending" => Fresh(i, rq)
    /\ \A t \in Threads : /\ \A i \in ToSet(q[t]) : Fresh(i, rq)
                          /\ tn[t] = "setup" /\ alive[t] =>
                                \A i \in ToSet(bt[t]) : st[i] \in {"direct", "dispatching"} /\ Fresh(i, rq)
    /\ \A r \in Requests : h[r].phase = "asked" => \A i \in ToSet(h[r].items) : Fresh(i, rq)

Fits(q, h, tn, bt, st, tx, rq, ph) ==
    /\ Homed(q, h, bt, st) /\ Once(q, h) /\ Backed(q, h, st, ph)
    /\ RowsFit(st) /\ Ordered(q, h) /\ Booting(q, h, tn, st, ph)
    /\ LinesFit(st, tx, ph) /\ HandedFits(q, h, tn, bt, st, rq, ph)

IInv == TypeOK /\ Fits(queue, steer, turn, batch, status, text, requeued, phase)

-----------------------------------------------------------------------------
(* Facts about sequences and the order of the rows. *)

LEMMA EmptySet == ToSet(<<>>) = {}
BY DEF ToSet

LEMMA AppendSet ==
    ASSUME NEW S, NEW s \in Seq(S), NEW e \in S
    PROVE  ToSet(Append(s, e)) = ToSet(s) \cup {e}
<1>1. DOMAIN Append(s, e) = 1..(Len(s) + 1) /\ DOMAIN s = 1..Len(s) /\ Len(s) \in Nat
  OBVIOUS
<1>2. \A k \in 1..(Len(s) + 1) : Append(s, e)[k] = IF k = Len(s) + 1 THEN e ELSE s[k]
  OBVIOUS
<1>3. ASSUME NEW x \in ToSet(s) PROVE x \in ToSet(Append(s, e))
  <2>1. PICK k \in 1..Len(s) : s[k] = x
    BY <1>1 DEF ToSet
  <2>2. k \in 1..(Len(s) + 1) /\ Append(s, e)[k] = x
    BY <1>1, <1>2, <2>1
  <2> QED
    BY <1>1, <2>2 DEF ToSet
<1>4. e \in ToSet(Append(s, e))
  <2>1. Len(s) + 1 \in 1..(Len(s) + 1) /\ Append(s, e)[Len(s) + 1] = e
    BY <1>1, <1>2
  <2> QED
    BY <1>1, <2>1 DEF ToSet
<1>5. ASSUME NEW x \in ToSet(Append(s, e)) PROVE x \in ToSet(s) \cup {e}
  <2>1. PICK k \in 1..(Len(s) + 1) : Append(s, e)[k] = x
    BY <1>1 DEF ToSet
  <2>2. CASE k = Len(s) + 1
    BY <1>2, <2>1, <2>2
  <2>3. CASE k # Len(s) + 1
    <3>1. k \in 1..Len(s) /\ s[k] = x
      BY <1>1, <1>2, <2>1, <2>3
    <3> QED
      BY <1>1, <3>1 DEF ToSet
  <2> QED
    BY <2>2, <2>3
<1> QED
  BY <1>3, <1>4, <1>5

LEMMA ConcatSet ==
    ASSUME NEW S, NEW a \in Seq(S), NEW b \in Seq(S)
    PROVE  ToSet(a \o b) = ToSet(a) \cup ToSet(b)
<1>1. /\ DOMAIN (a \o b) = 1..(Len(a) + Len(b)) /\ DOMAIN a = 1..Len(a) /\ DOMAIN b = 1..Len(b)
      /\ Len(a) \in Nat /\ Len(b) \in Nat
  OBVIOUS
<1>2. \A k \in 1..(Len(a) + Len(b)) : (a \o b)[k] = IF k <= Len(a) THEN a[k] ELSE b[k - Len(a)]
  OBVIOUS
<1>3. ASSUME NEW x \in ToSet(a) PROVE x \in ToSet(a \o b)
  <2>1. PICK k \in 1..Len(a) : a[k] = x
    BY <1>1 DEF ToSet
  <2>2. k \in 1..(Len(a) + Len(b)) /\ (a \o b)[k] = x
    BY <1>1, <1>2, <2>1
  <2> QED
    BY <1>1, <2>2 DEF ToSet
<1>4. ASSUME NEW x \in ToSet(b) PROVE x \in ToSet(a \o b)
  <2>1. PICK k \in 1..Len(b) : b[k] = x
    BY <1>1 DEF ToSet
  <2>2. k + Len(a) \in 1..(Len(a) + Len(b)) /\ (a \o b)[k + Len(a)] = x
    BY <1>1, <1>2, <2>1
  <2> QED
    BY <1>1, <2>2 DEF ToSet
<1>5. ASSUME NEW x \in ToSet(a \o b) PROVE x \in ToSet(a) \cup ToSet(b)
  <2>1. PICK k \in 1..(Len(a) + Len(b)) : (a \o b)[k] = x
    BY <1>1 DEF ToSet
  <2>2. CASE k <= Len(a)
    <3>1. k \in 1..Len(a) /\ a[k] = x
      BY <1>1, <1>2, <2>1, <2>2
    <3> QED
      BY <1>1, <3>1 DEF ToSet
  <2>3. CASE ~(k <= Len(a))
    <3>1. k - Len(a) \in 1..Len(b) /\ b[k - Len(a)] = x
      BY <1>1, <1>2, <2>1, <2>3
    <3> QED
      BY <1>1, <3>1 DEF ToSet
  <2> QED
    BY <2>2, <2>3
<1> QED
  BY <1>3, <1>4, <1>5

LEMMA AppendInjectivity ==
    ASSUME NEW S, NEW s \in Seq(S), NEW e \in S, IsInjective(s), e \notin ToSet(s)
    PROVE  IsInjective(Append(s, e))
<1>1. DOMAIN Append(s, e) = 1..(Len(s) + 1) /\ DOMAIN s = 1..Len(s) /\ Len(s) \in Nat
  OBVIOUS
<1>2. \A k \in 1..(Len(s) + 1) : Append(s, e)[k] = IF k = Len(s) + 1 THEN e ELSE s[k]
  OBVIOUS
<1>3. \A k \in 1..Len(s) : s[k] # e
  BY <1>1 DEF ToSet
<1> QED
  BY <1>1, <1>2, <1>3 DEF IsInjective

LEMMA ConcatAt ==
    ASSUME NEW S, NEW a \in Seq(S), NEW b \in Seq(S)
    PROVE  /\ a \o b \in Seq(S) /\ Len(a \o b) = Len(a) + Len(b)
           /\ \A k \in 1..(Len(a) + Len(b)) : (a \o b)[k] = IF k <= Len(a) THEN a[k] ELSE b[k - Len(a)]
OBVIOUS

LEMMA RemoveAtFacts ==
    ASSUME NEW S, NEW s \in Seq(S), NEW k \in DOMAIN s
    PROVE  LET w == RemoveAt(s, k)
           IN /\ w \in Seq(S) /\ Len(w) = Len(s) - 1
              /\ \A m \in 1..(Len(s) - 1) : w[m] = IF m < k THEN s[m] ELSE s[m + 1]
<1> DEFINE a == SubSeq(s, 1, k - 1)
           b == SubSeq(s, k + 1, Len(s))
<1>1. k \in 1..Len(s) /\ Len(s) \in Nat
  OBVIOUS
<1>2. /\ a \in Seq(S) /\ Len(a) = k - 1
      /\ \A m \in 1..(k - 1) : a[m] = s[m]
  BY <1>1
<1>3. /\ b \in Seq(S) /\ Len(b) = Len(s) - k
      /\ \A m \in 1..(Len(s) - k) : b[m] = s[m + k]
  BY <1>1
<1>4. RemoveAt(s, k) = a \o b
  BY DEF RemoveAt
<1> HIDE DEF a, b
<1>5. /\ (a \o b) \in Seq(S) /\ Len(a \o b) = Len(s) - 1
      /\ \A m \in 1..(Len(s) - 1) : (a \o b)[m] = IF m <= k - 1 THEN a[m] ELSE b[m - (k - 1)]
  <2>0. a \in Seq(S) /\ b \in Seq(S)
    BY <1>2, <1>3
  <2>1. (a \o b) \in Seq(S) /\ Len(a \o b) = Len(a) + Len(b)
    BY <2>0, ConcatAt
  <2>2. \A m \in 1..(Len(a) + Len(b)) : (a \o b)[m] = IF m <= Len(a) THEN a[m] ELSE b[m - Len(a)]
    BY <2>0, ConcatAt
  <2>3. Len(a) + Len(b) = Len(s) - 1
    BY <1>1, <1>2, <1>3
  <2> QED
    BY <1>2, <2>1, <2>2, <2>3
<1>6. ASSUME NEW m \in 1..(Len(s) - 1) PROVE (a \o b)[m] = IF m < k THEN s[m] ELSE s[m + 1]
  <2>0. m \in Nat /\ k \in Nat
    BY <1>1
  <2>1. CASE m < k
    <3>1. m \in 1..(k - 1) /\ m <= k - 1
      BY <1>1, <2>0, <2>1
    <3> QED
      BY <1>2, <1>5, <2>1, <3>1
  <2>2. CASE ~(m < k)
    <3>1. m - (k - 1) \in 1..(Len(s) - k) /\ (m - (k - 1)) + k = m + 1 /\ ~(m <= k - 1)
      BY <1>1, <2>0, <2>2
    <3>2. (a \o b)[m] = b[m - (k - 1)]
      BY <1>5, <3>1
    <3>3. b[m - (k - 1)] = s[m + 1]
      BY <1>3, <3>1
    <3> QED
      BY <2>2, <3>2, <3>3
  <2> QED
    BY <2>1, <2>2
<1> QED
  BY <1>4, <1>5, <1>6

\* Taking one element out of an injective sequence.
LEMMA RemoveAtInjective ==
    ASSUME NEW S, NEW s \in Seq(S), NEW k \in DOMAIN s, IsInjective(s)
    PROVE  /\ IsInjective(RemoveAt(s, k))
           /\ ToSet(RemoveAt(s, k)) = ToSet(s) \ {s[k]}
           /\ InOrder(s) => InOrder(RemoveAt(s, k))
<1> DEFINE w == RemoveAt(s, k)
<1>1. k \in 1..Len(s) /\ Len(s) \in Nat /\ DOMAIN s = 1..Len(s)
  OBVIOUS
<1>2. /\ w \in Seq(S) /\ Len(w) = Len(s) - 1
      /\ \A m \in 1..(Len(s) - 1) : w[m] = IF m < k THEN s[m] ELSE s[m + 1]
  BY RemoveAtFacts
<1> HIDE DEF w
<1>3. DOMAIN w = 1..(Len(s) - 1)
  BY <1>1, <1>2
<1>4. \A m, n \in 1..Len(s) : s[m] = s[n] => m = n
  BY <1>1 DEF IsInjective
<1>5. IsInjective(w)
  <2>1. ASSUME NEW m \in 1..(Len(s) - 1), NEW n \in 1..(Len(s) - 1), w[m] = w[n] PROVE m = n
    BY <1>1, <1>2, <1>4, <2>1
  <2> QED
    BY <1>3, <2>1 DEF IsInjective
<1>6. ASSUME NEW x \in ToSet(w) PROVE x \in ToSet(s) \ {s[k]}
  <2>1. PICK m \in 1..(Len(s) - 1) : w[m] = x
    BY <1>3 DEF ToSet
  <2>2. \E n \in 1..Len(s) : n # k /\ s[n] = x
    BY <1>1, <1>2, <2>1
  <2> QED
    BY <1>1, <1>4, <2>2 DEF ToSet
<1>7. ASSUME NEW x \in ToSet(s) \ {s[k]} PROVE x \in ToSet(w)
  <2>1. PICK n \in 1..Len(s) : s[n] = x
    BY <1>1 DEF ToSet
  <2>2. CASE n < k
    <3>1. n \in 1..(Len(s) - 1) /\ w[n] = x
      BY <1>1, <1>2, <2>1, <2>2
    <3> QED
      BY <1>3, <3>1 DEF ToSet
  <2>3. CASE n > k
    <3>1. n - 1 \in 1..(Len(s) - 1) /\ w[n - 1] = x
      BY <1>1, <1>2, <2>1, <2>3
    <3> QED
      BY <1>3, <3>1 DEF ToSet
  <2> QED
    BY <1>1, <1>7, <2>1, <2>2, <2>3
<1>8. ASSUME InOrder(s) PROVE InOrder(w)
  <2>1. ASSUME NEW m \in 1..(Len(s) - 1), NEW n \in 1..(Len(s) - 1), m < n
        PROVE  \E m1, n1 \in 1..Len(s) : m1 < n1 /\ w[m] = s[m1] /\ w[n] = s[n1]
    <3> DEFINE m1 == IF m < k THEN m ELSE m + 1
               n1 == IF n < k THEN n ELSE n + 1
    <3>1. m1 \in 1..Len(s) /\ n1 \in 1..Len(s) /\ m1 < n1
      BY <1>1, <2>1
    <3>2. w[m] = s[m1] /\ w[n] = s[n1]
      BY <1>2
    <3> QED
      BY <3>1, <3>2
  <2> QED
    BY <1>2, <1>8, <2>1 DEF InOrder
<1> QED
  BY <1>5, <1>6, <1>7, <1>8 DEF w

LEMMA EmptyInOrder == InOrder(<<>>) /\ IsInjective(<<>>)
BY DEF InOrder, IsInjective

\* One run of rows after another is in order when its parts are and the
\* first part is the older one.
LEMMA ConcatInOrder ==
    ASSUME NEW S, NEW a \in Seq(S), NEW b \in Seq(S)
    PROVE  InOrder(a \o b) <=>
               /\ InOrder(a) /\ InOrder(b)
               /\ \A x \in ToSet(a), y \in ToSet(b) : Before(x, y)
<1>1. /\ DOMAIN a = 1..Len(a) /\ DOMAIN b = 1..Len(b)
      /\ Len(a) \in Nat /\ Len(b) \in Nat /\ Len(a \o b) = Len(a) + Len(b)
  OBVIOUS
<1>2. \A k \in 1..(Len(a) + Len(b)) : (a \o b)[k] = IF k <= Len(a) THEN a[k] ELSE b[k - Len(a)]
  OBVIOUS
<1>3. ASSUME InOrder(a \o b) PROVE InOrder(a)
  BY <1>1, <1>2, <1>3 DEF InOrder
<1>4. ASSUME InOrder(a \o b) PROVE InOrder(b)
  <2> SUFFICES ASSUME NEW j \in 1..Len(b), NEW k \in 1..Len(b), j < k PROVE Before(b[j], b[k])
    BY DEF InOrder
  <2>1. /\ j + Len(a) \in 1..Len(a \o b) /\ k + Len(a) \in 1..Len(a \o b)
        /\ j + Len(a) < k + Len(a)
        /\ (a \o b)[j + Len(a)] = b[j] /\ (a \o b)[k + Len(a)] = b[k]
    BY <1>1, <1>2
  <2> QED
    BY <1>4, <2>1 DEF InOrder
<1>5. ASSUME InOrder(a \o b), NEW x \in ToSet(a), NEW y \in ToSet(b) PROVE Before(x, y)
  <2>1. PICK j \in 1..Len(a), k \in 1..Len(b) : a[j] = x /\ b[k] = y
    BY <1>1 DEF ToSet
  <2>2. /\ j \in 1..Len(a \o b) /\ k + Len(a) \in 1..Len(a \o b) /\ j < k + Len(a)
        /\ (a \o b)[j] = x /\ (a \o b)[k + Len(a)] = y
    BY <1>1, <1>2, <2>1
  <2> QED
    BY <1>5, <2>2 DEF InOrder
<1>6. ASSUME InOrder(a), InOrder(b), \A x \in ToSet(a), y \in ToSet(b) : Before(x, y),
             NEW j \in 1..Len(a \o b), NEW k \in 1..Len(a \o b), j < k
      PROVE  Before((a \o b)[j], (a \o b)[k])
  <2>1. CASE k <= Len(a)
    BY <1>1, <1>2, <1>6, <2>1 DEF InOrder
  <2>2. CASE j > Len(a)
    <3>1. /\ j - Len(a) \in 1..Len(b) /\ k - Len(a) \in 1..Len(b) /\ j - Len(a) < k - Len(a)
          /\ (a \o b)[j] = b[j - Len(a)] /\ (a \o b)[k] = b[k - Len(a)]
      BY <1>1, <1>2, <1>6, <2>2
    <3> QED
      BY <1>6, <3>1 DEF InOrder
  <2>3. CASE j <= Len(a) /\ k > Len(a)
    <3>1. /\ j \in 1..Len(a) /\ k - Len(a) \in 1..Len(b)
          /\ (a \o b)[j] = a[j] /\ (a \o b)[k] = b[k - Len(a)]
      BY <1>1, <1>2, <2>3
    <3> QED
      BY <1>1, <1>6, <3>1 DEF ToSet
  <2> QED
    BY <1>1, <2>1, <2>2, <2>3
<1> QED
  BY <1>3, <1>4, <1>5, <1>6 DEF InOrder

LEMMA AppendInOrder ==
    ASSUME NEW S, NEW s \in Seq(S), NEW e \in S, InOrder(s), \A x \in ToSet(s) : Before(x, e)
    PROVE  InOrder(Append(s, e))
<1>1. Len(s) \in Nat /\ DOMAIN s = 1..Len(s) /\ Len(Append(s, e)) = Len(s) + 1
  OBVIOUS
<1>2. \A k \in 1..(Len(s) + 1) : Append(s, e)[k] = IF k = Len(s) + 1 THEN e ELSE s[k]
  OBVIOUS
<1>3. \A k \in 1..Len(s) : Before(s[k], e)
  BY <1>1 DEF ToSet
<1> QED
  BY <1>1, <1>2, <1>3 DEF InOrder

LEMMA ConcatInjectivity ==
    ASSUME NEW S, NEW a \in Seq(S), NEW b \in Seq(S), IsInjective(a), IsInjective(b),
           ToSet(a) \cap ToSet(b) = {}
    PROVE  IsInjective(a \o b)
<1>1. /\ DOMAIN a = 1..Len(a) /\ DOMAIN b = 1..Len(b) /\ DOMAIN (a \o b) = 1..(Len(a) + Len(b))
      /\ Len(a) \in Nat /\ Len(b) \in Nat
  OBVIOUS
<1>2. \A k \in 1..(Len(a) + Len(b)) : (a \o b)[k] = IF k <= Len(a) THEN a[k] ELSE b[k - Len(a)]
  OBVIOUS
<1>3. /\ \A j, k \in 1..Len(a) : a[j] = a[k] => j = k
      /\ \A j, k \in 1..Len(b) : b[j] = b[k] => j = k
      /\ \A j \in 1..Len(a), k \in 1..Len(b) : a[j] # b[k]
  <2>1. \A j, k \in 1..Len(a) : a[j] = a[k] => j = k
    BY <1>1 DEF IsInjective
  <2>2. \A j, k \in 1..Len(b) : b[j] = b[k] => j = k
    BY <1>1 DEF IsInjective
  <2>3. ASSUME NEW j \in 1..Len(a), NEW k \in 1..Len(b) PROVE a[j] # b[k]
    <3>1. a[j] \in ToSet(a) /\ b[k] \in ToSet(b)
      BY <1>1 DEF ToSet
    <3> QED
      BY <3>1
  <2> QED
    BY <2>1, <2>2, <2>3
<1>4. ASSUME NEW j \in 1..(Len(a) + Len(b)), NEW k \in 1..(Len(a) + Len(b)),
             (a \o b)[j] = (a \o b)[k]
      PROVE  j = k
  <2>1. CASE j <= Len(a) /\ k <= Len(a)
    BY <1>1, <1>2, <1>3, <1>4, <2>1
  <2>2. CASE j > Len(a) /\ k > Len(a)
    <3>1. j - Len(a) \in 1..Len(b) /\ k - Len(a) \in 1..Len(b) /\ b[j - Len(a)] = b[k - Len(a)]
      BY <1>1, <1>2, <1>4, <2>2
    <3>2. j - Len(a) = k - Len(a)
      BY <1>3, <3>1
    <3> QED
      BY <1>1, <3>2
  <2>3. CASE j <= Len(a) /\ k > Len(a)
    <3>1. j \in 1..Len(a) /\ k - Len(a) \in 1..Len(b) /\ a[j] = b[k - Len(a)]
      BY <1>1, <1>2, <1>4, <2>3
    <3> QED
      BY <1>3, <3>1
  <2>4. CASE j > Len(a) /\ k <= Len(a)
    <3>1. k \in 1..Len(a) /\ j - Len(a) \in 1..Len(b) /\ a[k] = b[j - Len(a)]
      BY <1>1, <1>2, <1>4, <2>4
    <3> QED
      BY <1>3, <3>1
  <2> QED
    BY <1>1, <2>1, <2>2, <2>3, <2>4
<1> QED
  BY <1>1, <1>4 DEF IsInjective

\* Two rows are older or newer than each other.
LEMMA RowsTotal ==
    ASSUME NEW i, NEW j, rows \in Seq(Ids), i \in ToSet(rows), j \in ToSet(rows), i # j
    PROVE  Before(i, j) \/ Before(j, i)
<1>1. PICK m \in 1..Len(rows), n \in 1..Len(rows) : rows[m] = i /\ rows[n] = j
  BY DEF ToSet
<1>2. m < n \/ n < m
  BY <1>1
<1> QED
  BY <1>1, <1>2 DEF Before

-----------------------------------------------------------------------------
(* A drain keeps the invariant.                                              *)

\* A drain that follows values which fit leaves values which fit.
LEMMA DrainFits ==
    ASSUME TypeOK, ConstantsAssumption, NEW failing, NEW ah \in SUBSET (Threads \X Threads),
           NEW q \in [Threads -> Seq(Ids)], NEW h \in [Requests -> SteerRecord],
           NEW tn \in [Threads -> TurnPhases], NEW bt \in [Threads -> Seq(Ids)],
           NEW st \in [Ids -> Statuses], NEW tx \in [Threads -> Seq(Ids)], NEW rq,
           NEW gr, NEW co,
           Fits(q, h, tn, bt, st, tx, rq, "up")
    PROVE  LET d == Drained(failing, q, ah, tn, bt, st, tx, gr, co)
           IN Fits(d.queue, h, d.turn, d.batch, d.status, d.text, rq, "up")
<1> DEFINE d == Drained(failing, q, ah, tn, bt, st, tx, gr, co)
           fires == {t \in Threads : Fires(t, failing, q, ah, tn, gr, co)}
           nq == d.queue
           ntn == d.turn
           nbt == d.batch
           nst == d.status
           ntx == d.text
<1>a. fires \in SUBSET Threads /\ \A t \in fires : alive[t]
  BY DEF Fires, MayStart
<1>c. /\ nq \in [Threads -> Seq(Ids)] /\ ntn \in [Threads -> TurnPhases]
      /\ nbt \in [Threads -> Seq(Ids)] /\ ntx \in [Threads -> Seq(Ids)]
      /\ nst \in [Ids -> Statuses]
  BY DrainType
<1>b. /\ \A t \in Threads : nq[t] = IF t \in fires \/ ~alive[t] THEN <<>> ELSE q[t]
      /\ \A t \in Threads : ntn[t] = IF t \in fires \ failing THEN "setup" ELSE tn[t]
      /\ \A t \in Threads : nbt[t] = IF t \in fires \ failing THEN q[t] ELSE bt[t]
      /\ \A t \in Threads : ntx[t] = IF t \in fires THEN tx[t] \o q[t] ELSE tx[t]
      /\ \A i \in Ids : nst[i] =
            IF \E t \in fires \ failing : i \in ToSet(q[t]) THEN "dispatching"
            ELSE IF \E t \in fires : i \in ToSet(q[t]) THEN "gone" ELSE st[i]
  BY DEF Drained, Claimed
<1> HIDE DEF d, fires, nq, ntn, nbt, nst, ntx
<1> USE <1>a, <1>b, <1>c
<1> DEFINE taken(i) == \E t \in fires : i \in ToSet(q[t])
<1>f. /\ Homed(q, h, bt, st) /\ Once(q, h) /\ Backed(q, h, st, "up")
      /\ RowsFit(st) /\ Ordered(q, h)
      /\ LinesFit(st, tx, "up") /\ HandedFits(q, h, tn, bt, st, rq, "up")
  BY DEF Fits
<1>h. \A i \in Ids : HomeOf(i) \in Threads
  BY DEF TypeOK, HomeOf, ConstantsAssumption
<1>s. /\ \A t \in Threads : ToSet(q[t]) \subseteq Ids /\ ToSet(bt[t]) \subseteq Ids
      /\ \A r \in Requests : ToSet(h[r].items) \subseteq Ids
  <2>1. \A w \in Seq(Ids) : ToSet(w) \subseteq Ids
    BY DEF ToSet
  <2>2. /\ \A t \in Threads : q[t] \in Seq(Ids) /\ bt[t] \in Seq(Ids)
        /\ \A r \in Requests : h[r].items \in Seq(Ids)
    BY DEF SteerRecord
  <2> QED
    BY <2>1, <2>2
<1>q. \A t \in Threads : ToSet(nq[t]) \subseteq ToSet(q[t])
  BY EmptySet
<1>t. /\ \A t \in Threads : ToSet(tx[t]) \subseteq ToSet(ntx[t])
      /\ \A t \in fires : ToSet(q[t]) \subseteq ToSet(ntx[t])
  <2>1. ASSUME NEW t \in fires PROVE ToSet(ntx[t]) = ToSet(tx[t]) \cup ToSet(q[t])
    <3>1. tx[t] \in Seq(Ids) /\ q[t] \in Seq(Ids) /\ ntx[t] = tx[t] \o q[t]
      OBVIOUS
    <3> QED
      BY <3>1, ConcatSet
  <2>2. ASSUME NEW t \in Threads \ fires PROVE ntx[t] = tx[t]
    BY <1>b
  <2>3. ASSUME NEW t \in Threads PROVE ToSet(tx[t]) \subseteq ToSet(ntx[t])
    <3>1. CASE t \in fires
      BY ONLY <2>1, <3>1
    <3>2. CASE t \notin fires
      BY ONLY <2>2, <3>2
    <3> QED
      BY ONLY <3>1, <3>2
  <2>4. \A t \in fires : ToSet(q[t]) \subseteq ToSet(ntx[t])
    BY ONLY <2>1
  <2> QED
    BY ONLY <2>3, <2>4
\* A taken word waited in its own thread, and waits nowhere any more.
<1>1. ASSUME NEW i \in Ids, taken(i)
      PROVE  /\ HomeOf(i) \in fires /\ i \in ToSet(q[HomeOf(i)])
             /\ st[i] = "pending" /\ ~Waits(i, nq, h)
             /\ nst[i] \in {"dispatching", "gone"} /\ i \in ToSet(ntx[HomeOf(i)])
             /\ Fresh(i, rq)
  <2>1. PICK t \in fires : i \in ToSet(q[t])
    BY <1>1
  <2>2. HomeOf(i) = t
    BY <1>f, <2>1 DEF Homed
  <2>3. st[i] = "pending"
    BY <1>f, <1>h, <2>1, <2>2 DEF Backed, Waits
  <2>4. i \notin ToSet(nq[t])
    BY <2>1, EmptySet
  <2>5. \A r \in Requests : i \notin ToSet(h[r].items)
    BY <1>f, <2>1, <2>2 DEF Once
  <2>6. nst[i] \in {"dispatching", "gone"}
    BY <1>1
  <2>7. Fresh(i, rq)
    BY <1>f, <2>1 DEF HandedFits
  <2> QED
    BY <1>t, <2>1, <2>2, <2>3, <2>4, <2>5, <2>6, <2>7 DEF Waits
<1>2. ASSUME NEW i \in Ids, ~taken(i) PROVE nst[i] = st[i]
  BY <1>2
<1>3. ASSUME NEW i \in Ids, Waits(i, nq, h) PROVE Waits(i, q, h)
  BY <1>3, <1>q, <1>h DEF Waits
<1> HIDE DEF taken
<1>4. Homed(nq, h, nbt, nst)
  <2>1. ASSUME NEW t \in Threads, NEW i \in ToSet(nbt[t]) PROVE HomeOf(i) = t /\ nst[i] # "free"
    <3>1. CASE t \in fires \ failing
      <4>1. i \in ToSet(q[t]) /\ i \in Ids
        BY <1>s, <2>1, <3>1
      <4>2. taken(i)
        BY <3>1, <4>1 DEF taken
      <4> QED
        BY <1>1, <1>f, <4>1, <4>2 DEF Homed
    <3>2. CASE t \notin fires \ failing
      <4>1. i \in ToSet(bt[t]) /\ i \in Ids
        BY <1>s, <2>1, <3>2
      <4>2. HomeOf(i) = t /\ st[i] # "free"
        BY <1>f, <4>1 DEF Homed
      <4>3. nst[i] # "free"
        BY <1>1, <1>2, <4>1, <4>2
      <4> QED
        BY <4>2, <4>3
    <3> QED
      BY <3>1, <3>2
  <2> QED
    BY <1>f, <1>q, <2>1 DEF Homed
<1>5. Once(nq, h)
  <2>1. \A t \in Threads : IsInjective(nq[t])
    BY <1>f, EmptyInOrder DEF Once
  <2>2. ASSUME NEW r \in Requests, NEW i \in ToSet(h[r].items) PROVE i \notin ToSet(nq[HomeOf(i)])
    BY <1>f, <1>h, <1>q, <1>s DEF Once
  <2> QED
    BY <1>f, <2>1, <2>2 DEF Once
<1>6. Backed(nq, h, nst, "up")
  <2>1. ASSUME NEW i \in Ids, Waits(i, nq, h)
        PROVE  nst[i] \in {"pending", "gone"} /\ (alive[HomeOf(i)] => nst[i] = "pending")
    BY <1>1, <1>2, <1>3, <1>f, <2>1 DEF Backed
  <2>2. ASSUME NEW i \in Ids, nst[i] = "pending" PROVE alive[HomeOf(i)] /\ Waits(i, nq, h)
    <3>1. ~taken(i) /\ st[i] = "pending"
      BY <1>1, <1>2, <2>2
    <3>2. alive[HomeOf(i)] /\ Waits(i, q, h)
      BY <1>f, <3>1 DEF Backed
    <3>3. CASE i \in ToSet(q[HomeOf(i)])
      <4>1. HomeOf(i) \notin fires
        BY <3>1, <3>3 DEF taken
      <4> QED
        BY <1>h, <3>2, <3>3, <4>1 DEF Waits
    <3> QED
      BY <3>2, <3>3 DEF Waits
  <2> QED
    BY <2>1, <2>2 DEF Backed
<1>7. RowsFit(nst)
  <2>1. ToSet(rows) \subseteq Ids
    BY DEF TypeOK, ToSet
  <2> QED
    BY <1>1, <1>2, <1>f, <2>1 DEF RowsFit
<1>8. Ordered(nq, h)
  <2>1. \A t \in Threads \ crossed : InOrder(nq[t])
    BY <1>f, EmptyInOrder DEF Ordered
  <2> QED
    BY <1>f, <1>q, <2>1 DEF Ordered
<1>9. Booting(nq, h, ntn, nst, "up")
  BY DEF Booting
<1>10. LinesFit(nst, ntx, "up")
  <2>1. ASSUME NEW i \in Ids, nst[i] = "dispatching" PROVE i \in ToSet(ntx[HomeOf(i)])
    BY <1>1, <1>2, <1>f, <1>h, <1>t, <2>1 DEF LinesFit
  <2>2. ASSUME NEW s \in accepted, alive[Home[s]]
        PROVE  \E i \in Ids : /\ sendOf[i] = s /\ nst[i] # "free"
                              /\ \/ nst[i] \in {"pending", "dispatching", "interrupted", "cancelled"}
                                 \/ i \in ToSet(ntx[Home[s]])
    <3>1. PICK i \in Ids : /\ sendOf[i] = s /\ st[i] # "free"
                           /\ \/ st[i] \in {"pending", "dispatching", "interrupted", "cancelled"}
                              \/ i \in ToSet(tx[Home[s]])
      BY <1>f, <2>2 DEF LinesFit
    <3>2. HomeOf(i) = Home[s]
      BY <3>1 DEF HomeOf
    <3>3. CASE taken(i)
      BY <1>1, <3>1, <3>2, <3>3
    <3>4. CASE ~taken(i)
      BY <1>2, <1>h, <1>t, <3>1, <3>2, <3>4
    <3> QED
      BY <3>3, <3>4
  <2> QED
    BY <2>1, <2>2 DEF LinesFit
<1>11. HandedFits(nq, h, ntn, nbt, nst, rq, "up")
  <2>1. ASSUME NEW i \in Ids
        PROVE  (handed[i] > 1 => i \in rq) /\ (nst[i] = "free" => handed[i] = 0)
    BY <1>1, <1>2, <1>f DEF HandedFits
  <2>2. ASSUME NEW t \in Threads, NEW i \in ToSet(nq[t]) PROVE Fresh(i, rq)
    BY <1>f, <1>q DEF HandedFits
  <2>3. ASSUME NEW t \in Threads, ntn[t] = "setup", alive[t], NEW i \in ToSet(nbt[t])
        PROVE  nst[i] \in {"direct", "dispatching"} /\ Fresh(i, rq)
    <3>1. CASE t \in fires \ failing
      <4>1. i \in ToSet(q[t]) /\ i \in Ids
        BY <1>s, <2>3, <3>1
      <4>2. nst[i] = "dispatching"
        BY <3>1, <4>1
      <4> QED
        BY <1>f, <4>1, <4>2 DEF HandedFits
    <3>2. CASE t \notin fires \ failing
      <4>1. i \in ToSet(bt[t]) /\ i \in Ids /\ tn[t] = "setup"
        BY <1>s, <2>3, <3>2
      <4>2. st[i] \in {"direct", "dispatching"} /\ Fresh(i, rq)
        BY <1>f, <2>3, <4>1 DEF HandedFits
      <4> QED
        BY <1>1, <1>2, <4>1, <4>2
    <3> QED
      BY <3>1, <3>2
  <2> QED
    BY <1>f, <2>1, <2>2, <2>3 DEF HandedFits
<1>12. Fits(nq, h, ntn, nbt, nst, ntx, rq, "up")
  BY <1>4, <1>5, <1>6, <1>7, <1>8, <1>9, <1>10, <1>11 DEF Fits
<1> QED
  BY <1>12 DEF nq, ntn, nbt, nst, ntx, d

\* A step that leaves the rest alone may be judged by the values it assigns.
LEMMA Carry ==
    ASSUME TypeOK', NEW q, NEW h, NEW tn, NEW bt, NEW st, NEW tx, NEW rq, NEW ph,
           Fits(q, h, tn, bt, st, tx, rq, ph),
           queue' = q, steer' = h, turn' = tn, batch' = bt, status' = st, text' = tx,
           requeued' = rq, phase' = ph,
           UNCHANGED <<sendOf, rows, alive, handed, accepted, crossed>>
    PROVE  IInv'
<1>f. /\ Homed(q, h, bt, st) /\ Once(q, h) /\ Backed(q, h, st, ph)
      /\ RowsFit(st) /\ Ordered(q, h) /\ Booting(q, h, tn, st, ph)
      /\ LinesFit(st, tx, ph) /\ HandedFits(q, h, tn, bt, st, rq, ph)
  BY DEF Fits
<1>1. Homed(queue, steer, batch, status)'
  BY <1>f DEF Homed, HomeOf
<1>2. Once(queue, steer)'
  BY <1>f DEF Once, HomeOf
<1>3. Backed(queue, steer, status, phase)'
  BY <1>f DEF Backed, Waits, HomeOf
<1>4. RowsFit(status)'
  BY <1>f DEF RowsFit
<1>5. Ordered(queue, steer)'
  <2>1. ASSUME NEW t \in Threads \ crossed PROVE InOrder(queue[t])'
    <3>1. InOrder(q[t])
      BY <1>f DEF Ordered
    <3> QED
      BY <3>1 DEF InOrder, Before
  <2>2. ASSUME NEW t \in Threads \ crossed, NEW r \in Requests, h[r].phase # "none", h[r].thread = t
        PROVE  InOrder(steer[r].items)'
    <3>1. InOrder(h[r].items)
      BY <1>f, <2>2 DEF Ordered
    <3> QED
      BY <3>1 DEF InOrder, Before
  <2>3. ASSUME NEW t \in Threads \ crossed, NEW r \in Requests, h[r].phase # "none", h[r].thread = t,
               NEW x \in ToSet(h[r].items), NEW y \in ToSet(q[t])
        PROVE  Before(x, y)'
    <3>1. Before(x, y)
      BY <1>f, <2>3 DEF Ordered
    <3> QED
      BY <3>1 DEF Before
  <2>4. \A t \in Threads \ crossed, r \in Requests : h[r].phase # "none" /\ h[r].thread = t =>
            \A p \in Requests \ {r} : h[p].phase # "none" => h[p].thread # t
    BY <1>f DEF Ordered
  <2> QED
    BY <2>1, <2>2, <2>3, <2>4 DEF Ordered
<1>6. Booting(queue, steer, turn, status, phase)'
  BY <1>f DEF Booting, HomeOf, Before
<1>7. LinesFit(status, text, phase)'
  BY <1>f DEF LinesFit, HomeOf
<1>8. HandedFits(queue, steer, turn, batch, status, requeued, phase)'
  BY <1>f DEF HandedFits, Fresh
<1> QED
  BY <1>1, <1>2, <1>3, <1>4, <1>5, <1>6, <1>7, <1>8 DEF Fits, IInv

\* A step that ends with a drain.
LEMMA DrainStep ==
    ASSUME ConstantsAssumption, TypeOK, TypeOK', NEW ah \in SUBSET (Threads \X Threads),
           NEW q \in [Threads -> Seq(Ids)], NEW h \in [Requests -> SteerRecord],
           NEW tn \in [Threads -> TurnPhases], NEW bt \in [Threads -> Seq(Ids)],
           NEW st \in [Ids -> Statuses], NEW rq,
           NEW gr, NEW co,
           Fits(q, h, tn, bt, st, text, rq, "up"),
           Drain(q, ah, tn, bt, st, text, gr, co),
           steer' = h, requeued' = rq, phase' = "up",
           UNCHANGED <<sendOf, rows, alive, handed, accepted, crossed>>
    PROVE  IInv'
<1>1. PICK failing \in SUBSET Threads :
        LET d == Drained(failing, q, ah, tn, bt, st, text, gr, co)
        IN /\ queue' = d.queue /\ turn' = d.turn
           /\ batch' = d.batch /\ text' = d.text /\ status' = d.status
  BY Zenon DEF Drain
<1> DEFINE d == Drained(failing, q, ah, tn, bt, st, text, gr, co)
<1>2. text \in [Threads -> Seq(Ids)]
  BY DEF TypeOK
<1>3. Fits(d.queue, h, d.turn, d.batch, d.status, d.text, rq, "up")
  BY <1>2, DrainFits
<1>4. /\ queue' = d.queue /\ turn' = d.turn
      /\ batch' = d.batch /\ text' = d.text /\ status' = d.status
  BY <1>1
<1> HIDE DEF d
<1> QED
  BY <1>3, <1>4, Carry

-----------------------------------------------------------------------------
(* The actions that move turns and what else frees the bot.                  *)

\* The parts of the invariant, and what the ids and the sequences are.
LEMMA Parts ==
    ASSUME IInv
    PROVE  /\ TypeOK
           /\ Fits(queue, steer, turn, batch, status, text, requeued, phase)
           /\ Homed(queue, steer, batch, status) /\ Once(queue, steer)
           /\ Backed(queue, steer, status, phase)
           /\ RowsFit(status) /\ Ordered(queue, steer)
           /\ Booting(queue, steer, turn, status, phase)
           /\ LinesFit(status, text, phase)
           /\ HandedFits(queue, steer, turn, batch, status, requeued, phase)
BY DEF IInv, Fits

LEMMA Elements ==
    ASSUME TypeOK
    PROVE  /\ \A t \in Threads : /\ ToSet(queue[t]) \subseteq Ids /\ ToSet(batch[t]) \subseteq Ids
                                 /\ ToSet(text[t]) \subseteq Ids
           /\ \A r \in Requests : /\ steer[r].items \in Seq(Ids) /\ steer[r].thread \in Threads
                                  /\ ToSet(steer[r].items) \subseteq Ids
           /\ ToSet(rows) \subseteq Ids
           /\ \A i \in Ids : sendOf[i] \in Sends /\ HomeOf(i) \in Threads /\ HomeOf(i) = Home[sendOf[i]]
           /\ \A s \in Sends : Home[s] \in Threads
<1>1. /\ \A r \in Requests : steer[r].items \in Seq(Ids) /\ steer[r].thread \in Threads
      /\ \A t \in Threads : queue[t] \in Seq(Ids) /\ batch[t] \in Seq(Ids) /\ text[t] \in Seq(Ids)
      /\ rows \in Seq(Ids)
  BY DEF TypeOK, SteerRecord
<1>2. \A i \in Ids : sendOf[i] \in Sends /\ HomeOf(i) = Home[sendOf[i]]
  BY DEF TypeOK, HomeOf
<1>3. \A s \in Sends : Home[s] \in Threads
  BY ConstantsAssumption DEF ConstantsAssumption
<1>4. ASSUME NEW s \in Seq(Ids) PROVE ToSet(s) \subseteq Ids
  BY DEF ToSet
<1> QED
  BY <1>1, <1>2, <1>3, <1>4

\* Another phase of a turn, short of a new one.
LEMMA TurnFits ==
    ASSUME IInv, phase = "up", NEW t \in Threads, NEW p \in TurnPhases \ {"setup"}
    PROVE  Fits(queue, steer, [turn EXCEPT ![t] = p], batch, status, text, requeued, "up")
<1> DEFINE tn == [turn EXCEPT ![t] = p]
<1>1. \A u \in Threads : tn[u] = "setup" => turn[u] = "setup"
  BY Parts DEF TypeOK
<1> HIDE DEF tn
<1>2. HandedFits(queue, steer, tn, batch, status, requeued, "up")
  BY <1>1, Parts DEF HandedFits
<1>3. Booting(queue, steer, tn, status, "up")
  BY DEF Booting
<1>4. Fits(queue, steer, tn, batch, status, text, requeued, "up")
  BY <1>2, <1>3, Parts DEF Fits
<1> QED
  BY <1>4 DEF tn

\* A turn that is over, its follow-up rows deleted.
LEMMA RetireFits ==
    ASSUME IInv, phase = "up", NEW t \in Threads
    PROVE  Fits(queue, steer, [turn EXCEPT ![t] = "idle"], [batch EXCEPT ![t] = <<>>],
                Retired(t), text, requeued, "up")
<1> DEFINE tn == [turn EXCEPT ![t] = "idle"]
           bt == [batch EXCEPT ![t] = <<>>]
           st == Retired(t)
<1>1. /\ \A u \in Threads : tn[u] = "setup" => turn[u] = "setup" /\ u # t
      /\ \A u \in Threads : bt[u] = IF u = t THEN <<>> ELSE batch[u]
  BY Parts DEF TypeOK
<1>2. \A i \in Ids : \/ st[i] = status[i]
                     \/ /\ st[i] = "gone" /\ status[i] = "dispatching"
                        /\ i \in ToSet(batch[t])
  BY DEF Retired
<1> HIDE DEF tn, bt, st
<1>3. Homed(queue, steer, bt, st)
  <2>1. ASSUME NEW u \in Threads, NEW i \in ToSet(bt[u]) PROVE HomeOf(i) = u /\ st[i] # "free"
    <3>1. i \in ToSet(batch[u]) /\ i \in Ids
      BY <1>1, <2>1, EmptySet, Elements, Parts
    <3>2. HomeOf(i) = u /\ status[i] # "free"
      BY <3>1, Parts DEF Homed
    <3> QED
      BY <1>2, <3>1, <3>2
  <2> QED
    BY <2>1, Parts DEF Homed
<1>4. Backed(queue, steer, st, "up")
  BY <1>2, Parts DEF Backed
<1>5. RowsFit(st)
  BY <1>2, Parts, Elements DEF RowsFit
<1>6. Booting(queue, steer, tn, st, "up")
  BY DEF Booting
<1>7. LinesFit(st, text, "up")
  <2>1. \A i \in Ids : st[i] = "dispatching" => i \in ToSet(text[HomeOf(i)])
    BY <1>2, Parts DEF LinesFit
  <2>2. ASSUME NEW s \in accepted, alive[Home[s]]
        PROVE  \E i \in Ids : /\ sendOf[i] = s /\ st[i] # "free"
                              /\ \/ st[i] \in {"pending", "dispatching", "interrupted", "cancelled"}
                                 \/ i \in ToSet(text[Home[s]])
    <3>1. PICK i \in Ids : /\ sendOf[i] = s /\ status[i] # "free"
                           /\ \/ status[i] \in {"pending", "dispatching", "interrupted", "cancelled"}
                              \/ i \in ToSet(text[Home[s]])
      BY <2>2, Parts DEF LinesFit
    <3>2. status[i] = "dispatching" => i \in ToSet(text[Home[s]])
      BY <3>1, Parts, Elements DEF LinesFit
    <3> QED
      BY <1>2, <3>1, <3>2
  <2> QED
    BY <2>1, <2>2 DEF LinesFit
<1>8. HandedFits(queue, steer, tn, bt, st, requeued, "up")
  <2>1. ASSUME NEW u \in Threads, tn[u] = "setup", alive[u], NEW i \in ToSet(bt[u])
        PROVE  st[i] \in {"direct", "dispatching"} /\ Fresh(i, requeued)
    <3>1. u # t /\ turn[u] = "setup" /\ i \in ToSet(batch[u]) /\ i \in Ids
      BY <1>1, <2>1, Elements, Parts
    <3>2. status[i] \in {"direct", "dispatching"} /\ Fresh(i, requeued) /\ HomeOf(i) = u
      BY <2>1, <3>1, Parts DEF HandedFits, Homed
    <3>3. i \notin ToSet(batch[t])
      BY <3>1, <3>2, Parts DEF Homed
    <3> QED
      BY <1>2, <3>1, <3>2, <3>3
  <2>2. \A i \in Ids : (handed[i] > 1 => i \in requeued) /\ (st[i] = "free" => handed[i] = 0)
    BY <1>2, Parts DEF HandedFits
  <2>3. \A u \in Threads : \A i \in ToSet(queue[u]) : Fresh(i, requeued)
    BY Parts DEF HandedFits
  <2>4. \A r \in Requests : steer[r].phase = "asked" => \A i \in ToSet(steer[r].items) : Fresh(i, requeued)
    BY Parts DEF HandedFits
  <2> QED
    BY <2>1, <2>2, <2>3, <2>4 DEF HandedFits
<1>9. Fits(queue, steer, tn, bt, st, text, requeued, "up")
  BY <1>3, <1>4, <1>5, <1>6, <1>7, <1>8, Parts DEF Fits
<1> QED
  BY <1>9 DEF tn, bt, st

\* What every drain that ends a turn has in common.
LEMMA TurnDrain ==
    ASSUME IInv, TypeOK', phase = "up", TurnVarsKept, UNCHANGED handed, NEW t \in Threads,
           \/ Drain(queue, ahead, [turn EXCEPT ![t] = "early"], batch, status, text, group, coord)
           \/ Drain(queue, ahead, [turn EXCEPT ![t] = "idle"], [batch EXCEPT ![t] = <<>>],
                    Retired(t), text, group, coord)
    PROVE  IInv'
<1>1. /\ TypeOK /\ phase' = "up" /\ steer' = steer /\ requeued' = requeued
      /\ UNCHANGED <<sendOf, rows, alive, handed, accepted, crossed>>
  BY Parts DEF TurnVarsKept
<1>2. /\ ahead \in SUBSET (Threads \X Threads) /\ queue \in [Threads -> Seq(Ids)]
      /\ steer \in [Requests -> SteerRecord] /\ batch \in [Threads -> Seq(Ids)]
      /\ status \in [Ids -> Statuses]
  BY <1>1 DEF TypeOK
<1>3. CASE Drain(queue, ahead, [turn EXCEPT ![t] = "early"], batch, status, text, group, coord)
  <2>1. [turn EXCEPT ![t] = "early"] \in [Threads -> TurnPhases]
    BY <1>1 DEF TypeOK, TurnPhases
  <2>2. Fits(queue, steer, [turn EXCEPT ![t] = "early"], batch, status, text, requeued, "up")
    BY TurnFits DEF TurnPhases
  <2> QED
    BY <1>1, <1>2, <1>3, <2>1, <2>2, DrainStep, ConstantsAssumption
<1>4. CASE Drain(queue, ahead, [turn EXCEPT ![t] = "idle"], [batch EXCEPT ![t] = <<>>],
                 Retired(t), text, group, coord)
  <2>1. /\ [turn EXCEPT ![t] = "idle"] \in [Threads -> TurnPhases]
        /\ [batch EXCEPT ![t] = <<>>] \in [Threads -> Seq(Ids)]
        /\ Retired(t) \in [Ids -> Statuses]
    BY <1>1 DEF TypeOK, TurnPhases, Retired, Statuses
  <2>2. Fits(queue, steer, [turn EXCEPT ![t] = "idle"], [batch EXCEPT ![t] = <<>>],
             Retired(t), text, requeued, "up")
    BY RetireFits
  <2> QED
    BY <1>1, <1>2, <1>4, <2>1, <2>2, DrainStep, ConstantsAssumption
<1> QED
  BY <1>3, <1>4

LEMMA StepTurnCompleted ==
    ASSUME IInv, TypeOK', NEW t \in Threads, TurnCompleted(t) PROVE IInv'
BY TurnDrain DEF TurnCompleted

LEMMA StepSetupEnds ==
    ASSUME IInv, TypeOK', NEW t \in Threads, SetupEnds(t) PROVE IInv'
BY TurnDrain DEF SetupEnds

LEMMA StepDispatchAcked ==
    ASSUME IInv, TypeOK', NEW t \in Threads, DispatchAcked(t) PROVE IInv'
<1>1. CASE turn[t] = "early"
  BY <1>1, TurnDrain DEF DispatchAcked
<1>2. CASE turn[t] # "early"
  <2>1. /\ turn' = [turn EXCEPT ![t] = "running"] /\ phase = "up" /\ phase' = "up"
        /\ queue' = queue /\ batch' = batch /\ text' = text /\ status' = status
        /\ steer' = steer /\ requeued' = requeued
        /\ UNCHANGED <<sendOf, rows, alive, handed, accepted, crossed>>
    BY <1>2 DEF DispatchAcked, TurnVarsKept
  <2>2. Fits(queue, steer, [turn EXCEPT ![t] = "running"], batch, status, text, requeued, "up")
    BY <2>1, TurnFits DEF TurnPhases
  <2> QED
    BY <2>1, <2>2, Carry
<1> QED
  BY <1>1, <1>2

\* A step that moves none of what the invariant speaks of.
LEMMA Untouched ==
    ASSUME IInv, TypeOK',
           UNCHANGED <<queue, steer, turn, batch, status, text, requeued, phase,
                       sendOf, rows, alive, handed, accepted, crossed>>
    PROVE  IInv'
<1>1. Fits(queue, steer, turn, batch, status, text, requeued, phase)
  BY Parts
<1>2. /\ queue' = queue /\ steer' = steer /\ turn' = turn /\ batch' = batch
      /\ status' = status /\ text' = text /\ requeued' = requeued /\ phase' = phase
      /\ UNCHANGED <<sendOf, rows, alive, handed, accepted, crossed>>
  OBVIOUS
<1> QED
  BY <1>1, <1>2, Carry

LEMMA StepGroupTurnStarts == ASSUME IInv, TypeOK', GroupTurnStarts PROVE IInv'
BY Untouched DEF GroupTurnStarts, durable

LEMMA StepWorkHandedOut ==
    ASSUME IInv, TypeOK', NEW t \in Threads, WorkHandedOut(t) PROVE IInv'
BY Untouched DEF WorkHandedOut, durable

\* A drain of the line as it is.
LEMMA PlainDrain ==
    ASSUME IInv, TypeOK', phase = "up", NEW ah \in SUBSET (Threads \X Threads), NEW gr, NEW co,
           Drain(queue, ah, turn, batch, status, text, gr, co),
           UNCHANGED <<steer, requeued, phase, sendOf, rows, alive, handed, accepted, crossed>>
    PROVE  IInv'
<1>1. /\ TypeOK /\ phase' = "up" /\ steer' = steer /\ requeued' = requeued
      /\ Fits(queue, steer, turn, batch, status, text, requeued, "up")
  BY Parts
<1>2. /\ queue \in [Threads -> Seq(Ids)] /\ turn \in [Threads -> TurnPhases]
      /\ steer \in [Requests -> SteerRecord] /\ batch \in [Threads -> Seq(Ids)]
      /\ status \in [Ids -> Statuses]
  BY <1>1 DEF TypeOK
<1>3. UNCHANGED <<sendOf, rows, alive, handed, accepted, crossed>>
  OBVIOUS
<1> QED
  BY <1>1, <1>2, <1>3, DrainStep, ConstantsAssumption

LEMMA StepGroupTurnEnds == ASSUME IInv, TypeOK', GroupTurnEnds PROVE IInv'
<1>1. ahead \in SUBSET (Threads \X Threads)
  BY Parts DEF TypeOK
<1> QED
  BY <1>1, PlainDrain DEF GroupTurnEnds

LEMMA StepWorkReturned ==
    ASSUME IInv, TypeOK', NEW t \in Threads, WorkReturned(t) PROVE IInv'
<1>1. ahead \in SUBSET (Threads \X Threads)
  BY Parts DEF TypeOK
<1> QED
  BY <1>1, PlainDrain DEF WorkReturned

LEMMA StepHoldRefused ==
    ASSUME IInv, TypeOK', NEW t \in Threads, HoldRefused(t) PROVE IInv'
<1>1. CASE Busy(t)
  BY <1>1, Untouched DEF HoldRefused
<1>2. CASE ~Busy(t)
  <2>1. AtTheEnd(ahead, queue, t) \in SUBSET (Threads \X Threads)
    BY AtTheEndType, Parts DEF TypeOK
  <2> QED
    BY <1>2, <2>1, PlainDrain DEF HoldRefused
<1> QED
  BY <1>1, <1>2

-----------------------------------------------------------------------------
(* Cancelling, steering and handing over.                                    *)

LEMMA StepCancel ==
    ASSUME IInv, TypeOK', NEW t \in Threads, NEW k \in Ids, Cancel(t, k) PROVE IInv'
<1> DEFINE i == queue[t][k]
           q == [queue EXCEPT ![t] = RemoveAt(@, k)]
           st == [status EXCEPT ![i] = "cancelled"]
<1>1. /\ queue[t] \in Seq(Ids) /\ k \in DOMAIN queue[t] /\ alive[t] /\ phase = "up"
      /\ IsInjective(queue[t]) /\ i \in Ids /\ i \in ToSet(queue[t])
  BY Parts DEF Cancel, TypeOK, Once, ToSet
<1>2. /\ IsInjective(RemoveAt(queue[t], k))
      /\ ToSet(RemoveAt(queue[t], k)) = ToSet(queue[t]) \ {i}
      /\ InOrder(queue[t]) => InOrder(RemoveAt(queue[t], k))
  BY <1>1, RemoveAtInjective
<1>3. /\ queue' = q /\ status' = st /\ steer' = steer /\ turn' = turn /\ batch' = batch
      /\ text' = text /\ requeued' = requeued /\ phase' = phase
      /\ UNCHANGED <<sendOf, rows, alive, handed, accepted, crossed>>
  BY DEF Cancel
<1>4. HomeOf(i) = t /\ status[i] = "pending"
  <2>1. HomeOf(i) = t
    BY <1>1, Parts DEF Homed
  <2> QED
    BY <1>1, <2>1, Parts DEF Backed, Waits
<1>5. /\ \A u \in Threads : q[u] = IF u = t THEN RemoveAt(queue[t], k) ELSE queue[u]
      /\ \A j \in Ids : st[j] = IF j = i THEN "cancelled" ELSE status[j]
  BY <1>1, Parts DEF TypeOK
<1>6. ASSUME NEW r \in Requests PROVE i \notin ToSet(steer[r].items)
  BY <1>1, <1>4, Parts DEF Once
<1> HIDE DEF i, q, st
<1>7. \A u \in Threads : ToSet(q[u]) = ToSet(queue[u]) \ {i}
  <2>1. ASSUME NEW u \in Threads, u # t PROVE i \notin ToSet(queue[u])
    BY <1>4, <2>1, Parts DEF Homed
  <2>2. ASSUME NEW u \in Threads PROVE ToSet(q[u]) = ToSet(queue[u]) \ {i}
    <3>1. CASE u = t
      BY <1>2, <1>5, <3>1
    <3>2. CASE u # t
      BY <1>5, <2>1, <3>2
    <3> QED
      BY <3>1, <3>2
  <2> QED
    BY <2>2
<1>8. Homed(q, steer, batch, st)
  BY <1>5, <1>7, Parts, Elements DEF Homed
<1>9. Once(q, steer)
  <2>1. \A u \in Threads : IsInjective(q[u])
    BY <1>2, <1>5, Parts DEF Once
  <2>2. \A r \in Requests : \A j \in ToSet(steer[r].items) : j \notin ToSet(q[HomeOf(j)])
    BY <1>7, Parts, Elements DEF Once
  <2> QED
    BY <2>1, <2>2, Parts DEF Once
<1>10. Backed(q, steer, st, "up")
  <2>1. ASSUME NEW j \in Ids PROVE Waits(j, q, steer) <=> (Waits(j, queue, steer) /\ j # i)
    BY <1>6, <1>7, Parts, Elements DEF Waits
  <2> QED
    BY <1>1, <1>5, <2>1, Parts DEF Backed
<1>11. RowsFit(st)
  BY <1>5, Parts, Elements DEF RowsFit
<1>12. Ordered(q, steer)
  <2>1. \A u \in Threads \ crossed : InOrder(q[u])
    BY <1>2, <1>5, Parts DEF Ordered
  <2> QED
    BY <1>7, <2>1, Parts DEF Ordered
<1>13. Booting(q, steer, turn, st, "up")
  BY DEF Booting
<1>14. LinesFit(st, text, "up")
  <2>1. ASSUME NEW s \in accepted, alive[Home[s]]
        PROVE  \E j \in Ids : /\ sendOf[j] = s /\ st[j] # "free"
                              /\ \/ st[j] \in {"pending", "dispatching", "interrupted", "cancelled"}
                                 \/ j \in ToSet(text[Home[s]])
    <3>1. PICK j \in Ids : /\ sendOf[j] = s /\ status[j] # "free"
                           /\ \/ status[j] \in {"pending", "dispatching", "interrupted", "cancelled"}
                              \/ j \in ToSet(text[Home[s]])
      BY <2>1, Parts DEF LinesFit
    <3> QED
      BY <1>5, <3>1
  <2> QED
    BY <1>1, <1>5, <2>1, Parts DEF LinesFit
<1>15. HandedFits(q, steer, turn, batch, st, requeued, "up")
  <2>1. ASSUME NEW u \in Threads, turn[u] = "setup", alive[u], NEW j \in ToSet(batch[u])
        PROVE  st[j] \in {"direct", "dispatching"} /\ Fresh(j, requeued)
    <3>1. status[j] \in {"direct", "dispatching"} /\ Fresh(j, requeued) /\ j \in Ids
      BY <2>1, Parts, Elements DEF HandedFits
    <3> QED
      BY <1>4, <1>5, <3>1
  <2>2. \A j \in Ids : (handed[j] > 1 => j \in requeued) /\ (st[j] = "free" => handed[j] = 0)
    BY <1>5, Parts DEF HandedFits
  <2>3. \A u \in Threads : \A j \in ToSet(q[u]) : Fresh(j, requeued)
    BY <1>7, Parts DEF HandedFits
  <2>4. \A r \in Requests : steer[r].phase = "asked" => \A j \in ToSet(steer[r].items) : Fresh(j, requeued)
    BY Parts DEF HandedFits
  <2> QED
    BY <2>1, <2>2, <2>3, <2>4 DEF HandedFits
<1>16. Fits(q, steer, turn, batch, st, text, requeued, "up")
  BY <1>8, <1>9, <1>10, <1>11, <1>12, <1>13, <1>14, <1>15 DEF Fits
<1> QED
  BY <1>1, <1>3, <1>16, Carry

\* Words handed to an engine: each was fresh, and none of them waits to be
\* handed over any more.
LEMMA HandOver ==
    ASSUME IInv, TypeOK', phase = "up", NEW S \in SUBSET Ids,
           \A i \in Ids : handed'[i] = IF i \in S THEN handed[i] + 1 ELSE handed[i],
           \A i \in S : Fresh(i, requeued) /\ status[i] # "free",
           UNCHANGED <<queue, batch, status, text, requeued, phase, sendOf, rows, alive, accepted, crossed>>,
           \A t \in Threads : turn'[t] = "setup" => turn[t] = "setup",
           \A t \in Threads : turn'[t] = "setup" /\ alive[t] => ToSet(batch[t]) \cap S = {},
           \A t \in Threads : ToSet(queue[t]) \cap S = {},
           \A r \in Requests : /\ steer'[r].items = steer[r].items /\ steer'[r].thread = steer[r].thread
                               /\ steer'[r].phase = "asked" => /\ steer[r].phase = "asked"
                                                               /\ ToSet(steer[r].items) \cap S = {}
                               /\ steer'[r].phase = "none" <=> steer[r].phase = "none"
    PROVE  IInv'
<1>1. Homed(queue, steer, batch, status)'
  BY Parts DEF Homed, HomeOf
<1>2. Once(queue, steer)'
  BY Parts DEF Once, HomeOf
<1>3. Backed(queue, steer, status, phase)'
  BY Parts DEF Backed, Waits, HomeOf
<1>4. RowsFit(status)'
  BY Parts DEF RowsFit
<1>5. Ordered(queue, steer)'
  <2>1. ASSUME NEW t \in Threads \ crossed PROVE InOrder(queue[t])'
    <3>1. InOrder(queue[t])
      BY Parts DEF Ordered
    <3> QED
      BY <3>1 DEF InOrder, Before
  <2>2. ASSUME NEW t \in Threads \ crossed, NEW r \in Requests, steer[r].phase # "none", steer[r].thread = t
        PROVE  InOrder(steer[r].items)'
    <3>1. InOrder(steer[r].items)
      BY <2>2, Parts DEF Ordered
    <3> QED
      BY <3>1 DEF InOrder, Before
  <2>3. ASSUME NEW t \in Threads \ crossed, NEW r \in Requests, steer[r].phase # "none", steer[r].thread = t,
               NEW x \in ToSet(steer[r].items), NEW y \in ToSet(queue[t])
        PROVE  Before(x, y)'
    <3>1. Before(x, y)
      BY <2>3, Parts DEF Ordered
    <3> QED
      BY <3>1 DEF Before
  <2>4. \A t \in Threads \ crossed, r \in Requests : steer[r].phase # "none" /\ steer[r].thread = t =>
            \A p \in Requests \ {r} : steer[p].phase # "none" => steer[p].thread # t
    BY Parts DEF Ordered
  <2> QED
    BY <2>1, <2>2, <2>3, <2>4 DEF Ordered
<1>6. Booting(queue, steer, turn, status, phase)'
  BY DEF Booting
<1>7. LinesFit(status, text, phase)'
  BY Parts DEF LinesFit, HomeOf
<1>8. HandedFits(queue, steer, turn, batch, status, requeued, phase)'
  <2>1. ASSUME NEW i \in Ids
        PROVE  (handed'[i] > 1 => i \in requeued) /\ (status[i] = "free" => handed'[i] = 0)
    <3>1. handed[i] \in Nat
      BY Parts DEF TypeOK
    <3> QED
      BY <3>1, Parts DEF HandedFits, Fresh
  <2>2. ASSUME NEW t \in Threads, NEW i \in ToSet(queue[t]) PROVE handed'[i] > 0 => i \in requeued
    <3>1. i \in Ids /\ i \notin S
      BY Parts, Elements
    <3> QED
      BY <3>1, Parts DEF HandedFits, Fresh
  <2>3. ASSUME NEW t \in Threads, turn'[t] = "setup", alive[t], NEW i \in ToSet(batch[t])
        PROVE  status[i] \in {"direct", "dispatching"} /\ (handed'[i] > 0 => i \in requeued)
    <3>1. i \in Ids /\ i \notin S
      BY <2>3, Parts, Elements
    <3> QED
      BY <2>3, <3>1, Parts DEF HandedFits, Fresh
  <2>4. ASSUME NEW r \in Requests, steer'[r].phase = "asked", NEW i \in ToSet(steer[r].items)
        PROVE  handed'[i] > 0 => i \in requeued
    <3>1. i \in Ids /\ i \notin S
      BY <2>4, Parts, Elements
    <3> QED
      BY <2>4, <3>1, Parts DEF HandedFits, Fresh
  <2> QED
    BY <2>1, <2>2, <2>3, <2>4 DEF HandedFits, Fresh
<1> QED
  BY <1>1, <1>2, <1>3, <1>4, <1>5, <1>6, <1>7, <1>8 DEF Fits, IInv

LEMMA StepCallAdapter ==
    ASSUME IInv, TypeOK', NEW t \in Threads, CallAdapter(t) PROVE IInv'
<1> DEFINE S == ToSet(batch[t])
<1>1. /\ phase = "up" /\ turn[t] = "setup" /\ alive[t]
      /\ turn' = [turn EXCEPT ![t] = "dispatching"]
      /\ handed' = [i \in Ids |-> IF i \in S THEN handed[i] + 1 ELSE handed[i]]
      /\ UNCHANGED <<queue, steer, batch, status, text, requeued, phase, sendOf, rows, alive, accepted, crossed>>
  BY DEF CallAdapter, durable
<1>2. S \in SUBSET Ids
  BY Parts, Elements
<1>3. \A i \in S : Fresh(i, requeued) /\ status[i] \in {"direct", "dispatching"} /\ HomeOf(i) = t
  BY <1>1, Parts DEF HandedFits, Homed
<1>4. \A u \in Threads : turn'[u] = "setup" => turn[u] = "setup" /\ u # t
  BY <1>1, Parts DEF TypeOK
<1>5. \A u \in Threads : u # t => ToSet(batch[u]) \cap S = {}
  BY <1>3, Parts DEF Homed
<1>6. ASSUME NEW i \in S PROVE ~Waits(i, queue, steer)
  BY <1>2, <1>3, Parts DEF Backed
<1>7. \A u \in Threads : ToSet(queue[u]) \cap S = {}
  BY <1>6, Parts, Elements DEF Waits, Homed
<1>8. \A r \in Requests : ToSet(steer[r].items) \cap S = {}
  BY <1>6, Parts, Elements DEF Waits
<1> HIDE DEF S
<1>9. \A i \in Ids : handed'[i] = IF i \in S THEN handed[i] + 1 ELSE handed[i]
  BY <1>1
<1> QED
  BY <1>1, <1>2, <1>3, <1>4, <1>5, <1>7, <1>8, <1>9, HandOver

LEMMA StepHeldTaken ==
    ASSUME IInv, TypeOK', NEW r \in Requests, HeldTaken(r) PROVE IInv'
<1> DEFINE S == ToSet(steer[r].items)
<1>1. /\ phase = "up" /\ steer[r].phase = "asked"
      /\ steer' = [steer EXCEPT ![r].phase = "delivered"]
      /\ handed' = [i \in Ids |-> IF i \in S THEN handed[i] + 1 ELSE handed[i]]
      /\ UNCHANGED <<queue, turn, batch, status, text, requeued, phase, sendOf, rows, alive, accepted, crossed>>
  BY DEF HeldTaken, durable
<1>2. S \in SUBSET Ids
  BY Parts, Elements
<1>3. ASSUME NEW i \in S
      PROVE  Fresh(i, requeued) /\ status[i] \in {"pending", "gone"} /\ i \notin ToSet(queue[HomeOf(i)])
  <2>1. Waits(i, queue, steer)
    BY DEF Waits
  <2> QED
    BY <1>1, <1>2, <2>1, Parts DEF HandedFits, Backed, Once
<1>4. \A t \in Threads : ToSet(queue[t]) \cap S = {}
  BY <1>3, Parts DEF Homed
<1>5. \A t \in Threads : turn[t] = "setup" /\ alive[t] => ToSet(batch[t]) \cap S = {}
  BY <1>3, Parts DEF HandedFits
<1>6. \A p \in Requests : /\ steer'[p].items = steer[p].items /\ steer'[p].thread = steer[p].thread
                          /\ steer'[p].phase = IF p = r THEN "delivered" ELSE steer[p].phase
  BY <1>1, Parts DEF TypeOK, SteerRecord
<1>7. \A p \in Requests \ {r} : ToSet(steer[p].items) \cap S = {}
  BY Parts DEF Once
<1> HIDE DEF S
<1>8. \A i \in Ids : handed'[i] = IF i \in S THEN handed[i] + 1 ELSE handed[i]
  BY <1>1
<1>9. \A p \in Requests : /\ steer'[p].phase = "asked" => steer[p].phase = "asked" /\ ToSet(steer[p].items) \cap S = {}
                          /\ steer'[p].phase = "none" <=> steer[p].phase = "none"
  BY <1>1, <1>6, <1>7
<1> QED
  BY <1>1, <1>2, <1>3, <1>4, <1>5, <1>6, <1>8, <1>9, HandOver

LEMMA StepPostTaken ==
    ASSUME IInv, TypeOK', NEW i \in Ids, PostTaken(i) PROVE IInv'
<1> DEFINE S == {i}
<1>1. /\ phase = "up" /\ status[i] = "posting" /\ handed[i] = 0
      /\ handed' = [handed EXCEPT ![i] = 1]
      /\ UNCHANGED <<queue, turn, steer, batch, status, text, requeued, phase, sendOf, rows, alive, accepted, crossed>>
  BY DEF PostTaken, durable, memory
<1>2. \A j \in Ids : handed'[j] = IF j \in S THEN handed[j] + 1 ELSE handed[j]
  BY <1>1, Parts DEF TypeOK
<1>3. ~Waits(i, queue, steer)
  BY <1>1, Parts DEF Backed
<1>4. \A t \in Threads : ToSet(queue[t]) \cap S = {}
  BY <1>3, Parts DEF Homed, Waits
<1>5. \A r \in Requests : ToSet(steer[r].items) \cap S = {}
  BY <1>3 DEF Waits
<1>6. \A t \in Threads : turn[t] = "setup" /\ alive[t] => ToSet(batch[t]) \cap S = {}
  BY <1>1, Parts DEF HandedFits
<1>7. \A j \in S : Fresh(j, requeued) /\ status[j] # "free"
  BY <1>1 DEF Fresh
<1>8. S \in SUBSET Ids
  OBVIOUS
<1> HIDE DEF S
<1> QED
  BY <1>1, <1>2, <1>4, <1>5, <1>6, <1>7, <1>8, HandOver

\* A steer lifts a whole queue: its words wait in the steer instead.
LEMMA StepHoldAndAsk ==
    ASSUME IInv, TypeOK', NEW r \in Requests, NEW t \in Threads, HoldAndAsk(r, t) PROVE IInv'
<1>1. /\ phase = "up" /\ alive[t] /\ steer[r].phase = "none" /\ steer[r].items = <<>>
      /\ UNCHANGED <<turn, batch, status, text, requeued, phase, sendOf, rows, alive, accepted, handed>>
  BY Parts DEF HoldAndAsk, durable, Once
<1>2. /\ \A u \in Threads : queue'[u] = IF u = t THEN <<>> ELSE queue[u]
      /\ steer'[r] = [phase |-> "asked", thread |-> t, items |-> queue[t]]
      /\ \A p \in Requests \ {r} : steer'[p] = steer[p]
  BY Parts DEF HoldAndAsk, Lifted, TypeOK
<1>3. /\ crossed \subseteq crossed'
      /\ t \notin crossed' => \A p \in Requests : steer[p].phase # "none" => steer[p].thread # t
  BY DEF HoldAndAsk
<1>4. ToSet(steer[r].items) = {}
  BY <1>1, EmptySet
<1>5. \A u \in Threads : ToSet(queue'[u]) = IF u = t THEN {} ELSE ToSet(queue[u])
  BY <1>2, EmptySet
<1>6. \A i \in ToSet(queue[t]) : i \in Ids /\ HomeOf(i) = t
  BY Parts, Elements DEF Homed
<1>7. Homed(queue, steer, batch, status)'
  <2>1. \A u \in Threads : \A i \in ToSet(queue'[u]) : HomeOf(i) = u
    BY <1>5, Parts DEF Homed
  <2>2. \A p \in Requests : \A i \in ToSet(steer'[p].items) : HomeOf(i) = steer'[p].thread
    BY <1>2, <1>6, Parts DEF Homed
  <2> QED
    BY <1>1, <2>1, <2>2, Parts DEF Homed, HomeOf
<1>8. Once(queue, steer)'
  <2>1. \A u \in Threads : IsInjective(queue'[u])
    BY <1>2, EmptyInOrder, Parts DEF Once
  <2>2. ASSUME NEW p \in Requests
        PROVE  /\ IsInjective(steer'[p].items)
               /\ steer'[p].phase = "none" => steer'[p].items = <<>>
               /\ \A i \in ToSet(steer'[p].items) : i \notin ToSet(queue'[HomeOf(i)])
    <3>1. CASE p = r
      BY <1>2, <1>5, <1>6, <3>1, Parts DEF Once
    <3>2. CASE p # r
      BY <1>2, <1>5, <3>2, Parts, Elements DEF Once
    <3> QED
      BY <3>1, <3>2
  <2>3. ASSUME NEW p \in Requests, NEW p2 \in Requests \ {p}
        PROVE  ToSet(steer'[p].items) \cap ToSet(steer'[p2].items) = {}
    <3>1. ASSUME NEW x \in Requests \ {r} PROVE ToSet(steer[x].items) \cap ToSet(queue[t]) = {}
      BY <1>6, Parts DEF Once
    <3>2. ToSet(steer[p].items) \cap ToSet(steer[p2].items) = {}
      BY Parts DEF Once
    <3> QED
      BY <1>2, <3>1, <3>2
  <2> QED
    BY <1>1, <2>1, <2>2, <2>3 DEF Once, HomeOf
<1>9. Backed(queue, steer, status, phase)'
  <2>1. ASSUME NEW i \in Ids PROVE Waits(i, queue', steer') <=> Waits(i, queue, steer)
    BY <1>2, <1>4, <1>5, <1>6, Elements, Parts DEF Waits
  <2> QED
    BY <1>1, <2>1, Parts DEF Backed, Waits, HomeOf
<1>10. RowsFit(status)'
  BY <1>1, Parts DEF RowsFit
<1>11. Ordered(queue, steer)'
  <2>1. ASSUME NEW u \in Threads \ crossed' PROVE InOrder(queue[u])'
    <3>1. InOrder(queue'[u])
      BY <1>2, <1>3, EmptyInOrder, Parts DEF Ordered
    <3> QED
      BY <1>1, <3>1 DEF InOrder, Before
  <2>2. ASSUME NEW u \in Threads \ crossed', NEW p \in Requests, steer'[p].phase # "none", steer'[p].thread = u
        PROVE  InOrder(steer[p].items)'
    <3>1. InOrder(steer'[p].items)
      BY <1>2, <1>3, <2>2, Parts DEF Ordered
    <3> QED
      BY <1>1, <3>1 DEF InOrder, Before
  <2>3. ASSUME NEW u \in Threads \ crossed', NEW p \in Requests, steer'[p].phase # "none", steer'[p].thread = u,
               NEW x \in ToSet(steer'[p].items), NEW y \in ToSet(queue'[u])
        PROVE  Before(x, y)'
    <3>1. p # r /\ u # t
      BY <1>2, <1>5, <2>3
    <3>2. Before(x, y)
      BY <1>2, <1>3, <2>3, <3>1, Parts DEF Ordered
    <3> QED
      BY <1>1, <3>2 DEF Before
  <2>4. ASSUME NEW u \in Threads \ crossed', NEW p \in Requests, steer'[p].phase # "none", steer'[p].thread = u,
               NEW p2 \in Requests \ {p}, steer'[p2].phase # "none"
        PROVE  steer'[p2].thread # u
    BY <1>1, <1>2, <1>3, <2>4, Parts DEF Ordered
  <2> QED
    BY <2>1, <2>2, <2>3, <2>4 DEF Ordered
<1>12. Booting(queue, steer, turn, status, phase)'
  BY <1>1 DEF Booting
<1>13. LinesFit(status, text, phase)'
  BY <1>1, Parts DEF LinesFit, HomeOf
<1>14. HandedFits(queue, steer, turn, batch, status, requeued, phase)'
  <2>1. \A u \in Threads : \A i \in ToSet(queue'[u]) : Fresh(i, requeued)
    BY <1>5, Parts DEF HandedFits
  <2>2. \A p \in Requests : steer'[p].phase = "asked" => \A i \in ToSet(steer'[p].items) : Fresh(i, requeued)
    BY <1>2, Parts DEF HandedFits
  <2> QED
    BY <1>1, <2>1, <2>2, Parts DEF HandedFits, Fresh
<1> QED
  BY <1>7, <1>8, <1>9, <1>10, <1>11, <1>12, <1>13, <1>14 DEF Fits, IInv

\* The held words are settled: said, or given up because their fate is unknown.
LEMMA FoldedFits ==
    ASSUME IInv, phase = "up", NEW r \in Requests, steer[r].phase # "none",
           NEW tx \in [Threads -> Seq(Ids)],
           \A u \in Threads : tx[u] = IF u = steer[r].thread /\ alive[u]
                                      THEN text[u] \o steer[r].items ELSE text[u]
    PROVE  Fits(queue, [steer EXCEPT ![r] = NoSteer], turn, batch,
                SettledHeld(steer[r].items), tx, requeued, "up")
<1> DEFINE h == [steer EXCEPT ![r] = NoSteer]
           st == SettledHeld(steer[r].items)
           S == ToSet(steer[r].items)
<1>1. /\ h[r].phase = "none" /\ h[r].items = <<>> /\ \A p \in Requests \ {r} : h[p] = steer[p]
      /\ \A i \in Ids : st[i] = IF i \in S THEN "gone" ELSE status[i]
  BY Parts DEF TypeOK, NoSteer, SettledHeld
<1>2. S \in SUBSET Ids /\ \A i \in S : HomeOf(i) = steer[r].thread /\ steer[r].thread \in Threads
  BY Parts, Elements DEF Homed
<1>3. ASSUME NEW i \in S
      PROVE  /\ i \notin ToSet(queue[HomeOf(i)])
             /\ \A p \in Requests \ {r} : i \notin ToSet(steer[p].items)
             /\ status[i] \in {"pending", "gone"}
  <2>1. Waits(i, queue, steer)
    BY DEF Waits
  <2> QED
    BY <1>2, <2>1, Parts DEF Once, Backed
<1>4. \A u \in Threads : ToSet(text[u]) \subseteq ToSet(tx[u]) /\ (u = steer[r].thread /\ alive[u] => S \subseteq ToSet(tx[u]))
  <2>1. ASSUME NEW u \in Threads, u = steer[r].thread, alive[u]
        PROVE  ToSet(tx[u]) = ToSet(text[u]) \cup S
    <3>1. tx[u] = text[u] \o steer[r].items /\ text[u] \in Seq(Ids) /\ steer[r].items \in Seq(Ids)
      BY <2>1, Parts, Elements DEF TypeOK
    <3> QED
      BY <3>1, ConcatSet
  <2>2. ASSUME NEW u \in Threads, ~(u = steer[r].thread /\ alive[u]) PROVE tx[u] = text[u]
    BY <2>2
  <2>3. ASSUME NEW u \in Threads PROVE ToSet(text[u]) \subseteq ToSet(tx[u])
    <3>1. CASE u = steer[r].thread /\ alive[u]
      BY <2>1, <3>1
    <3>2. CASE ~(u = steer[r].thread /\ alive[u])
      BY <2>2, <3>2
    <3> QED
      BY <3>1, <3>2
  <2> QED
    BY <2>1, <2>3
<1> HIDE DEF h, st, S
<1>5. ToSet(h[r].items) = {}
  BY <1>1, EmptySet
<1>6. Homed(queue, h, batch, st)
  <2>1. \A p \in Requests : \A i \in ToSet(h[p].items) : HomeOf(i) = h[p].thread
    BY <1>1, <1>5, Parts DEF Homed
  <2>2. ASSUME NEW u \in Threads, NEW i \in ToSet(batch[u]) PROVE HomeOf(i) = u /\ st[i] # "free"
    <3>1. i \in Ids /\ HomeOf(i) = u /\ status[i] # "free"
      BY Parts, Elements DEF Homed
    <3> QED
      BY <1>1, <3>1
  <2> QED
    BY <2>1, <2>2, Parts DEF Homed
<1>7. Once(queue, h)
  <2>1. ASSUME NEW p \in Requests
        PROVE  /\ IsInjective(h[p].items)
               /\ h[p].phase = "none" => h[p].items = <<>>
               /\ \A i \in ToSet(h[p].items) : i \notin ToSet(queue[HomeOf(i)])
               /\ \A p2 \in Requests \ {p} : ToSet(h[p].items) \cap ToSet(h[p2].items) = {}
    <3>1. CASE p = r
      BY <1>1, <1>5, <3>1, EmptyInOrder
    <3>2. CASE p # r
      BY <1>1, <1>5, <3>2, Parts DEF Once
    <3> QED
      BY <3>1, <3>2
  <2> QED
    BY <2>1, Parts DEF Once
<1>8. Backed(queue, h, st, "up")
  <2>1. ASSUME NEW i \in Ids PROVE Waits(i, queue, h) <=> (Waits(i, queue, steer) /\ i \notin S)
    BY <1>1, <1>3, <1>5 DEF Waits, S
  <2> QED
    BY <1>1, <2>1, Parts DEF Backed
<1>9. RowsFit(st)
  BY <1>1, Parts, Elements DEF RowsFit
<1>10. Ordered(queue, h)
  BY <1>1, Parts DEF Ordered
<1>11. Booting(queue, h, turn, st, "up")
  BY DEF Booting
<1>12. LinesFit(st, tx, "up")
  <2>1. ASSUME NEW s \in accepted, alive[Home[s]]
        PROVE  \E i \in Ids : /\ sendOf[i] = s /\ st[i] # "free"
                              /\ \/ st[i] \in {"pending", "dispatching", "interrupted", "cancelled"}
                                 \/ i \in ToSet(tx[Home[s]])
    <3>1. PICK i \in Ids : /\ sendOf[i] = s /\ status[i] # "free"
                           /\ \/ status[i] \in {"pending", "dispatching", "interrupted", "cancelled"}
                              \/ i \in ToSet(text[Home[s]])
      BY <2>1, Parts DEF LinesFit
    <3>2. HomeOf(i) = Home[s] /\ Home[s] \in Threads
      BY <3>1, Parts, Elements
    <3>3. CASE i \in S
      <4>1. i \in ToSet(tx[Home[s]])
        BY <1>2, <1>4, <2>1, <3>2, <3>3
      <4>2. st[i] = "gone"
        BY <1>1, <3>3
      <4> QED
        BY <3>1, <4>1, <4>2
    <3>4. CASE i \notin S
      BY <1>1, <1>4, <3>1, <3>2, <3>4
    <3> QED
      BY <3>3, <3>4
  <2>2. \A i \in Ids : st[i] = "dispatching" => i \in ToSet(tx[HomeOf(i)])
    BY <1>1, <1>4, Parts, Elements DEF LinesFit
  <2> QED
    BY <2>1, <2>2 DEF LinesFit
<1>13. HandedFits(queue, h, turn, batch, st, requeued, "up")
  <2>1. ASSUME NEW u \in Threads, turn[u] = "setup", alive[u], NEW i \in ToSet(batch[u])
        PROVE  st[i] \in {"direct", "dispatching"} /\ Fresh(i, requeued)
    <3>1. status[i] \in {"direct", "dispatching"} /\ Fresh(i, requeued) /\ i \in Ids
      BY <2>1, Parts, Elements DEF HandedFits
    <3>2. i \notin S
      BY <1>3, <3>1
    <3> QED
      BY <1>1, <3>1, <3>2
  <2>2. \A i \in Ids : (handed[i] > 1 => i \in requeued) /\ (st[i] = "free" => handed[i] = 0)
    BY <1>1, Parts DEF HandedFits
  <2>3. \A u \in Threads : \A i \in ToSet(queue[u]) : Fresh(i, requeued)
    BY Parts DEF HandedFits
  <2>4. \A p \in Requests : h[p].phase = "asked" => \A i \in ToSet(h[p].items) : Fresh(i, requeued)
    BY <1>1, Parts DEF HandedFits
  <2> QED
    BY <2>1, <2>2, <2>3, <2>4 DEF HandedFits
<1>14. Fits(queue, h, turn, batch, st, tx, requeued, "up")
  BY <1>6, <1>7, <1>8, <1>9, <1>10, <1>11, <1>12, <1>13 DEF Fits
<1> QED
  BY <1>14 DEF h, st

\* The held words go back in front of what came meanwhile; words an engine
\* had taken are then known as requeued.
LEMMA PutBackFits ==
    ASSUME IInv, phase = "up", NEW r \in Requests, steer[r].phase # "none", NEW rq,
           requeued \subseteq rq,
           steer[r].phase = "delivered" => ToSet(steer[r].items) \subseteq rq
    PROVE  Fits(PutBack(steer[r].thread, steer[r].items), [steer EXCEPT ![r] = NoSteer],
                turn, batch, status, text, rq, "up")
<1> DEFINE t == steer[r].thread
           items == steer[r].items
           S == ToSet(items)
           h == [steer EXCEPT ![r] = NoSteer]
           q == PutBack(t, items)
<1>t. t \in Threads /\ items \in Seq(Ids) /\ queue[t] \in Seq(Ids) /\ S \in SUBSET Ids
  BY Parts, Elements DEF TypeOK
<1>1. /\ h[r].phase = "none" /\ h[r].items = <<>> /\ \A p \in Requests \ {r} : h[p] = steer[p]
      /\ \A u \in Threads : q[u] = IF u = t THEN items \o queue[t] ELSE queue[u]
  BY <1>t, Parts DEF TypeOK, NoSteer, PutBack
<1>2. /\ \A i \in S : HomeOf(i) = t /\ i \notin ToSet(queue[t])
      /\ \A i \in S : \A p \in Requests \ {r} : i \notin ToSet(steer[p].items)
      /\ IsInjective(items) /\ IsInjective(queue[t])
  BY <1>t, Parts DEF Homed, Once
<1>f. \A i \in S : Fresh(i, rq)
  <2>1. steer[r].phase \in {"asked", "delivered"}
    BY Parts DEF TypeOK, SteerRecord
  <2>2. CASE steer[r].phase = "asked"
    BY <2>2, Parts DEF HandedFits, Fresh
  <2>3. CASE steer[r].phase = "delivered"
    BY <2>3 DEF Fresh
  <2> QED
    BY <2>1, <2>2, <2>3
<1>w. \A i \in S : Waits(i, queue, steer)
  BY DEF Waits
<1>o. t \notin crossed => InOrder(items \o queue[t]) /\ \A p \in Requests \ {r} : h[p].phase # "none" => h[p].thread # t
  <2>1. ASSUME t \notin crossed PROVE InOrder(items) /\ InOrder(queue[t]) /\ \A x \in S, y \in ToSet(queue[t]) : Before(x, y)
    BY <1>t, <2>1, Parts DEF Ordered
  <2>2. ASSUME t \notin crossed PROVE InOrder(items \o queue[t])
    BY <1>t, <2>1, <2>2, ConcatInOrder
  <2>3. ASSUME t \notin crossed PROVE \A p \in Requests \ {r} : h[p].phase # "none" => h[p].thread # t
    BY <1>t, <1>1, <2>3, Parts DEF Ordered
  <2> QED
    BY <2>2, <2>3
<1>i. IsInjective(items \o queue[t])
  BY <1>t, <1>2, ConcatInjectivity
<1>c. ToSet(items \o queue[t]) = S \cup ToSet(queue[t])
  BY <1>t, ConcatSet
<1> HIDE DEF t, items, S, h, q
<1>3. \A u \in Threads : ToSet(q[u]) = IF u = t THEN S \cup ToSet(queue[t]) ELSE ToSet(queue[u])
  BY <1>1, <1>c
<1>5. ToSet(h[r].items) = {}
  BY <1>1, EmptySet
<1>6. Homed(q, h, batch, status)
  <2>1. \A p \in Requests : \A i \in ToSet(h[p].items) : HomeOf(i) = h[p].thread
    BY <1>1, <1>5, Parts DEF Homed
  <2>2. \A u \in Threads : \A i \in ToSet(q[u]) : HomeOf(i) = u
    BY <1>2, <1>3, Parts DEF Homed
  <2> QED
    BY <2>1, <2>2, Parts DEF Homed
<1>7. Once(q, h)
  <2>1. ASSUME NEW p \in Requests
        PROVE  /\ IsInjective(h[p].items)
               /\ h[p].phase = "none" => h[p].items = <<>>
               /\ \A i \in ToSet(h[p].items) : i \notin ToSet(q[HomeOf(i)])
               /\ \A p2 \in Requests \ {p} : ToSet(h[p].items) \cap ToSet(h[p2].items) = {}
    <3>1. CASE p = r
      BY <1>1, <1>5, <3>1, EmptyInOrder
    <3>2. CASE p # r
      <4>1. /\ IsInjective(steer[p].items)
            /\ steer[p].phase = "none" => steer[p].items = <<>>
            /\ \A p2 \in Requests \ {p} : ToSet(steer[p].items) \cap ToSet(steer[p2].items) = {}
        BY Parts DEF Once
      <4>2. ASSUME NEW i \in ToSet(steer[p].items) PROVE i \notin ToSet(q[HomeOf(i)])
        <5>1. i \notin S /\ i \notin ToSet(queue[HomeOf(i)]) /\ HomeOf(i) \in Threads
          BY <1>2, <3>2, Parts, Elements DEF Once
        <5> QED
          BY <1>3, <5>1
      <4> QED
        BY <1>1, <1>5, <3>2, <4>1, <4>2
    <3> QED
      BY <3>1, <3>2
  <2>2. \A u \in Threads : IsInjective(q[u])
    BY <1>1, <1>i, Parts DEF Once
  <2> QED
    BY <2>1, <2>2 DEF Once
<1>8. Backed(q, h, status, "up")
  <2>1. ASSUME NEW i \in Ids PROVE Waits(i, q, h) <=> Waits(i, queue, steer)
    <3>1. CASE i \in S
      BY <1>2, <1>3, <1>t, <1>w, <3>1 DEF Waits
    <3>2. CASE i \notin S
      <4>1. i \in ToSet(q[HomeOf(i)]) <=> i \in ToSet(queue[HomeOf(i)])
        BY <1>3, <3>2, Parts, Elements
      <4>2. \A p \in Requests : i \in ToSet(h[p].items) <=> i \in ToSet(steer[p].items)
        BY <1>1, <1>5, <3>2 DEF S, items
      <4> QED
        BY <4>1, <4>2 DEF Waits
    <3> QED
      BY <3>1, <3>2
  <2> QED
    BY <2>1, Parts DEF Backed
<1>9. RowsFit(status)
  BY Parts
<1>10. Ordered(q, h)
  <2>1. \A u \in Threads \ crossed : InOrder(q[u])
    BY <1>1, <1>o, Parts DEF Ordered
  <2>2. ASSUME NEW u \in Threads \ crossed, NEW p \in Requests, h[p].phase # "none", h[p].thread = u
        PROVE  /\ InOrder(h[p].items)
               /\ \A x \in ToSet(h[p].items), y \in ToSet(q[u]) : Before(x, y)
               /\ \A p2 \in Requests \ {p} : h[p2].phase # "none" => h[p2].thread # u
    <3>1. p # r /\ u # t
      BY <1>1, <1>o, <2>2
    <3> QED
      BY <1>1, <1>3, <2>2, <3>1, Parts DEF Ordered
  <2> QED
    BY <2>1, <2>2 DEF Ordered
<1>11. Booting(q, h, turn, status, "up")
  BY DEF Booting
<1>12. LinesFit(status, text, "up")
  BY Parts
<1>13. HandedFits(q, h, turn, batch, status, rq, "up")
  <2>1. \A u \in Threads : \A i \in ToSet(q[u]) : Fresh(i, rq)
    BY <1>3, <1>f, Parts DEF HandedFits, Fresh
  <2>2. \A p \in Requests : h[p].phase = "asked" => \A i \in ToSet(h[p].items) : Fresh(i, rq)
    BY <1>1, Parts DEF HandedFits, Fresh
  <2> QED
    BY <2>1, <2>2, Parts DEF HandedFits, Fresh
<1>14. Fits(q, h, turn, batch, status, text, rq, "up")
  BY <1>6, <1>7, <1>8, <1>9, <1>10, <1>11, <1>12, <1>13 DEF Fits
<1> QED
  BY <1>14 DEF h, q, t, items

LEMMA StepHeldAnswered ==
    ASSUME IInv, TypeOK', NEW r \in Requests, NEW o \in Outcomes, HeldAnswered(r, o) PROVE IInv'
<1> DEFINE t == steer[r].thread
           items == steer[r].items
           q == PutBack(t, items)
           h == [steer EXCEPT ![r] = NoSteer]
           line == IF queue[t] = <<>> THEN AtTheEnd(ahead, queue, t) ELSE ahead
<1>1. /\ phase = "up" /\ phase' = "up" /\ steer[r].phase # "none" /\ steer' = h
      /\ UNCHANGED <<sendOf, rows, alive, handed, accepted, crossed>>
  BY DEF HeldAnswered
<1>2. TypeOK /\ t \in Threads /\ items \in Seq(Ids) /\ queue[t] \in Seq(Ids) /\ text[t] \in Seq(Ids)
  BY Parts, Elements DEF TypeOK
<1>3. requeued \subseteq requeued'
  BY DEF HeldAnswered
<1>4. CASE Folded(t, o)
  <2>1. /\ status' = SettledHeld(items)
        /\ text' = IF alive[t] THEN [text EXCEPT ![t] = @ \o items] ELSE text
        /\ queue' = queue /\ turn' = turn /\ batch' = batch
    BY <1>4 DEF HeldAnswered
  <2>2. requeued' = requeued
    BY <1>4 DEF HeldAnswered, Folded
  <2>3. /\ text' \in [Threads -> Seq(Ids)]
        /\ \A u \in Threads : text'[u] = IF u = t /\ alive[u] THEN text[u] \o items ELSE text[u]
    BY <1>2, <2>1 DEF TypeOK
  <2>4. Fits(queue, h, turn, batch, SettledHeld(items), text', requeued, "up")
    BY <1>1, <2>3, FoldedFits
  <2> HIDE DEF h, items
  <2> QED
    BY <1>1, <2>1, <2>2, <2>4, Carry
<1>5. CASE ~Folded(t, o)
  <2>1. steer[r].phase = "delivered" => ToSet(items) \subseteq requeued'
    BY <1>5 DEF HeldAnswered, Folded, Outcomes
  <2>2. Fits(q, h, turn, batch, status, text, requeued', "up")
    BY <1>1, <1>3, <2>1, PutBackFits
  <2>3. /\ q \in [Threads -> Seq(Ids)] /\ h \in [Requests -> SteerRecord]
        /\ line \in SUBSET (Threads \X Threads)
    <3>1. items \o queue[t] \in Seq(Ids)
      BY <1>2
    <3>2. q \in [Threads -> Seq(Ids)]
      BY <1>2, <3>1 DEF PutBack, TypeOK
    <3>3. h \in [Requests -> SteerRecord]
      BY <1>2, NoSteerType, ConstantsAssumption DEF TypeOK
    <3>4. line \in SUBSET (Threads \X Threads)
      BY <1>2, AtTheEndType DEF TypeOK
    <3> QED
      BY <3>2, <3>3, <3>4
  <2>4. CASE alive[t] /\ ~Busy(t)
    <3>1. Drain(q, line, turn, batch, status, text, group, coord)
      BY <1>5, <2>4 DEF HeldAnswered
    <3>2. turn \in [Threads -> TurnPhases] /\ batch \in [Threads -> Seq(Ids)] /\ status \in [Ids -> Statuses]
      BY <1>2 DEF TypeOK
    <3> HIDE DEF q, h, line
    <3> QED
      BY <1>1, <1>2, <2>2, <2>3, <3>1, <3>2, DrainStep, ConstantsAssumption
  <2>5. CASE ~(alive[t] /\ ~Busy(t))
    <3>1. queue' = q /\ status' = status /\ text' = text /\ turn' = turn /\ batch' = batch
      BY <1>5, <2>5 DEF HeldAnswered
    <3> HIDE DEF q, h
    <3> QED
      BY <1>1, <2>2, <3>1, Carry
  <2> QED
    BY <2>4, <2>5
<1> QED
  BY <1>4, <1>5

-----------------------------------------------------------------------------
(* Crashes and the boot that follows.                                        *)

\* What a crash has to respect in the database for the boot to start well:
\* it makes nothing pending, forgets no row and loses no line.
LEMMA WipedFits ==
    ASSUME IInv, TypeOK', Wiped,
           \A i \in Ids : /\ status'[i] = "pending" => status[i] = "pending"
                          /\ status'[i] \in {"free", "posting"} => status'[i] = status[i]
                          /\ status[i] \in {"pending", "dispatching", "interrupted", "cancelled"} =>
                                \/ status'[i] \in {"pending", "dispatching", "interrupted", "cancelled"}
                                \/ i \in ToSet(text'[HomeOf(i)]),
           \A t \in Threads : ToSet(text[t]) \subseteq ToSet(text'[t])
    PROVE  IInv'
<1>1. /\ phase' = "recovering" /\ crossed' = {}
      /\ \A t \in Threads : queue'[t] = <<>> /\ batch'[t] = <<>> /\ turn'[t] = "idle"
      /\ \A r \in Requests : steer'[r] = NoSteer
      /\ requeued \subseteq requeued'
      /\ \A i \in Ids : status'[i] = "pending" /\ handed[i] > 0 => i \in requeued'
      /\ UNCHANGED <<sendOf, rows, alive, handed, accepted>>
  BY DEF Wiped
<1>2. NoSteer.phase = "none" /\ NoSteer.items = <<>>
  BY DEF NoSteer
<1>3. Homed(queue, steer, batch, status)'
  BY <1>1, <1>2, EmptySet DEF Homed
<1>4. Once(queue, steer)'
  BY <1>1, <1>2, EmptySet, EmptyInOrder DEF Once
<1>5. Backed(queue, steer, status, phase)'
  <2>1. ASSUME NEW i \in Ids PROVE ~Waits(i, queue', steer')
    BY <1>1, <1>2, EmptySet, Parts, Elements DEF Waits
  <2> QED
    BY <1>1, <2>1, Parts DEF Backed, Waits, HomeOf
<1>6. RowsFit(status)'
  BY <1>1, Parts, Elements DEF RowsFit
<1>7. Ordered(queue, steer)'
  <2>1. ASSUME NEW t \in Threads PROVE InOrder(queue[t])'
    <3>1. queue'[t] = <<>>
      BY <1>1
    <3> QED
      BY <3>1 DEF InOrder
  <2>2. \A r \in Requests : steer'[r].phase = "none"
    BY <1>1, <1>2
  <2> QED
    BY <2>1, <2>2 DEF Ordered
<1>8. Booting(queue, steer, turn, status, phase)'
  BY <1>1, EmptySet DEF Booting
<1>9. LinesFit(status, text, phase)'
  <2>1. ASSUME NEW s \in accepted, alive[Home[s]]
        PROVE  \E i \in Ids : /\ sendOf[i] = s /\ status'[i] # "free"
                              /\ \/ status'[i] \in {"pending", "dispatching", "interrupted", "cancelled"}
                                 \/ i \in ToSet(text'[Home[s]])
    <3>1. PICK i \in Ids : /\ sendOf[i] = s /\ status[i] # "free"
                           /\ \/ status[i] \in {"pending", "dispatching", "interrupted", "cancelled"}
                              \/ i \in ToSet(text[Home[s]])
      BY <2>1, Parts DEF LinesFit
    <3>2. HomeOf(i) = Home[s] /\ Home[s] \in Threads
      BY <3>1, Parts, Elements
    <3> QED
      BY <3>1, <3>2
  <2> QED
    BY <1>1, <2>1 DEF LinesFit
<1>10. HandedFits(queue, steer, turn, batch, status, requeued, phase)'
  <2>1. \A i \in Ids : /\ handed[i] > 1 => i \in requeued'
                       /\ status'[i] = "free" => handed[i] = 0
                       /\ status'[i] = "pending" /\ handed[i] > 0 => i \in requeued'
    BY <1>1, Parts DEF HandedFits
  <2> QED
    BY <1>1, <1>2, <2>1, EmptySet DEF HandedFits, Fresh
<1> QED
  BY <1>3, <1>4, <1>5, <1>6, <1>7, <1>8, <1>9, <1>10 DEF Fits, IInv

LEMMA StepCrash == ASSUME IInv, TypeOK', Crash PROVE IInv'
<1>1. \A i \in Ids : status'[i] = IF status[i] = "posting" THEN "gone" ELSE status[i]
  BY DEF Crash, Abandoned
<1> QED
  BY <1>1, WipedFits DEF Crash

\* A drain that is cut short, from rows that a turn or nothing retired before.
LEMMA CutFits ==
    ASSUME IInv, TypeOK', Wiped, NEW t \in Threads, NEW n \in 0..MaxIds, NEW failing,
           NEW tn, NEW st \in [Ids -> Statuses], NEW gr, NEW co,
           CutDrain(t, n, failing, tn, st, gr, co),
           \A i \in Ids : \/ st[i] = status[i]
                          \/ status[i] = "dispatching" /\ st[i] = "gone" /\ i \in ToSet(text[HomeOf(i)])
    PROVE  IInv'
<1> DEFINE fires == {u \in Threads : Fires(u, failing, queue, ahead, tn, gr, co)}
           before == {u \in fires : <<u, t>> \in ahead}
           claimed == UNION {ToSet(queue[u]) : u \in (before \ failing) \cup {t}}
           refused == UNION {ToSet(queue[u]) : u \in before \cap failing}
<1>1. /\ n <= Len(queue[t])
      /\ status' = Abandoned([i \in Ids |-> IF i \in claimed THEN "dispatching"
                                            ELSE IF i \in refused THEN "gone" ELSE st[i]])
      /\ text' = [u \in Threads |->
                     IF u \in before THEN text[u] \o queue[u]
                     ELSE IF u = t THEN text[t] \o SubSeq(queue[t], 1, n) ELSE text[u]]
  BY DEF CutDrain
<1>2. \A i \in Ids : status'[i] = IF i \in claimed THEN "dispatching" ELSE IF i \in refused THEN "gone"
                                 ELSE IF st[i] = "posting" THEN "gone" ELSE st[i]
  <2> HIDE DEF claimed, refused
  <2> QED
    BY <1>1 DEF Abandoned
<1>3. before \subseteq Threads
  OBVIOUS
<1>4. \A i \in refused : \E u \in before : i \in ToSet(queue[u])
  OBVIOUS
<1>5. ASSUME NEW i \in claimed PROVE i \in Ids /\ status[i] # "free"
  <2>1. PICK u \in Threads : i \in ToSet(queue[u])
    BY <1>3
  <2>2. i \in Ids /\ HomeOf(i) = u
    BY <2>1, Parts, Elements DEF Homed
  <2> QED
    BY <2>1, <2>2, Parts DEF Backed, Waits
<1> HIDE DEF fires, before, claimed, refused
<1>6. /\ \A u \in Threads : ToSet(text[u]) \subseteq ToSet(text'[u])
      /\ \A u \in before : ToSet(queue[u]) \subseteq ToSet(text'[u])
  <2>1. \A u \in Threads : text[u] \in Seq(Ids) /\ queue[u] \in Seq(Ids)
    BY Parts DEF TypeOK
  <2>2. SubSeq(queue[t], 1, n) \in Seq(Ids)
    BY <1>1, <2>1
  <2>3. ASSUME NEW u \in Threads PROVE ToSet(text[u]) \subseteq ToSet(text'[u])
    <3>1. CASE u \in before
      <4>1. text'[u] = text[u] \o queue[u]
        BY <1>1, <3>1
      <4> QED
        BY <2>1, <4>1, ConcatSet
    <3>2. CASE u \notin before /\ u = t
      <4> DEFINE said == SubSeq(queue[t], 1, n)
      <4>1. text'[u] = text[u] \o said
        BY <1>1, <3>2
      <4>2. said \in Seq(Ids) /\ text[u] \in Seq(Ids)
        BY <2>1, <2>2
      <4> HIDE DEF said
      <4>3. ToSet(text[u] \o said) = ToSet(text[u]) \cup ToSet(said)
        BY <4>2, ConcatSet
      <4> QED
        BY <4>1, <4>3
    <3>3. CASE u \notin before /\ u # t
      <4>1. text'[u] = text[u]
        BY <1>1, <3>3
      <4> QED
        BY <4>1
    <3> QED
      BY <3>1, <3>2, <3>3
  <2>4. ASSUME NEW u \in before PROVE ToSet(queue[u]) \subseteq ToSet(text'[u])
    <3>1. text'[u] = text[u] \o queue[u] /\ u \in Threads
      BY <1>1, <1>3
    <3> QED
      BY <2>1, <3>1, ConcatSet
  <2> QED
    BY <2>3, <2>4
<1>7. ASSUME NEW i \in Ids, i \in refused PROVE i \in ToSet(text'[HomeOf(i)])
  <2>1. PICK u \in before : i \in ToSet(queue[u])
    BY <1>4, <1>7
  <2>2. HomeOf(i) = u
    BY <1>3, <2>1, Parts DEF Homed
  <2> QED
    BY <1>6, <2>1, <2>2
<1>8. ASSUME NEW i \in Ids
      PROVE  /\ status'[i] = "pending" => status[i] = "pending"
             /\ status'[i] \in {"free", "posting"} => status'[i] = status[i]
             /\ status[i] \in {"pending", "dispatching", "interrupted", "cancelled"} =>
                   \/ status'[i] \in {"pending", "dispatching", "interrupted", "cancelled"}
                   \/ i \in ToSet(text'[HomeOf(i)])
  <2>1. CASE i \in claimed
    BY <1>2, <2>1
  <2>2. CASE i \notin claimed /\ i \in refused
    BY <1>2, <1>7, <2>2
  <2>3. CASE i \notin claimed /\ i \notin refused
    <3>1. status'[i] = IF st[i] = "posting" THEN "gone" ELSE st[i]
      BY <1>2, <2>3
    <3>2. CASE st[i] = status[i]
      BY <3>1, <3>2
    <3>3. CASE status[i] = "dispatching" /\ st[i] = "gone" /\ i \in ToSet(text[HomeOf(i)])
      <4>1. i \in ToSet(text'[HomeOf(i)])
        BY <1>6, <3>3, Parts, Elements
      <4> QED
        BY <3>1, <3>3, <4>1
    <3> QED
      BY <3>2, <3>3
  <2> QED
    BY <2>1, <2>2, <2>3
<1> QED
  BY <1>6, <1>8, WipedFits

LEMMA StepCrashInDrain ==
    ASSUME IInv, TypeOK', NEW t \in Threads, NEW n \in 0..MaxIds, CrashInDrain(t, n) PROVE IInv'
<1>1. Wiped /\ status \in [Ids -> Statuses]
  BY Parts DEF CrashInDrain, TypeOK
<1>2. ASSUME NEW failing, NEW tn, NEW gr, NEW co, CutDrain(t, n, failing, tn, status, gr, co)
      PROVE  IInv'
  BY <1>1, <1>2, CutFits
<1>3. ASSUME NEW failing, NEW u \in Threads, phase = "up",
             CutDrain(t, n, failing, [turn EXCEPT ![u] = "idle"], Retired(u), group, coord)
      PROVE  IInv'
  <2>1. Retired(u) \in [Ids -> Statuses]
    BY <1>1 DEF Retired, Statuses
  <2>2. \A i \in Ids : \/ Retired(u)[i] = status[i]
                       \/ /\ status[i] = "dispatching" /\ Retired(u)[i] = "gone"
                          /\ i \in ToSet(text[HomeOf(i)])
    BY <1>3, Parts DEF Retired, LinesFit
  <2> QED
    BY <1>1, <1>3, <2>1, <2>2, CutFits
<1> QED
  BY <1>2, <1>3 DEF CrashInDrain

LEMMA StepCrashInSteer ==
    ASSUME IInv, TypeOK', NEW r \in Requests, NEW n \in Ids, CrashInSteer(r, n) PROVE IInv'
<1> DEFINE t == steer[r].thread
           said == SubSeq(steer[r].items, 1, n)
<1>1. /\ Wiped /\ t \in Threads /\ text[t] \in Seq(Ids)
      /\ \A i \in Ids : status'[i] = IF status[i] = "posting" THEN "gone" ELSE status[i]
  BY Parts, Elements DEF CrashInSteer, Abandoned, TypeOK
<1>2. said \in Seq(Ids)
  BY Parts, Elements DEF CrashInSteer
<1>3. \A u \in Threads : text'[u] = IF u = t THEN text[t] \o said ELSE text[u]
  BY <1>1, Parts DEF CrashInSteer, TypeOK
<1> HIDE DEF t, said
<1>4. ToSet(text[t] \o said) = ToSet(text[t]) \cup ToSet(said)
  BY <1>1, <1>2, ConcatSet
<1>5. \A u \in Threads : ToSet(text[u]) \subseteq ToSet(text'[u])
  BY <1>3, <1>4
<1> QED
  BY <1>1, <1>5, WipedFits

LEMMA StepRecover ==
    ASSUME IInv, TypeOK', NEW i \in Ids, Recover(i) PROVE IInv'
<1>1. /\ phase = "recovering" /\ status[i] \in {"dispatching", "interrupted"}
      /\ queue' = queue /\ steer' = steer /\ turn' = turn /\ batch' = batch
      /\ requeued' = requeued /\ phase' = phase
      /\ UNCHANGED <<sendOf, rows, alive, handed, accepted, crossed>>
  BY DEF Recover, Recoverable, memory
<1>2. /\ \A j \in Ids : j # i => status'[j] = status[j]
      /\ \/ status'[i] \in {"dispatching", "interrupted"}
         \/ status'[i] = "gone" /\ i \in ToSet(text[HomeOf(i)])
  BY <1>1, Parts DEF Recover, TypeOK
<1>3. \A t \in Threads : ToSet(text[t]) \subseteq ToSet(text'[t])
  <2>1. CASE UNCHANGED text
    BY <2>1
  <2>2. CASE text' = [text EXCEPT ![HomeOf(i)] = Append(@, i)]
    <3>1. \A t \in Threads : text[t] \in Seq(Ids) /\ text'[t] = IF t = HomeOf(i) THEN Append(text[t], i) ELSE text[t]
      BY <2>2, Parts DEF TypeOK
    <3>2. ASSUME NEW t \in Threads PROVE ToSet(Append(text[t], i)) = ToSet(text[t]) \cup {i}
      BY <3>1, AppendSet
    <3> QED
      BY <3>1, <3>2
  <2> QED
    BY <2>1, <2>2 DEF Recover
<1>4. Homed(queue, steer, batch, status')
  <2>1. ASSUME NEW u \in Threads, NEW j \in ToSet(batch[u]) PROVE HomeOf(j) = u /\ status'[j] # "free"
    <3>1. j \in Ids /\ HomeOf(j) = u /\ status[j] # "free"
      BY Parts, Elements DEF Homed
    <3> QED
      BY <1>2, <3>1
  <2> QED
    BY <2>1, Parts DEF Homed
<1>5. Backed(queue, steer, status', phase)
  BY <1>1, <1>2, Parts DEF Backed
<1>6. RowsFit(status')
  BY <1>1, <1>2, Parts, Elements DEF RowsFit
<1>7. Booting(queue, steer, turn, status', phase)
  BY <1>1, <1>2, Parts DEF Booting
<1>8. LinesFit(status', text', phase)
  <2>1. ASSUME NEW s \in accepted, alive[Home[s]]
        PROVE  \E j \in Ids : /\ sendOf[j] = s /\ status'[j] # "free"
                              /\ \/ status'[j] \in {"pending", "dispatching", "interrupted", "cancelled"}
                                 \/ j \in ToSet(text'[Home[s]])
    <3>1. PICK j \in Ids : /\ sendOf[j] = s /\ status[j] # "free"
                           /\ \/ status[j] \in {"pending", "dispatching", "interrupted", "cancelled"}
                              \/ j \in ToSet(text[Home[s]])
      BY <2>1, Parts DEF LinesFit
    <3>2. HomeOf(j) = Home[s] /\ Home[s] \in Threads
      BY <3>1, Parts, Elements
    <3>3. CASE j = i
      BY <1>2, <1>3, <3>1, <3>2, <3>3
    <3>4. CASE j # i
      BY <1>2, <1>3, <3>1, <3>2, <3>4
    <3> QED
      BY <3>3, <3>4
  <2> QED
    BY <1>1, <2>1 DEF LinesFit
<1>9. HandedFits(queue, steer, turn, batch, status', requeued, phase)
  <2>1. ASSUME NEW u \in Threads, turn[u] = "setup" PROVE FALSE
    BY <1>1, <2>1, Parts DEF Booting
  <2>2. \A j \in Ids : /\ handed[j] > 1 => j \in requeued
                       /\ status'[j] = "free" => handed[j] = 0
                       /\ phase = "recovering" /\ status'[j] = "pending" => Fresh(j, requeued)
    BY <1>2, Parts DEF HandedFits
  <2> QED
    BY <2>1, <2>2, Parts DEF HandedFits
<1>10. Fits(queue, steer, turn, batch, status', text', requeued, phase)
  BY <1>4, <1>5, <1>6, <1>7, <1>8, <1>9, Parts DEF Fits
<1> QED
  BY <1>1, <1>10, Carry

LEMMA StepRestore ==
    ASSUME IInv, TypeOK', NEW i \in Ids, Restore(i) PROVE IInv'
<1> DEFINE t == HomeOf(i)
           q == [queue EXCEPT ![t] = Append(@, i)]
<1>1. /\ phase = "recovering" /\ status[i] = "pending" /\ i \notin ToSet(queue[t])
      /\ \A j \in Ids : Before(j, i) /\ status[j] = "pending" => j \in ToSet(queue[HomeOf(j)])
      /\ queue' = q /\ steer' = steer /\ turn' = turn /\ batch' = batch /\ status' = status
      /\ text' = text /\ requeued' = requeued /\ phase' = phase
      /\ UNCHANGED <<sendOf, rows, alive, handed, accepted, crossed>>
  BY DEF Restore, durable
<1>2. /\ t \in Threads /\ queue[t] \in Seq(Ids)
      /\ \A u \in Threads : q[u] = IF u = t THEN Append(queue[t], i) ELSE queue[u]
  BY Parts, Elements DEF TypeOK
<1>3. \A r \in Requests : steer[r].phase = "none" /\ steer[r].items = <<>>
  <2>1. \A r \in Requests : steer[r] = NoSteer
    BY <1>1, Parts DEF Booting
  <2>2. NoSteer.phase = "none" /\ NoSteer.items = <<>>
    BY DEF NoSteer
  <2> QED
    BY <2>1, <2>2
<1>4. \A j \in ToSet(queue[t]) : Before(j, i)
  BY <1>1, <1>2, Parts DEF Booting
<1>5. ToSet(Append(queue[t], i)) = ToSet(queue[t]) \cup {i}
  BY <1>2, AppendSet
<1>6. IsInjective(Append(queue[t], i))
  BY <1>1, <1>2, AppendInjectivity, Parts DEF Once
<1>7. t \notin crossed => InOrder(Append(queue[t], i))
  <2>1. ASSUME t \notin crossed PROVE InOrder(queue[t])
    BY <1>2, <2>1, Parts DEF Ordered
  <2> QED
    BY <1>2, <1>4, <2>1, AppendInOrder
<1>h. HomeOf(i) = t
  OBVIOUS
<1> HIDE DEF t, q
<1>8. \A u \in Threads : ToSet(q[u]) = IF u = t THEN ToSet(queue[t]) \cup {i} ELSE ToSet(queue[u])
  <2>1. ASSUME NEW u \in Threads, u = t PROVE ToSet(q[u]) = ToSet(queue[t]) \cup {i}
    BY <1>2, <1>5, <2>1
  <2>2. ASSUME NEW u \in Threads, u # t PROVE ToSet(q[u]) = ToSet(queue[u])
    <3>1. q[u] = queue[u]
      BY <1>2, <2>2
    <3> QED
      BY <3>1
  <2> QED
    BY <2>1, <2>2
<1>9. Homed(q, steer, batch, status)
  BY <1>8, <1>h, Parts DEF Homed
<1>10. Once(q, steer)
  BY <1>2, <1>3, <1>6, EmptySet, Parts DEF Once
<1>11. Backed(q, steer, status, phase)
  <2>1. ASSUME NEW j \in Ids PROVE Waits(j, q, steer) <=> (Waits(j, queue, steer) \/ j = i)
    BY <1>8, <1>h, <1>2, Parts, Elements DEF Waits
  <2> QED
    BY <1>1, <2>1, Parts DEF Backed
<1>12. Ordered(q, steer)
  <2>1. \A u \in Threads \ crossed : InOrder(q[u])
    BY <1>2, <1>7, Parts DEF Ordered
  <2> QED
    BY <1>3, <2>1 DEF Ordered
<1>13. Booting(q, steer, turn, status, phase)
  <2>1. ASSUME NEW k \in Ids, status[k] = "pending", k \notin ToSet(q[HomeOf(k)]),
               NEW u \in Threads, NEW j \in ToSet(q[u])
        PROVE  Before(j, k)
    <3>1. k \notin ToSet(queue[HomeOf(k)]) /\ k # i
      BY <1>2, <1>8, <1>h, <2>1, Parts, Elements
    <3>2. CASE j \in ToSet(queue[u])
      BY <1>1, <2>1, <3>1, <3>2, Parts DEF Booting
    <3>3. CASE j = i
      <4>1. ~Before(k, i)
        BY <1>1, <2>1, <3>1
      <4>2. i \in ToSet(rows) /\ k \in ToSet(rows) /\ rows \in Seq(Ids)
        BY <1>1, <2>1, Parts DEF RowsFit, TypeOK
      <4> QED
        BY <3>1, <3>3, <4>1, <4>2, RowsTotal
    <3> QED
      BY <1>8, <2>1, <3>2, <3>3
  <2> QED
    BY <2>1, Parts DEF Booting
<1>14. HandedFits(q, steer, turn, batch, status, requeued, phase)
  <2>1. Fresh(i, requeued)
    BY <1>1, Parts DEF HandedFits
  <2> QED
    BY <1>8, <2>1, Parts DEF HandedFits
<1>15. Fits(q, steer, turn, batch, status, text, requeued, phase)
  BY <1>9, <1>10, <1>11, <1>12, <1>13, <1>14, Parts DEF Fits
<1> QED
  BY <1>1, <1>15, Carry

LEMMA StepListen == ASSUME IInv, TypeOK', Listen PROVE IInv'
<1>1. /\ phase = "recovering" /\ Recoverable = {} /\ AllRestored /\ phase' = "up"
      /\ Drain(queue, ahead, turn, batch, status, text, group, coord)
      /\ steer' = steer /\ requeued' = requeued
      /\ UNCHANGED <<sendOf, rows, alive, handed, accepted, crossed>>
  BY DEF Listen
<1>2. Backed(queue, steer, status, "up")
  BY <1>1, Parts DEF Backed, AllRestored, Waits
<1>3. LinesFit(status, text, "up")
  BY <1>1, Parts DEF LinesFit, Recoverable
<1>4. Booting(queue, steer, turn, status, "up")
  BY DEF Booting
<1>5. HandedFits(queue, steer, turn, batch, status, requeued, "up")
  BY Parts DEF HandedFits
<1>6. Fits(queue, steer, turn, batch, status, text, requeued, "up")
  BY <1>2, <1>3, <1>4, <1>5, Parts DEF Fits
<1>7. /\ TypeOK /\ ahead \in SUBSET (Threads \X Threads) /\ queue \in [Threads -> Seq(Ids)]
      /\ steer \in [Requests -> SteerRecord] /\ turn \in [Threads -> TurnPhases]
      /\ batch \in [Threads -> Seq(Ids)] /\ status \in [Ids -> Statuses]
  BY Parts DEF TypeOK
<1> QED
  BY <1>1, <1>6, <1>7, DrainStep, ConstantsAssumption

-----------------------------------------------------------------------------
(* New words.                                                                *)

\* An id that has no row yet is nowhere in the queues; naming its send moves
\* no other word.
LEMMA NewWords ==
    ASSUME IInv, NEW s \in Sends, NEW i \in Ids,
           status[i] \in {"free", "posting"}, status[i] = "posting" => sendOf[i] = s,
           \/ sendOf' = [sendOf EXCEPT ![i] = s]
           \/ sendOf' = sendOf /\ sendOf[i] = s
    PROVE  /\ Home[s] \in Threads
           /\ sendOf'[i] = s /\ \A j \in Ids \ {i} : sendOf'[j] = sendOf[j]
           /\ \A t \in Threads : i \notin ToSet(queue[t])
           /\ \A r \in Requests : i \notin ToSet(steer[r].items)
           /\ i \notin ToSet(rows)
           /\ \A t \in Threads : turn[t] = "setup" /\ alive[t] => i \notin ToSet(batch[t])
           /\ \A t \in Threads : \A j \in ToSet(batch[t]) : Home[sendOf'[j]] = t /\ status[j] # "free"
           /\ \A j \in Ids : status[j] # "free" => sendOf'[j] = sendOf[j]
<1>1. Home[s] \in Threads
  BY Parts, Elements
<1>2. sendOf'[i] = s /\ \A j \in Ids \ {i} : sendOf'[j] = sendOf[j]
  BY Parts DEF TypeOK
<1>3. ~Waits(i, queue, steer)
  BY Parts DEF Backed
<1>4. ASSUME NEW t \in Threads PROVE i \notin ToSet(queue[t])
  BY <1>3, Parts DEF Waits, Homed
<1>5. \A r \in Requests : i \notin ToSet(steer[r].items)
  BY <1>3 DEF Waits
<1>6. i \notin ToSet(rows)
  BY Parts DEF RowsFit
<1>7. \A t \in Threads : turn[t] = "setup" /\ alive[t] => i \notin ToSet(batch[t])
  BY Parts DEF HandedFits
<1>8. \A j \in Ids : status[j] # "free" => sendOf'[j] = sendOf[j]
  BY <1>2
<1>9. ASSUME NEW t \in Threads, NEW j \in ToSet(batch[t])
      PROVE  Home[sendOf'[j]] = t /\ status[j] # "free"
  <2>1. j \in Ids /\ HomeOf(j) = t /\ status[j] # "free"
    BY Parts, Elements DEF Homed
  <2> QED
    BY <1>8, <2>1 DEF HomeOf
<1> QED
  BY <1>1, <1>2, <1>4, <1>5, <1>6, <1>7, <1>8, <1>9

\* The new words run, are handed over in the live turn, or are sent away:
\* nothing of the line moves.
LEMMA OffLine ==
    ASSUME IInv, TypeOK', phase = "up", NEW s \in Sends, NEW i \in Ids,
           status[i] \in {"free", "posting"}, status[i] = "posting" => sendOf[i] = s,
           \/ sendOf' = [sendOf EXCEPT ![i] = s]
           \/ sendOf' = sendOf /\ sendOf[i] = s,
           status'[i] \in {"posting", "direct", "bounced", "gone"},
           \A j \in Ids \ {i} : status'[j] = status[j],
           \A t \in Threads : ToSet(text[t]) \subseteq ToSet(text'[t]),
           \/ accepted' = accepted
           \/ accepted' = accepted \cup {s} /\ i \in ToSet(text'[Home[s]]),
           \/ UNCHANGED <<turn, batch>>
           \/ /\ status'[i] = "direct" /\ handed[i] = 0
              /\ turn' = [turn EXCEPT ![Home[s]] = "setup"]
              /\ batch' = [batch EXCEPT ![Home[s]] = <<i>>],
           UNCHANGED <<rows, queue, steer, alive, phase, handed, requeued, crossed>>
    PROVE  IInv'
<1>1. /\ Home[s] \in Threads
      /\ sendOf'[i] = s /\ \A j \in Ids \ {i} : sendOf'[j] = sendOf[j]
      /\ \A t \in Threads : i \notin ToSet(queue[t])
      /\ \A r \in Requests : i \notin ToSet(steer[r].items)
      /\ i \notin ToSet(rows)
      /\ \A t \in Threads : turn[t] = "setup" /\ alive[t] => i \notin ToSet(batch[t])
      /\ \A t \in Threads : \A j \in ToSet(batch[t]) : Home[sendOf'[j]] = t /\ status[j] # "free"
      /\ \A j \in Ids : status[j] # "free" => sendOf'[j] = sendOf[j]
  BY NewWords
<1>h. \A j \in Ids \ {i} : HomeOf(j)' = HomeOf(j)
  BY <1>1 DEF HomeOf
<1>b. \A t \in Threads : \/ turn'[t] = turn[t] /\ batch'[t] = batch[t]
                         \/ /\ t = Home[s] /\ batch'[t] = <<i>> /\ ToSet(batch'[t]) = {i}
                            /\ status'[i] = "direct" /\ handed[i] = 0
  <2>1. ToSet(<<i>>) = {i}
    BY DEF ToSet
  <2>2. CASE UNCHANGED <<turn, batch>>
    BY <2>2
  <2>3. CASE /\ status'[i] = "direct" /\ handed[i] = 0
             /\ turn' = [turn EXCEPT ![Home[s]] = "setup"]
             /\ batch' = [batch EXCEPT ![Home[s]] = <<i>>]
    <3>1. /\ batch'[Home[s]] = <<i>>
          /\ \A t \in Threads : t # Home[s] => turn'[t] = turn[t] /\ batch'[t] = batch[t]
      BY <1>1, <2>3, Parts DEF TypeOK
    <3> QED
      BY <2>1, <2>3, <3>1
  <2> QED
    BY <2>2, <2>3
<1>2. Homed(queue, steer, batch, status)'
  <2>1. ASSUME NEW t \in Threads, NEW j \in ToSet(queue[t]) PROVE HomeOf(j)' = t
    <3>1. j \in Ids \ {i} /\ HomeOf(j) = t
      BY <1>1, Parts, Elements DEF Homed
    <3> QED
      BY <1>h, <3>1
  <2>2. ASSUME NEW r \in Requests, NEW j \in ToSet(steer[r].items) PROVE HomeOf(j)' = steer[r].thread
    <3>1. j \in Ids \ {i} /\ HomeOf(j) = steer[r].thread
      BY <1>1, Parts, Elements DEF Homed
    <3> QED
      BY <1>h, <3>1
  <2>3. ASSUME NEW t \in Threads, NEW j \in ToSet(batch'[t]) PROVE HomeOf(j)' = t /\ status'[j] # "free"
    <3>1. CASE batch'[t] = batch[t]
      <4>1. j \in Ids /\ Home[sendOf'[j]] = t /\ status[j] # "free"
        BY <1>1, <2>3, <3>1, Parts, Elements
      <4> QED
        BY <4>1 DEF HomeOf
    <3>2. CASE t = Home[s] /\ ToSet(batch'[t]) = {i} /\ status'[i] = "direct"
      <4>1. j = i
        BY <2>3, <3>2
      <4> QED
        BY <1>1, <3>2, <4>1 DEF HomeOf
    <3> QED
      BY <1>b, <3>1, <3>2
  <2> QED
    BY <2>1, <2>2, <2>3 DEF Homed
<1>3. Once(queue, steer)'
  <2>1. ASSUME NEW r \in Requests, NEW j \in ToSet(steer[r].items) PROVE j \notin ToSet(queue[HomeOf(j)'])
    <3>1. j \in Ids \ {i} /\ j \notin ToSet(queue[HomeOf(j)])
      BY <1>1, Parts, Elements DEF Once
    <3> QED
      BY <1>h, <3>1
  <2> QED
    BY <2>1, Parts DEF Once
<1>4. Backed(queue, steer, status, phase)'
  <2>1. ASSUME NEW j \in Ids PROVE Waits(j, queue, steer)' <=> (Waits(j, queue, steer) /\ j # i)
    <3>1. CASE j = i
      <4>1. HomeOf(i)' = Home[s]
        BY <1>1 DEF HomeOf
      <4> QED
        BY <1>1, <3>1, <4>1 DEF Waits
    <3>2. CASE j # i
      BY <1>h, <3>2 DEF Waits
    <3> QED
      BY <3>1, <3>2
  <2>2. ASSUME NEW j \in Ids, j # i
        PROVE  /\ Waits(j, queue, steer)' => /\ status'[j] \in {"pending", "gone"}
                                             /\ (alive'[HomeOf(j)'] => status'[j] = "pending")
               /\ status'[j] = "pending" => alive'[HomeOf(j)'] /\ (phase' = "up" => Waits(j, queue, steer)')
    BY <1>h, <2>1, <2>2, Parts DEF Backed
  <2>3. ~Waits(i, queue, steer)' /\ status'[i] # "pending"
    BY <2>1
  <2> QED
    BY <2>2, <2>3 DEF Backed
<1>5. RowsFit(status)'
  BY <1>1, Parts, Elements DEF RowsFit
<1>6. Ordered(queue, steer)'
  <2>1. ASSUME NEW t \in Threads \ crossed PROVE InOrder(queue[t])'
    <3>1. InOrder(queue[t])
      BY Parts DEF Ordered
    <3> QED
      BY <3>1 DEF InOrder, Before
  <2>2. ASSUME NEW t \in Threads \ crossed, NEW r \in Requests, steer[r].phase # "none", steer[r].thread = t
        PROVE  InOrder(steer[r].items)'
    <3>1. InOrder(steer[r].items)
      BY <2>2, Parts DEF Ordered
    <3> QED
      BY <3>1 DEF InOrder, Before
  <2>3. ASSUME NEW t \in Threads \ crossed, NEW r \in Requests, steer[r].phase # "none", steer[r].thread = t,
               NEW x \in ToSet(steer[r].items), NEW y \in ToSet(queue[t])
        PROVE  Before(x, y)'
    <3>1. Before(x, y)
      BY <2>3, Parts DEF Ordered
    <3> QED
      BY <3>1 DEF Before
  <2>4. \A t \in Threads \ crossed, r \in Requests : steer[r].phase # "none" /\ steer[r].thread = t =>
            \A p \in Requests \ {r} : steer[p].phase # "none" => steer[p].thread # t
    BY Parts DEF Ordered
  <2> QED
    BY <2>1, <2>2, <2>3, <2>4 DEF Ordered
<1>7. Booting(queue, steer, turn, status, phase)'
  BY DEF Booting
<1>8. LinesFit(status, text, phase)'
  <2>1. ASSUME NEW j \in Ids, status'[j] = "dispatching" PROVE j \in ToSet(text'[HomeOf(j)'])
    <3>1. j # i /\ j \in ToSet(text[HomeOf(j)])
      BY <2>1, Parts DEF LinesFit
    <3> QED
      BY <1>h, <3>1, Parts, Elements
  <2>2. ASSUME NEW z \in accepted', alive[Home[z]]
        PROVE  \E j \in Ids : /\ sendOf'[j] = z /\ status'[j] # "free"
                              /\ \/ status'[j] \in {"pending", "dispatching", "interrupted", "cancelled"}
                                 \/ j \in ToSet(text'[Home[z]])
    <3>1. CASE z \in accepted
      <4>1. PICK j \in Ids : /\ sendOf[j] = z /\ status[j] # "free"
                             /\ \/ status[j] \in {"pending", "dispatching", "interrupted", "cancelled"}
                                \/ j \in ToSet(text[Home[z]])
        BY <2>2, <3>1, Parts DEF LinesFit
      <4>2. sendOf'[j] = z /\ Home[z] \in Threads /\ status'[j] # "free"
        BY <1>1, <4>1, Parts, Elements
      <4>3. status[j] \in {"pending", "dispatching", "interrupted", "cancelled"} => status'[j] = status[j]
        OBVIOUS
      <4> QED
        BY <4>1, <4>2, <4>3
    <3>2. CASE z = s /\ i \in ToSet(text'[Home[s]])
      BY <1>1, <3>2
    <3> QED
      BY <3>1, <3>2
  <2> QED
    BY <2>1, <2>2 DEF LinesFit
<1>9. HandedFits(queue, steer, turn, batch, status, requeued, phase)'
  <2>1. ASSUME NEW t \in Threads, turn'[t] = "setup", alive[t], NEW j \in ToSet(batch'[t])
        PROVE  status'[j] \in {"direct", "dispatching"} /\ Fresh(j, requeued)
    <3>1. CASE turn'[t] = turn[t] /\ batch'[t] = batch[t]
      <4>1. j \in Ids \ {i}
        BY <1>1, <2>1, <3>1, Parts, Elements
      <4>2. status[j] \in {"direct", "dispatching"} /\ Fresh(j, requeued)
        BY <2>1, <3>1, Parts DEF HandedFits
      <4> QED
        BY <4>1, <4>2
    <3>2. CASE ToSet(batch'[t]) = {i} /\ status'[i] = "direct" /\ handed[i] = 0
      BY <2>1, <3>2 DEF Fresh
    <3> QED
      BY <1>b, <3>1, <3>2
  <2>2. \A j \in Ids : (handed[j] > 1 => j \in requeued) /\ (status'[j] = "free" => handed[j] = 0)
    BY Parts DEF HandedFits
  <2>3. /\ \A t \in Threads : \A j \in ToSet(queue[t]) : Fresh(j, requeued)
        /\ \A r \in Requests : steer[r].phase = "asked" => \A j \in ToSet(steer[r].items) : Fresh(j, requeued)
    BY Parts DEF HandedFits
  <2> QED
    BY <2>1, <2>2, <2>3 DEF HandedFits, Fresh
<1> QED
  BY <1>2, <1>3, <1>4, <1>5, <1>6, <1>7, <1>8, <1>9 DEF Fits, IInv

\* New words join the end of the line of their thread.
LEMMA EnqueueFits ==
    ASSUME IInv, TypeOK', phase = "up", NEW s \in Sends, NEW i \in Ids, Enqueue(s, i),
           status[i] \in {"free", "posting"}, status[i] = "posting" => sendOf[i] = s,
           handed[i] = 0, alive[Home[s]],
           UNCHANGED <<alive, phase, steer, handed, requeued, crossed>>
    PROVE  IInv'
<1> DEFINE t == Home[s]
           older(x, y) == \E m, n \in DOMAIN rows' : m < n /\ rows'[m] = x /\ rows'[n] = y
<1>0. sendOf' = [sendOf EXCEPT ![i] = s]
  BY DEF Enqueue
<1>1. /\ t \in Threads
      /\ sendOf'[i] = s /\ \A j \in Ids \ {i} : sendOf'[j] = sendOf[j]
      /\ \A u \in Threads : i \notin ToSet(queue[u])
      /\ \A r \in Requests : i \notin ToSet(steer[r].items)
      /\ i \notin ToSet(rows)
      /\ \A u \in Threads : turn[u] = "setup" /\ alive[u] => i \notin ToSet(batch[u])
      /\ \A u \in Threads : \A j \in ToSet(batch[u]) : Home[sendOf'[j]] = u /\ status[j] # "free"
      /\ \A j \in Ids : status[j] # "free" => sendOf'[j] = sendOf[j]
  BY <1>0, NewWords
<1>h. HomeOf(i)' = t /\ \A j \in Ids \ {i} : HomeOf(j)' = HomeOf(j)
  BY <1>1 DEF HomeOf
<1>2. /\ status'[i] = "pending" /\ \A j \in Ids \ {i} : status'[j] = status[j]
      /\ rows' = Append(rows, i) /\ rows \in Seq(Ids) /\ queue[t] \in Seq(Ids)
      /\ queue'[t] = Append(queue[t], i) /\ \A u \in Threads \ {t} : queue'[u] = queue[u]
      /\ accepted' = accepted \cup {s}
      /\ UNCHANGED <<text, turn, batch>>
  BY <1>1, Parts DEF Enqueue, TypeOK
<1>3. ToSet(queue'[t]) = ToSet(queue[t]) \cup {i} /\ ToSet(rows') = ToSet(rows) \cup {i}
  BY <1>2, AppendSet
<1>4. IsInjective(queue'[t]) /\ IsInjective(rows')
  <2>1. IsInjective(queue[t]) /\ IsInjective(rows)
    BY <1>1, Parts DEF Once, RowsFit
  <2> QED
    BY <1>1, <1>2, <2>1, AppendInjectivity
\* Old rows keep their order, and the new one is younger than all of them.
<1>5. /\ \A x, y : Before(x, y) => older(x, y)
      /\ \A x \in ToSet(rows) : older(x, i)
  <2>1. /\ Len(rows) \in Nat /\ DOMAIN rows = 1..Len(rows) /\ DOMAIN rows' = 1..(Len(rows) + 1)
        /\ \A m \in 1..Len(rows) : rows'[m] = rows[m]
        /\ rows'[Len(rows) + 1] = i
    BY <1>2
  <2>2. ASSUME NEW x, NEW y, Before(x, y) PROVE older(x, y)
    BY <2>1, <2>2 DEF Before
  <2>3. ASSUME NEW x \in ToSet(rows) PROVE older(x, i)
    <3>1. PICK m \in 1..Len(rows) : rows[m] = x
      BY <2>1 DEF ToSet
    <3>2. m \in DOMAIN rows' /\ Len(rows) + 1 \in DOMAIN rows' /\ m < Len(rows) + 1 /\ rows'[m] = x
      BY <2>1, <3>1
    <3> QED
      BY <2>1, <3>2 DEF Before
  <2> QED
    BY <2>2, <2>3
\* What waits in a live thread has a row.
<1>6. ASSUME NEW j \in Ids, Waits(j, queue, steer), HomeOf(j) = t PROVE j \in ToSet(rows)
  BY <1>6, Parts DEF Backed, RowsFit
<1>7. \A u \in Threads : \A j \in ToSet(queue[u]) : j \in Ids /\ HomeOf(j) = u /\ Waits(j, queue, steer)
  BY Parts, Elements DEF Homed, Waits
<1>8. \A r \in Requests : \A j \in ToSet(steer[r].items) : j \in Ids /\ HomeOf(j) = steer[r].thread /\ Waits(j, queue, steer)
  BY Parts, Elements DEF Homed, Waits
<1> HIDE DEF t
<1>9. Homed(queue, steer, batch, status)'
  <2>1. ASSUME NEW u \in Threads, NEW j \in ToSet(queue'[u]) PROVE HomeOf(j)' = u
    <3>1. CASE j = i
      BY <1>1, <1>2, <1>h, <2>1, <3>1
    <3>2. CASE j # i
      <4>1. j \in ToSet(queue[u])
        <5>1. CASE u = t
          BY <1>3, <2>1, <3>2, <5>1
        <5>2. CASE u # t
          <6>1. queue'[u] = queue[u]
            BY <1>2, <5>2
          <6> QED
            BY <2>1, <6>1
        <5> QED
          BY <5>1, <5>2
      <4> QED
        BY <1>7, <1>h, <3>2, <4>1
    <3> QED
      BY <3>1, <3>2
  <2>2. ASSUME NEW r \in Requests, NEW j \in ToSet(steer[r].items) PROVE HomeOf(j)' = steer[r].thread
    BY <1>1, <1>8, <1>h
  <2>3. ASSUME NEW u \in Threads, NEW j \in ToSet(batch[u]) PROVE HomeOf(j)' = u /\ status'[j] # "free"
    <3>1. j \in Ids /\ Home[sendOf'[j]] = u /\ status[j] # "free"
      BY <1>1, Parts, Elements
    <3>2. status'[j] # "free"
      BY <1>2, <3>1
    <3> QED
      BY <3>1, <3>2 DEF HomeOf
  <2> QED
    BY <1>2, <2>1, <2>2, <2>3 DEF Homed
<1>10. Once(queue, steer)'
  <2>1. \A u \in Threads : IsInjective(queue'[u])
    BY <1>2, <1>4, Parts DEF Once
  <2>2. ASSUME NEW r \in Requests, NEW j \in ToSet(steer[r].items) PROVE j \notin ToSet(queue'[HomeOf(j)'])
    <3>1. j \in Ids \ {i} /\ HomeOf(j) \in Threads /\ j \notin ToSet(queue[HomeOf(j)])
      BY <1>1, Parts, Elements DEF Once
    <3>2. j \notin ToSet(queue'[HomeOf(j)])
      <4>1. CASE HomeOf(j) = t
        BY <1>3, <3>1, <4>1
      <4>2. CASE HomeOf(j) # t
        BY <1>2, <3>1, <4>2
      <4> QED
        BY <4>1, <4>2
    <3> QED
      BY <1>h, <3>1, <3>2
  <2> QED
    BY <2>1, <2>2, Parts DEF Once
<1>11. Backed(queue, steer, status, phase)'
  <2>1. ASSUME NEW j \in Ids \ {i} PROVE Waits(j, queue, steer)' <=> Waits(j, queue, steer)
    <3>1. HomeOf(j)' = HomeOf(j) /\ HomeOf(j) \in Threads
      BY <1>h, Parts, Elements
    <3>2. j \in ToSet(queue'[HomeOf(j)]) <=> j \in ToSet(queue[HomeOf(j)])
      BY <1>2, <1>3, <3>1
    <3> QED
      BY <3>1, <3>2 DEF Waits
  <2>2. ASSUME NEW j \in Ids \ {i}
        PROVE  /\ Waits(j, queue, steer)' => /\ status'[j] \in {"pending", "gone"}
                                             /\ (alive'[HomeOf(j)'] => status'[j] = "pending")
               /\ status'[j] = "pending" => alive'[HomeOf(j)'] /\ (phase' = "up" => Waits(j, queue, steer)')
    BY <1>2, <1>h, <2>1, Parts DEF Backed
  <2>3. Waits(i, queue, steer)'
    BY <1>3, <1>h DEF Waits
  <2>4. alive'[HomeOf(i)'] /\ status'[i] = "pending"
    BY <1>2, <1>h DEF t
  <2> QED
    BY <2>2, <2>3, <2>4 DEF Backed
<1>12. RowsFit(status)'
  BY <1>2, <1>3, <1>4, Parts, Elements DEF RowsFit
<1>13. Ordered(queue, steer)'
  <2>1. ASSUME NEW u \in Threads \ crossed PROVE InOrder(queue[u])'
    <3>1. \A m, n \in 1..Len(queue[u]) : m < n => older(queue[u][m], queue[u][n])
      BY <1>5, Parts DEF Ordered, InOrder
    <3>2. CASE u = t
      <4> HIDE DEF older
      <4>1. \A x \in ToSet(queue[t]) : older(x, i)
        BY <1>1, <1>5, <1>6, <1>7
      <4>2. /\ Len(queue[t]) \in Nat /\ DOMAIN queue[t] = 1..Len(queue[t])
            /\ Len(queue'[t]) = Len(queue[t]) + 1
            /\ \A m \in 1..Len(queue[t]) : queue'[t][m] = queue[t][m]
            /\ queue'[t][Len(queue[t]) + 1] = i
        BY <1>2
      <4>3. \A m \in 1..Len(queue[t]) : older(queue[t][m], i)
        BY <4>1, <4>2 DEF ToSet
      <4>4. ASSUME NEW m \in 1..Len(queue'[t]), NEW n \in 1..Len(queue'[t]), m < n
            PROVE  older(queue'[t][m], queue'[t][n])
        <5>1. CASE n = Len(queue[t]) + 1
          BY <4>2, <4>3, <4>4, <5>1
        <5>2. CASE n # Len(queue[t]) + 1
          <6>1. m \in 1..Len(queue[t]) /\ n \in 1..Len(queue[t])
            BY <4>2, <4>4, <5>2
          <6> QED
            BY <3>1, <3>2, <4>2, <4>4, <6>1
        <5> QED
          BY <5>1, <5>2
      <4> QED
        BY <3>2, <4>4 DEF InOrder, Before, older
    <3>3. CASE u # t
      <4>1. queue'[u] = queue[u]
        BY <1>2, <3>3
      <4> QED
        BY <3>1, <4>1 DEF InOrder, Before
    <3> QED
      BY <3>2, <3>3
  <2>2. ASSUME NEW u \in Threads \ crossed, NEW r \in Requests, steer[r].phase # "none", steer[r].thread = u
        PROVE  InOrder(steer[r].items)'
    <3>1. InOrder(steer[r].items)
      BY <2>2, Parts DEF Ordered
    <3>2. \A m, n \in 1..Len(steer[r].items) : m < n => older(steer[r].items[m], steer[r].items[n])
      BY <1>5, <3>1 DEF InOrder
    <3> QED
      BY <3>2 DEF InOrder, Before
  <2>3. ASSUME NEW u \in Threads \ crossed, NEW r \in Requests, steer[r].phase # "none", steer[r].thread = u,
               NEW x \in ToSet(steer[r].items), NEW y \in ToSet(queue'[u])
        PROVE  Before(x, y)'
    <3>1. older(x, y)
      <4>1. CASE y \in ToSet(queue[u])
        BY <1>5, <2>3, <4>1, Parts DEF Ordered
      <4>2. CASE y \notin ToSet(queue[u])
        <5>1. u = t /\ y = i
          <6>1. CASE u = t
            BY <1>3, <2>3, <4>2, <6>1
          <6>2. CASE u # t
            <7>1. queue'[u] = queue[u]
              BY <1>2, <6>2
            <7> QED
              BY <2>3, <4>2, <7>1
          <6> QED
            BY <6>1, <6>2
        <5>2. x \in ToSet(rows)
          BY <1>6, <1>8, <2>3, <5>1
        <5> QED
          BY <1>5, <5>1, <5>2
      <4> QED
        BY <4>1, <4>2
    <3> QED
      BY <3>1 DEF Before
  <2>4. \A u \in Threads \ crossed, r \in Requests : steer[r].phase # "none" /\ steer[r].thread = u =>
            \A p \in Requests \ {r} : steer[p].phase # "none" => steer[p].thread # u
    BY Parts DEF Ordered
  <2> QED
    BY <2>1, <2>2, <2>3, <2>4 DEF Ordered
<1>14. Booting(queue, steer, turn, status, phase)'
  BY DEF Booting
<1>15. LinesFit(status, text, phase)'
  <2>1. ASSUME NEW j \in Ids, status'[j] = "dispatching" PROVE j \in ToSet(text[HomeOf(j)'])
    <3>1. j # i /\ j \in ToSet(text[HomeOf(j)])
      BY <1>2, <2>1, Parts DEF LinesFit
    <3> QED
      BY <1>h, <3>1
  <2>2. ASSUME NEW z \in accepted', alive[Home[z]]
        PROVE  \E j \in Ids : /\ sendOf'[j] = z /\ status'[j] # "free"
                              /\ \/ status'[j] \in {"pending", "dispatching", "interrupted", "cancelled"}
                                 \/ j \in ToSet(text[Home[z]])
    <3>1. CASE z \in accepted
      <4>1. PICK j \in Ids : /\ sendOf[j] = z /\ status[j] # "free"
                             /\ \/ status[j] \in {"pending", "dispatching", "interrupted", "cancelled"}
                                \/ j \in ToSet(text[Home[z]])
        BY <2>2, <3>1, Parts DEF LinesFit
      <4>2. sendOf'[j] = z
        BY <1>1, <4>1
      <4>3. status'[j] = "pending" \/ status'[j] = status[j]
        BY <1>2
      <4> QED
        BY <4>1, <4>2, <4>3
    <3>2. CASE z = s
      BY <1>1, <1>2, <3>2
    <3> QED
      BY <1>2, <3>1, <3>2
  <2> QED
    BY <1>2, <2>1, <2>2 DEF LinesFit
<1>16. HandedFits(queue, steer, turn, batch, status, requeued, phase)'
  <2>1. ASSUME NEW u \in Threads, turn[u] = "setup", alive[u], NEW j \in ToSet(batch[u])
        PROVE  status'[j] \in {"direct", "dispatching"} /\ Fresh(j, requeued)
    <3>1. j \in Ids \ {i} /\ status[j] \in {"direct", "dispatching"} /\ Fresh(j, requeued)
      BY <1>1, <2>1, Parts, Elements DEF HandedFits
    <3> QED
      BY <1>2, <3>1
  <2>2. \A j \in Ids : (handed[j] > 1 => j \in requeued) /\ (status'[j] = "free" => handed[j] = 0)
    BY <1>2, Parts DEF HandedFits
  <2>3. ASSUME NEW u \in Threads, NEW j \in ToSet(queue'[u]) PROVE Fresh(j, requeued)
    <3>1. CASE j = i
      BY <3>1 DEF Fresh
    <3>2. CASE j # i
      <4>1. j \in ToSet(queue[u])
        <5>1. CASE u = t
          BY <1>3, <2>3, <3>2, <5>1
        <5>2. CASE u # t
          <6>1. queue'[u] = queue[u]
            BY <1>2, <5>2
          <6> QED
            BY <2>3, <6>1
        <5> QED
          BY <5>1, <5>2
      <4> QED
        BY <4>1, Parts DEF HandedFits
    <3> QED
      BY <3>1, <3>2
  <2>4. \A r \in Requests : steer[r].phase = "asked" => \A j \in ToSet(steer[r].items) : Fresh(j, requeued)
    BY Parts DEF HandedFits
  <2> QED
    BY <1>2, <2>1, <2>2, <2>3, <2>4 DEF HandedFits, Fresh
<1> QED
  BY <1>9, <1>10, <1>11, <1>12, <1>13, <1>14, <1>15, <1>16 DEF Fits, IInv

LEMMA StartNowFits ==
    ASSUME IInv, TypeOK', phase = "up", NEW s \in Sends, NEW i \in Ids, StartNow(s, i),
           status[i] \in {"free", "posting"}, status[i] = "posting" => sendOf[i] = s,
           handed[i] = 0,
           UNCHANGED <<alive, phase, steer, handed, requeued, crossed>>
    PROVE  IInv'
<1> DEFINE t == Home[s]
<1>1. t \in Threads /\ text[t] \in Seq(Ids)
  BY Parts, Elements DEF TypeOK
<1>2. /\ sendOf' = [sendOf EXCEPT ![i] = s]
      /\ status'[i] = "direct" /\ \A j \in Ids \ {i} : status'[j] = status[j]
      /\ turn' = [turn EXCEPT ![t] = "setup"] /\ batch' = [batch EXCEPT ![t] = <<i>>]
      /\ accepted' = accepted \cup {s}
      /\ UNCHANGED <<rows, queue>>
  BY Parts DEF StartNow, TypeOK
<1>3. \A u \in Threads : text'[u] = IF u = t THEN Append(text[t], i) ELSE text[u]
  BY <1>1, Parts DEF StartNow, TypeOK
<1> HIDE DEF t
<1>4. ToSet(Append(text[t], i)) = ToSet(text[t]) \cup {i}
  BY <1>1, AppendSet
<1>5. i \in ToSet(text'[t]) /\ \A u \in Threads : ToSet(text[u]) \subseteq ToSet(text'[u])
  <2>1. ASSUME NEW u \in Threads PROVE ToSet(text[u]) \subseteq ToSet(text'[u])
    <3>1. CASE u = t
      BY <1>3, <1>4, <3>1
    <3>2. CASE u # t
      <4>1. text'[u] = text[u]
        BY <1>3, <3>2
      <4> QED
        BY <4>1
    <3> QED
      BY <3>1, <3>2
  <2> QED
    BY <1>1, <1>3, <1>4, <2>1
<1> QED
  BY <1>2, <1>5, OffLine DEF t

LEMMA StepPost ==
    ASSUME IInv, TypeOK', NEW s \in Sends, NEW i \in Ids, Post(s, i) PROVE IInv'
<1>1. /\ phase = "up" /\ alive[Home[s]] /\ status[i] = "free"
      /\ UNCHANGED <<alive, phase, steer, handed, requeued, crossed>>
  BY DEF Post, NextId
<1>2. handed[i] = 0
  BY <1>1, Parts DEF HandedFits
<1>3. CASE Enqueue(s, i)
  BY <1>1, <1>2, <1>3, EnqueueFits
<1>4. CASE StartNow(s, i)
  BY <1>1, <1>2, <1>4, StartNowFits
<1>5. CASE /\ sendOf' = [sendOf EXCEPT ![i] = s]
           /\ status' = [status EXCEPT ![i] = "posting"]
           /\ UNCHANGED <<rows, text, queue, ahead, turn, batch, accepted>>
  <2>1. status'[i] = "posting" /\ \A j \in Ids \ {i} : status'[j] = status[j]
    BY <1>5, Parts DEF TypeOK
  <2> QED
    BY <1>1, <1>5, <2>1, OffLine
<1> QED
  BY <1>3, <1>4, <1>5 DEF Post, StartOrQueue

LEMMA StepPostAnswered ==
    ASSUME IInv, TypeOK', NEW i \in Ids, NEW o \in Outcomes, PostAnswered(i, o) PROVE IInv'
<1> DEFINE s == sendOf[i]
           t == Home[s]
<1>1. /\ phase = "up" /\ status[i] = "posting" /\ s \in Sends /\ t \in Threads
      /\ text[t] \in Seq(Ids)
      /\ UNCHANGED <<alive, phase, steer, handed, requeued, crossed>>
  BY Parts, Elements DEF PostAnswered, TypeOK
<1>2. CASE /\ status' = [status EXCEPT ![i] = "direct"]
           /\ text' = [text EXCEPT ![t] = Append(@, i)]
           /\ accepted' = accepted \cup {s}
           /\ UNCHANGED <<sendOf, rows, queue, ahead, turn, batch>>
  <2>1. status'[i] = "direct" /\ \A j \in Ids \ {i} : status'[j] = status[j]
    BY <1>2, Parts DEF TypeOK
  <2>2. \A u \in Threads : text'[u] = IF u = t THEN Append(text[t], i) ELSE text[u]
    BY <1>1, <1>2, Parts DEF TypeOK
  <2>3. ToSet(Append(text[t], i)) = ToSet(text[t]) \cup {i}
    BY <1>1, AppendSet
  <2>4. \A u \in Threads : ToSet(text[u]) \subseteq ToSet(text'[u])
    <3>1. ASSUME NEW u \in Threads PROVE ToSet(text[u]) \subseteq ToSet(text'[u])
      <4>1. CASE u = t
        BY <2>2, <2>3, <4>1
      <4>2. CASE u # t
        <5>1. text'[u] = text[u]
          BY <2>2, <4>2
        <5> QED
          BY <5>1
      <4> QED
        BY <4>1, <4>2
    <3> QED
      BY <3>1
  <2>5. i \in ToSet(text'[t])
    BY <1>1, <2>2, <2>3
  <2> QED
    BY <1>1, <1>2, <2>1, <2>4, <2>5, OffLine
<1>3. CASE /\ status' = [status EXCEPT ![i] = IF handed[i] = 1 THEN "bounced" ELSE "gone"]
           /\ UNCHANGED <<sendOf, rows, text, queue, ahead, turn, batch, accepted>>
  <2>1. status'[i] \in {"bounced", "gone"} /\ \A j \in Ids \ {i} : status'[j] = status[j]
    BY <1>3, Parts DEF TypeOK
  <2> QED
    BY <1>1, <1>3, <2>1, OffLine
<1>4. CASE alive[t] /\ handed[i] = 0 /\ Enqueue(s, i)
  BY <1>1, <1>4, EnqueueFits
<1>5. CASE handed[i] = 0 /\ StartNow(s, i)
  BY <1>1, <1>5, StartNowFits
<1> QED
  BY <1>2, <1>3, <1>4, <1>5 DEF PostAnswered, StartOrQueue

\* A thread is deleted with its rows and its lines, after a drain that its
\* cancelled work asked for.
LEMMA StepDeleteThread ==
    ASSUME IInv, TypeOK', NEW t \in Threads, DeleteThread(t) PROVE IInv'
<1>1. PICK failing \in SUBSET Threads :
        LET d == IF t \in coord
                 THEN Drained(failing, queue, ahead, turn, batch, status, text, group, coord')
                 ELSE [queue |-> queue, ahead |-> ahead, turn |-> turn, batch |-> batch,
                       text |-> text, status |-> status]
        IN /\ queue' = d.queue /\ turn' = d.turn /\ batch' = d.batch
           /\ text' = [d.text EXCEPT ![t] = <<>>]
           /\ status' = [i \in Ids |-> IF HomeOf(i) = t /\ status[i] \notin {"free", "posting", "bounced"}
                                       THEN "gone" ELSE d.status[i]]
  BY DEF DeleteThread
<1> DEFINE d == IF t \in coord
                THEN Drained(failing, queue, ahead, turn, batch, status, text, group, coord')
                ELSE [queue |-> queue, ahead |-> ahead, turn |-> turn, batch |-> batch,
                      text |-> text, status |-> status]
<1>0. /\ TypeOK /\ phase = "up" /\ alive[t] /\ alive' = [alive EXCEPT ![t] = FALSE]
      /\ UNCHANGED <<sendOf, rows, phase, steer, handed, accepted, requeued, crossed>>
      /\ queue \in [Threads -> Seq(Ids)] /\ turn \in [Threads -> TurnPhases]
      /\ batch \in [Threads -> Seq(Ids)] /\ status \in [Ids -> Statuses] /\ text \in [Threads -> Seq(Ids)]
      /\ steer \in [Requests -> SteerRecord] /\ ahead \in SUBSET (Threads \X Threads)
  BY Parts DEF DeleteThread, TypeOK
<1>2. /\ queue' = d.queue /\ turn' = d.turn /\ batch' = d.batch
      /\ text' = [d.text EXCEPT ![t] = <<>>]
      /\ status' = [i \in Ids |-> IF HomeOf(i) = t /\ status[i] \notin {"free", "posting", "bounced"}
                                  THEN "gone" ELSE d.status[i]]
  BY <1>1
<1>3. Fits(d.queue, steer, d.turn, d.batch, d.status, d.text, requeued, "up")
  <2>1. Fits(queue, steer, turn, batch, status, text, requeued, "up")
    BY <1>0, Parts
  <2>2. CASE t \in coord
    <3>1. d = Drained(failing, queue, ahead, turn, batch, status, text, group, coord')
      BY <2>2
    <3>2. LET e == Drained(failing, queue, ahead, turn, batch, status, text, group, coord')
          IN Fits(e.queue, steer, e.turn, e.batch, e.status, e.text, requeued, "up")
      BY <1>0, <2>1, DrainFits, ConstantsAssumption
    <3> QED
      BY <3>1, <3>2
  <2>3. CASE t \notin coord
    BY <2>1, <2>3
  <2> QED
    BY <2>2, <2>3
<1>4. d.text \in [Threads -> Seq(Ids)] /\ \A u \in Threads : ToSet(d.queue[u]) \subseteq Ids /\ ToSet(d.batch[u]) \subseteq Ids
  <2>1. /\ d.queue \in [Threads -> Seq(Ids)] /\ d.batch \in [Threads -> Seq(Ids)]
        /\ d.text \in [Threads -> Seq(Ids)]
    BY <1>0, DrainType, ConstantsAssumption
  <2> HIDE DEF d
  <2> QED
    BY <2>1 DEF ToSet
\* A drain touches only words that wait, and a deletion spares none of those.
<1>5. \A i \in Ids : status[i] \in {"free", "posting", "bounced"} => d.status[i] = status[i]
  <2> SUFFICES ASSUME NEW i \in Ids, status[i] \in {"free", "posting", "bounced"}
               PROVE  d.status[i] = status[i]
    OBVIOUS
  <2>1. \A u \in Threads : i \notin ToSet(queue[u])
    BY Parts DEF Homed, Backed, Waits
  <2> QED
    BY <2>1 DEF Drained
<1> HIDE DEF d
<1>6. /\ Homed(d.queue, steer, d.batch, d.status) /\ Once(d.queue, steer)
      /\ Backed(d.queue, steer, d.status, "up")
      /\ RowsFit(d.status) /\ Ordered(d.queue, steer)
      /\ LinesFit(d.status, d.text, "up")
      /\ HandedFits(d.queue, steer, d.turn, d.batch, d.status, requeued, "up")
  BY <1>3 DEF Fits
<1>7. /\ \A u \in Threads : alive'[u] <=> (alive[u] /\ u # t)
      /\ \A u \in Threads : text'[u] = IF u = t THEN <<>> ELSE d.text[u]
      /\ \A i \in Ids : HomeOf(i)' = HomeOf(i) /\ HomeOf(i) \in Threads
  <2>1. \A u \in Threads : alive'[u] <=> (alive[u] /\ u # t)
    BY <1>0 DEF TypeOK
  <2>2. \A u \in Threads : text'[u] = IF u = t THEN <<>> ELSE d.text[u]
    BY <1>2, <1>4
  <2>3. \A i \in Ids : HomeOf(i)' = HomeOf(i) /\ HomeOf(i) \in Threads
    BY <1>0, Elements DEF HomeOf
  <2> QED
    BY <2>1, <2>2, <2>3
<1>8. \A i \in Ids : \/ status'[i] = "gone" /\ HomeOf(i) = t
                     \/ /\ status'[i] = d.status[i]
                        /\ HomeOf(i) = t => d.status[i] \in {"free", "posting", "bounced"}
  BY <1>2, <1>5
<1>9. Homed(queue, steer, batch, status)'
  <2>1. \A u \in Threads : \A i \in ToSet(d.queue[u]) : HomeOf(i)' = u
    BY <1>4, <1>6, <1>7 DEF Homed
  <2>2. \A r \in Requests : \A i \in ToSet(steer[r].items) : HomeOf(i)' = steer[r].thread
    BY <1>6, <1>7, Parts, Elements DEF Homed
  <2>3. ASSUME NEW u \in Threads, NEW i \in ToSet(d.batch[u]) PROVE HomeOf(i)' = u /\ status'[i] # "free"
    <3>1. i \in Ids /\ HomeOf(i) = u /\ d.status[i] # "free"
      BY <1>4, <1>6 DEF Homed
    <3> QED
      BY <1>7, <1>8, <3>1
  <2> QED
    BY <1>0, <1>2, <2>1, <2>2, <2>3 DEF Homed
<1>10. Once(queue, steer)'
  <2>1. \A r \in Requests : \A i \in ToSet(steer[r].items) : i \notin ToSet(d.queue[HomeOf(i)'])
    BY <1>6, <1>7, Parts, Elements DEF Once
  <2> QED
    BY <1>0, <1>2, <1>6, <2>1 DEF Once
<1>11. Backed(queue, steer, status, phase)'
  <2>1. ASSUME NEW i \in Ids PROVE Waits(i, queue, steer)' <=> Waits(i, d.queue, steer)
    BY <1>0, <1>2, <1>7 DEF Waits
  <2>2. ASSUME NEW i \in Ids, Waits(i, d.queue, steer)
        PROVE  status'[i] \in {"pending", "gone"} /\ (alive'[HomeOf(i)] => status'[i] = "pending")
    BY <1>6, <1>7, <1>8, <2>2 DEF Backed
  <2>3. ASSUME NEW i \in Ids, status'[i] = "pending"
        PROVE  alive'[HomeOf(i)] /\ Waits(i, d.queue, steer)
    BY <1>6, <1>7, <1>8, <2>3 DEF Backed
  <2> QED
    BY <1>7, <2>1, <2>2, <2>3 DEF Backed
<1>12. RowsFit(status)'
  <2>1. \A i \in ToSet(rows) : i \in Ids /\ d.status[i] \notin {"free", "posting"}
    BY <1>6, Parts, Elements DEF RowsFit
  <2>2. \A i \in ToSet(rows) : status'[i] \notin {"free", "posting"}
    BY <1>8, <2>1
  <2>3. \A i \in Ids : status'[i] = "pending" => i \in ToSet(rows)
    BY <1>6, <1>8 DEF RowsFit
  <2> QED
    BY <1>0, <1>6, <2>2, <2>3 DEF RowsFit
<1>13. Ordered(queue, steer)'
  <2>1. ASSUME NEW u \in Threads \ crossed PROVE InOrder(queue[u])'
    <3>1. InOrder(d.queue[u])
      BY <1>6 DEF Ordered
    <3> QED
      BY <1>0, <1>2, <3>1 DEF InOrder, Before
  <2>2. ASSUME NEW u \in Threads \ crossed, NEW r \in Requests, steer[r].phase # "none", steer[r].thread = u
        PROVE  InOrder(steer[r].items)'
    <3>1. InOrder(steer[r].items)
      BY <1>6, <2>2 DEF Ordered
    <3>2. steer' = steer /\ rows' = rows
      BY <1>0
    <3> QED
      BY <3>1, <3>2 DEF InOrder, Before
  <2>3. ASSUME NEW u \in Threads \ crossed, NEW r \in Requests, steer[r].phase # "none", steer[r].thread = u,
               NEW x \in ToSet(steer[r].items), NEW y \in ToSet(d.queue[u])
        PROVE  Before(x, y)'
    <3>1. Before(x, y)
      BY <1>6, <2>3 DEF Ordered
    <3> QED
      BY <1>0, <3>1 DEF Before
  <2>4. \A u \in Threads \ crossed, r \in Requests : steer[r].phase # "none" /\ steer[r].thread = u =>
            \A p \in Requests \ {r} : steer[p].phase # "none" => steer[p].thread # u
    BY <1>6 DEF Ordered
  <2> QED
    BY <1>0, <1>2, <2>1, <2>2, <2>3, <2>4 DEF Ordered
<1>14. Booting(queue, steer, turn, status, phase)'
  BY <1>0 DEF Booting
<1>15. LinesFit(status, text, phase)'
  <2>1. ASSUME NEW i \in Ids, status'[i] = "dispatching" PROVE i \in ToSet(text'[HomeOf(i)'])
    <3>1. d.status[i] = "dispatching" /\ HomeOf(i) # t
      BY <1>8, <2>1
    <3>2. i \in ToSet(d.text[HomeOf(i)])
      BY <1>6, <3>1 DEF LinesFit
    <3> QED
      BY <1>7, <3>1, <3>2
  <2>2. ASSUME NEW s \in accepted, alive'[Home[s]]
        PROVE  \E i \in Ids : /\ sendOf[i] = s /\ status'[i] # "free"
                              /\ \/ status'[i] \in {"pending", "dispatching", "interrupted", "cancelled"}
                                 \/ i \in ToSet(text'[Home[s]])
    <3>1. s \in Sends /\ Home[s] \in Threads
      BY Parts, Elements DEF TypeOK
    <3>2. alive[Home[s]] /\ Home[s] # t
      BY <1>7, <2>2, <3>1
    <3>3. PICK i \in Ids : /\ sendOf[i] = s /\ d.status[i] # "free"
                           /\ \/ d.status[i] \in {"pending", "dispatching", "interrupted", "cancelled"}
                              \/ i \in ToSet(d.text[Home[s]])
      BY <1>6, <3>2 DEF LinesFit
    <3>4. HomeOf(i) = Home[s]
      BY <3>3 DEF HomeOf
    <3>5. status'[i] = d.status[i] /\ text'[Home[s]] = d.text[Home[s]]
      BY <1>7, <1>8, <3>1, <3>2, <3>4
    <3> QED
      BY <3>3, <3>5
  <2> QED
    BY <1>0, <2>1, <2>2 DEF LinesFit
<1>16. HandedFits(queue, steer, turn, batch, status, requeued, phase)'
  <2>1. ASSUME NEW u \in Threads, d.turn[u] = "setup", alive'[u], NEW i \in ToSet(d.batch[u])
        PROVE  status'[i] \in {"direct", "dispatching"} /\ Fresh(i, requeued)
    <3>1. u # t /\ i \in Ids /\ HomeOf(i) = u
      BY <1>4, <1>6, <1>7, <2>1 DEF Homed
    <3>2. d.status[i] \in {"direct", "dispatching"} /\ Fresh(i, requeued)
      BY <1>6, <1>7, <2>1 DEF HandedFits
    <3> QED
      BY <1>8, <3>1, <3>2
  <2>2. \A i \in Ids : (handed[i] > 1 => i \in requeued) /\ (status'[i] = "free" => handed[i] = 0)
    BY <1>6, <1>8 DEF HandedFits
  <2>3. /\ \A u \in Threads : \A i \in ToSet(d.queue[u]) : Fresh(i, requeued)
        /\ \A r \in Requests : steer[r].phase = "asked" => \A i \in ToSet(steer[r].items) : Fresh(i, requeued)
    BY <1>6 DEF HandedFits
  <2> QED
    BY <1>0, <1>2, <2>1, <2>2, <2>3 DEF HandedFits, Fresh
<1> QED
  BY <1>9, <1>10, <1>11, <1>12, <1>13, <1>14, <1>15, <1>16 DEF Fits, IInv

-----------------------------------------------------------------------------
(* The theorem.                                                              *)

LEMMA InitFits == ASSUME Init PROVE IInv
<1>1. TypeOK
  BY TypeInit
<1>2. /\ \A t \in Threads : queue[t] = <<>> /\ batch[t] = <<>> /\ turn[t] = "idle"
      /\ \A r \in Requests : steer[r] = NoSteer
      /\ \A i \in Ids : status[i] = "free" /\ handed[i] = 0
      /\ rows = <<>> /\ accepted = {} /\ phase = "up"
  BY DEF Init
<1>3. NoSteer.phase = "none" /\ NoSteer.items = <<>>
  BY DEF NoSteer
<1>4. /\ \A t \in Threads : ToSet(queue[t]) = {} /\ ToSet(batch[t]) = {}
      /\ \A r \in Requests : ToSet(steer[r].items) = {} /\ steer[r].phase = "none" /\ steer[r].items = <<>>
      /\ ToSet(rows) = {}
  BY <1>2, <1>3, EmptySet
<1>5. Homed(queue, steer, batch, status)
  BY <1>4 DEF Homed
<1>6. Once(queue, steer)
  BY <1>2, <1>4, EmptyInOrder DEF Once
<1>7. Backed(queue, steer, status, phase)
  <2>1. \A i \in Ids : ~Waits(i, queue, steer)
    BY <1>1, <1>4, Elements DEF Waits
  <2> QED
    BY <1>2, <2>1 DEF Backed
<1>8. RowsFit(status)
  BY <1>2, <1>4, EmptyInOrder DEF RowsFit
<1>9. Ordered(queue, steer)
  BY <1>2, <1>4, EmptyInOrder DEF Ordered
<1>10. Booting(queue, steer, turn, status, phase)
  BY <1>2 DEF Booting
<1>11. LinesFit(status, text, phase)
  BY <1>2 DEF LinesFit
<1>12. HandedFits(queue, steer, turn, batch, status, requeued, phase)
  BY <1>2, <1>4 DEF HandedFits
<1> QED
  BY <1>1, <1>5, <1>6, <1>7, <1>8, <1>9, <1>10, <1>11, <1>12 DEF Fits, IInv

LEMMA StepFits == ASSUME IInv, [Next]_vars PROVE IInv'
<1>1. TypeOK'
  BY TypeStep, Parts
<1>2. CASE UNCHANGED vars
  BY <1>1, <1>2, Untouched DEF vars, durable, memory
<1>3. CASE Next
  BY <1>1, <1>3, StepPost, StepPostTaken, StepPostAnswered, StepCancel, StepHoldAndAsk,
     StepHoldRefused, StepHeldTaken, StepHeldAnswered, StepCallAdapter, StepDispatchAcked,
     StepTurnCompleted, StepSetupEnds, StepGroupTurnStarts, StepGroupTurnEnds,
     StepWorkHandedOut, StepWorkReturned, StepDeleteThread, StepCrash, StepCrashInDrain,
     StepCrashInSteer, StepRecover, StepRestore, StepListen DEF Next
<1> QED
  BY <1>2, <1>3

\* The invariant says what a reader of the queue wants to know.
LEMMA FitsKeeps == ASSUME IInv PROVE WordsAreKept
<1>1. ASSUME NEW i \in Ids PROVE Queued(i) <=> i \in ToSet(queue[HomeOf(i)])
  BY Parts, Elements DEF Queued, Homed
<1>2. ASSUME NEW i \in Ids PROVE Waits(i, queue, steer) <=> Queued(i) \/ Held(i)
  BY <1>1 DEF Waits, Held
<1>3. PendingRowsAreHeldSomewhere
  BY <1>2, Parts DEF PendingRowsAreHeldSomewhere, Backed
<1>4. AcknowledgedNotLost
  <2> SUFFICES ASSUME NEW s \in accepted, alive[Home[s]]
               PROVE  \E i \in IdsOf(s) :
                         \/ status[i] \in {"pending", "dispatching", "interrupted", "cancelled"}
                         \/ i \in ToSet(text[Home[s]])
    BY DEF AcknowledgedNotLost
  <2>1. PICK i \in Ids : /\ sendOf[i] = s /\ status[i] # "free"
                         /\ \/ status[i] \in {"pending", "dispatching", "interrupted", "cancelled"}
                            \/ i \in ToSet(text[Home[s]])
    BY Parts DEF LinesFit
  <2> QED
    BY <2>1 DEF IdsOf
<1>5. WaitsOnce
  <2>1. \A i \in Ids : ~(Queued(i) /\ Held(i))
    BY <1>1, Parts DEF Held, Once
  <2>2. \A r1, r2 \in Requests : r1 # r2 => ToSet(steer[r1].items) \cap ToSet(steer[r2].items) = {}
    BY Parts DEF Once
  <2>3. \A t \in Threads : IsInjective(queue[t])
    BY Parts DEF Once
  <2> QED
    BY <2>1, <2>2, <2>3 DEF WaitsOnce
<1>6. QueuesInOrder
  <2>1. \A t \in Threads \ crossed : InOrder(queue[t])
    BY Parts DEF Ordered
  <2> QED
    BY <2>1 DEF QueuesInOrder, InOrder, IsSorted
<1>7. HandedTwiceOnlyIfRequeued
  BY Parts DEF HandedFits, HandedTwiceOnlyIfRequeued
<1> QED
  BY <1>3, <1>4, <1>5, <1>6, <1>7 DEF WordsAreKept

\* Waiting words are neither lost, nor doubled, nor reordered, in any
\* interleaving of sends, steers, cancels, turns, deletions and crashes.
THEOREM WordsKept == Spec => []WordsAreKept
<1>1. Init => IInv
  BY InitFits
<1>2. IInv /\ [Next]_vars => IInv'
  BY StepFits
<1>3. IInv => WordsAreKept
  BY FitsKeeps
<1> QED
  BY <1>1, <1>2, <1>3, PTL DEF Spec
-----------------------------------------------------------------------------
(* The slots of the bot.  The threads that wait form a line, and a drain     *)
(* starts a prefix of those in it that may start.                            *)

Line(q, ah) ==
    \A t, u \in Waiting(q) :
        /\ <<t, t>> \notin ah
        /\ t # u => <<t, u>> \in ah \/ <<u, t>> \in ah
        /\ \A v \in Waiting(q) : <<t, u>> \in ah /\ <<u, v>> \in ah => <<t, v>> \in ah

\* A non-empty set of numbers has a least one.
LEMMA LeastOfNat ==
    ASSUME NEW T, T \subseteq Nat, T # {}
    PROVE  \E m \in T : \A n \in T : m <= n
<1>1. \E m \in T : \A n \in T : ~ (<<n, m>> \in OpToRel(<, Nat))
  BY NatLessThanWellFounded, WFMin
<1>2. \A m, n \in Nat : n < m => <<n, m>> \in OpToRel(<, Nat)
  BY DEF OpToRel
<1>3. PICK m \in T : \A n \in T : ~ (<<n, m>> \in OpToRel(<, Nat))
  BY <1>1
<1>4. \A n \in T : ~ (n < m)
  BY <1>2, <1>3
<1> QED
  BY <1>4

\* In a non-empty finite set of threads that may start, one has the fewest
\* before it in the line, and one has the most.
Earlier(t, failing, q, ah, tn, gr, co) ==
    {u \in Threads \ failing : <<u, t>> \in ah /\ MayStart(u, q, tn, gr, co)}

LEMMA FewestEarlier ==
    ASSUME ConstantsAssumption, NEW N \in SUBSET Threads, N # {},
           NEW failing, NEW q, NEW ah, NEW tn, NEW gr, NEW co
    PROVE  \E t \in N : \A u \in N : Cardinality(Earlier(t, failing, q, ah, tn, gr, co))
                                       <= Cardinality(Earlier(u, failing, q, ah, tn, gr, co))
<1> DEFINE E(t) == Cardinality(Earlier(t, failing, q, ah, tn, gr, co))
           T == {E(t) : t \in N}
<1>1. \A t \in N : E(t) \in Nat
  BY FS_Subset, FS_CardinalityType DEF ConstantsAssumption, Earlier
<1> HIDE DEF E
<1>2. PICK m \in T : \A n \in T : m <= n
  <2>1. T \subseteq Nat /\ T # {}
    BY <1>1
  <2> HIDE DEF T
  <2> QED
    BY <2>1, LeastOfNat
<1>3. PICK t \in N : E(t) = m
  BY <1>2
<1>4. \A u \in N : E(t) <= E(u)
  BY <1>2, <1>3
<1> QED
  BY <1>4 DEF E

LEMMA MostEarlier ==
    ASSUME ConstantsAssumption, NEW N \in SUBSET Threads, N # {},
           NEW failing, NEW q, NEW ah, NEW tn, NEW gr, NEW co
    PROVE  \E t \in N : \A u \in N : Cardinality(Earlier(u, failing, q, ah, tn, gr, co))
                                       <= Cardinality(Earlier(t, failing, q, ah, tn, gr, co))
<1> DEFINE E(t) == Cardinality(Earlier(t, failing, q, ah, tn, gr, co))
           C == Cardinality(Threads)
           T == {C - E(t) : t \in N}
<1>1. C \in Nat /\ \A t \in N : E(t) \in Nat /\ E(t) <= C
  <2>1. \A t \in N : Earlier(t, failing, q, ah, tn, gr, co) \in SUBSET Threads
    BY DEF Earlier
  <2> QED
    BY <2>1, FS_Subset, FS_CardinalityType DEF ConstantsAssumption
<1> HIDE DEF E, C
<1>2. PICK m \in T : \A n \in T : m <= n
  <2>1. T \subseteq Nat /\ T # {}
    BY <1>1
  <2> HIDE DEF T
  <2> QED
    BY <2>1, LeastOfNat
<1>3. PICK t \in N : C - E(t) = m
  BY <1>2
<1>4. \A u \in N : E(u) <= E(t)
  BY <1>1, <1>2, <1>3
<1> QED
  BY <1>4 DEF E

\* Whoever stands earlier in the line has fewer before it.
LEMMA EarlierGrows ==
    ASSUME ConstantsAssumption, NEW failing, NEW q, NEW ah, NEW tn, NEW gr, NEW co,
           Line(q, ah), NEW t \in Waiting(q), NEW u \in Earlier(t, failing, q, ah, tn, gr, co)
    PROVE  /\ Cardinality(Earlier(u, failing, q, ah, tn, gr, co)) \in Nat
           /\ Cardinality(Earlier(t, failing, q, ah, tn, gr, co)) \in Nat
           /\ Cardinality(Earlier(u, failing, q, ah, tn, gr, co))
                < Cardinality(Earlier(t, failing, q, ah, tn, gr, co))
<1> DEFINE E(v) == Earlier(v, failing, q, ah, tn, gr, co)
<1>0. \A v \in Threads : IsFiniteSet(E(v)) /\ Cardinality(E(v)) \in Nat
  <2>1. \A v \in Threads : E(v) \in SUBSET Threads
    BY DEF Earlier
  <2> QED
    BY <2>1, FS_Subset, FS_CardinalityType DEF ConstantsAssumption
<1>1. u \in Threads /\ t \in Threads /\ u \in Waiting(q)
  BY DEF Earlier, Waiting, MayStart
<1>2. u \notin E(u)
  BY <1>1 DEF Line, Earlier
<1>3. E(u) \subseteq E(t)
  <2> SUFFICES ASSUME NEW v \in E(u) PROVE v \in E(t)
    OBVIOUS
  <2>1. v \in Waiting(q) /\ v \in Threads \ failing /\ <<v, u>> \in ah /\ <<u, t>> \in ah
        /\ MayStart(v, q, tn, gr, co)
    BY DEF Earlier, Waiting, MayStart
  <2>2. <<v, t>> \in ah
    BY <1>1, <2>1 DEF Line
  <2> QED
    BY <2>1, <2>2 DEF Earlier
<1>4. E(u) \cup {u} \in SUBSET E(t)
  BY <1>3
<1>5. Cardinality(E(u) \cup {u}) = Cardinality(E(u)) + 1
  BY <1>0, <1>1, <1>2, FS_AddElement
<1>6. Cardinality(E(u) \cup {u}) <= Cardinality(E(t))
  BY <1>0, <1>1, <1>4, FS_Subset
<1> QED
  BY <1>0, <1>1, <1>5, <1>6

\* A drain leaves a line, keeps to the limit, and leaves nobody waiting who
\* may start while a slot is free.
LEMMA DrainSlots ==
    ASSUME ConstantsAssumption, NEW failing \in SUBSET Threads,
           NEW q, NEW ah \in SUBSET (Threads \X Threads), NEW tn \in [Threads -> TurnPhases],
           NEW bt, NEW st, NEW tx, NEW gr, NEW co,
           alive \in [Threads -> BOOLEAN], Line(q, ah),
           Cardinality(Occupied(tn)) <= Capacity,
           \A t \in failing : Fires(t, failing, q, ah, tn, gr, co)
    PROVE  LET d == Drained(failing, q, ah, tn, bt, st, tx, gr, co)
           IN /\ Line(d.queue, d.ahead)
              /\ Cardinality(Occupied(d.turn)) <= Capacity
              /\ \A t \in Threads : MayStart(t, d.queue, d.turn, gr, co) =>
                    AtCapacity(d.turn) /\ MayStart(t, q, tn, gr, co)
<1> DEFINE d == Drained(failing, q, ah, tn, bt, st, tx, gr, co)
           May(t) == MayStart(t, q, tn, gr, co)
           E(t) == Earlier(t, failing, q, ah, tn, gr, co)
           O == Occupied(tn)
           fires == {t \in Threads : Fires(t, failing, q, ah, tn, gr, co)}
           starts == fires \ failing
           left == fires \cup {t \in Threads : ~alive[t]}
<1>1. \A t \in Threads : Fires(t, failing, q, ah, tn, gr, co) <=> May(t) /\ Cardinality(E(t)) + Cardinality(O) < Capacity
  BY DEF Fires, Earlier
<1>2. /\ d.queue = [t \in Threads |-> IF t \in left THEN <<>> ELSE q[t]]
      /\ d.ahead = {p \in ah : p[1] \notin left /\ p[2] \notin left}
      /\ d.turn = [t \in Threads |-> IF t \in starts THEN "setup" ELSE tn[t]]
  BY DEF Drained, Claimed
<1>3. \A t \in Threads : May(t) => t \in Waiting(q) /\ alive[t] /\ tn[t] = "idle"
  BY DEF MayStart, Waiting
<1>4. Capacity \in Nat /\ IsFiniteSet(O) /\ Cardinality(O) \in Nat
      /\ IsFiniteSet(starts) /\ Cardinality(starts) \in Nat
      /\ \A t \in Threads : IsFiniteSet(E(t)) /\ Cardinality(E(t)) \in Nat
  <2>1. O \in SUBSET Threads /\ starts \in SUBSET Threads /\ \A t \in Threads : E(t) \in SUBSET Threads
    BY DEF Occupied, Earlier
  <2> QED
    BY <2>1, FS_Subset, FS_CardinalityType DEF ConstantsAssumption
<1>5. Occupied(d.turn) = O \cup starts /\ O \cap starts = {}
  <2> HIDE DEF d
  <2>1. \A t \in starts : t \in Threads /\ May(t)
    BY <1>1
  <2> HIDE DEF starts
  <2>2. \A t \in Threads : t \in Occupied(d.turn) <=> t \in O \/ t \in starts
    BY <1>2, <1>3, <2>1 DEF Occupied
  <2>3. \A t \in starts : t \notin O
    BY <1>3, <2>1 DEF Occupied
  <2> QED
    BY <2>1, <2>2, <2>3 DEF Occupied
<1>6. /\ IsFiniteSet(Occupied(d.turn))
      /\ Cardinality(Occupied(d.turn)) = Cardinality(O) + Cardinality(starts)
  <2> HIDE DEF d, O, starts
  <2>1. /\ IsFiniteSet(O \cup starts)
        /\ Cardinality(O \cup starts) = Cardinality(O) + Cardinality(starts) - Cardinality(O \cap starts)
    BY <1>4, FS_Union
  <2>2. Cardinality(O \cap starts) = 0
    BY <1>5, FS_EmptySet
  <2> QED
    BY <1>4, <1>5, <2>1, <2>2
<1> HIDE DEF d, O, starts, fires, left, E
<1>7. Cardinality(Occupied(d.turn)) <= Capacity
  <2>1. CASE starts = {}
    BY <1>4, <1>6, <2>1, FS_EmptySet DEF O
  <2>2. CASE starts # {}
    <3>1. starts \in SUBSET Threads
      BY DEF starts, fires
    <3>2. PICK t \in starts : \A u \in starts : Cardinality(E(u)) <= Cardinality(E(t))
      BY <2>2, <3>1, MostEarlier DEF E
    <3>3. \A u \in starts : /\ u \in Threads /\ u \notin failing /\ May(u) /\ u \in Waiting(q)
                            /\ Cardinality(E(u)) + Cardinality(O) < Capacity
      BY <1>1, <1>3 DEF starts, fires
    <3>4. starts \subseteq E(t) \cup {t}
      <4> SUFFICES ASSUME NEW u \in starts, u # t PROVE u \in E(t)
        OBVIOUS
      <4>1. <<u, t>> \in ah \/ <<t, u>> \in ah
        BY <3>3 DEF Line
      <4>2. CASE <<t, u>> \in ah
        <5>1. t \in E(u)
          BY <3>3, <4>2 DEF E, Earlier
        <5>2. Cardinality(E(t)) < Cardinality(E(u))
          BY <3>3, <5>1, EarlierGrows DEF E
        <5> QED
          BY <1>4, <3>2, <3>3, <5>2
      <4>3. CASE <<u, t>> \in ah
        BY <3>3, <4>3 DEF E, Earlier
      <4> QED
        BY <4>1, <4>2, <4>3
    <3>5. IsFiniteSet(E(t) \cup {t}) /\ Cardinality(E(t) \cup {t}) <= Cardinality(E(t)) + 1
      <4>1. t \in Threads /\ IsFiniteSet(E(t)) /\ Cardinality(E(t)) \in Nat
        BY <1>4, <3>3
      <4>2. IsFiniteSet(E(t) \cup {t})
            /\ Cardinality(E(t) \cup {t}) = IF t \in E(t) THEN Cardinality(E(t)) ELSE Cardinality(E(t)) + 1
        BY <4>1, FS_AddElement
      <4> QED
        BY <4>1, <4>2
    <3>6. Cardinality(starts) <= Cardinality(E(t) \cup {t})
      BY <3>4, <3>5, FS_Subset
    <3>7. Cardinality(E(t) \cup {t}) \in Nat
      BY <3>5, FS_CardinalityType
    <3>8. Cardinality(E(t)) + Cardinality(O) < Capacity /\ Cardinality(E(t)) \in Nat
      BY <1>4, <3>3
    <3> QED
      BY <1>4, <1>6, <3>5, <3>6, <3>7, <3>8
  <2> QED
    BY <2>1, <2>2
<1>8. ASSUME NEW t \in Threads, MayStart(t, d.queue, d.turn, gr, co)
      PROVE  AtCapacity(d.turn) /\ May(t)
  <2>1. ASSUME NEW u \in Threads, MayStart(u, d.queue, d.turn, gr, co)
        PROVE  u \notin fires /\ May(u)
    <3>1. d.queue[u] # <<>> /\ alive[u] /\ d.turn[u] = "idle" /\ ~gr /\ ~Parks(u, co)
      BY <2>1 DEF MayStart
    <3>2. u \notin left /\ q[u] # <<>> /\ tn[u] = "idle"
      BY <1>2, <3>1
    <3> QED
      BY <3>1, <3>2 DEF MayStart, left
  <2> DEFINE N == {u \in Threads : May(u) /\ u \notin fires}
  <2>2. t \in N
    BY <1>8, <2>1
  <2>3. PICK v \in N : \A u \in N : Cardinality(E(v)) <= Cardinality(E(u))
    <3>1. N \in SUBSET Threads /\ N # {}
      BY <2>2
    <3> HIDE DEF N
    <3> QED
      BY <3>1, FewestEarlier DEF E
  <2>4. v \in Threads /\ May(v) /\ v \in Waiting(q) /\ Cardinality(E(v)) + Cardinality(O) >= Capacity
    BY <1>1, <1>3, <1>4 DEF fires
  <2>5. E(v) \subseteq starts
    <3> SUFFICES ASSUME NEW u \in E(v) PROVE u \in starts
      OBVIOUS
    <3>1. u \in Threads /\ u \notin failing /\ May(u)
      BY DEF E, Earlier
    <3>2. Cardinality(E(u)) < Cardinality(E(v)) /\ Cardinality(E(u)) \in Nat /\ Cardinality(E(v)) \in Nat
      BY <2>4, EarlierGrows DEF E
    <3>3. u \notin N
      BY <2>3, <3>2
    <3> QED
      BY <3>1, <3>3 DEF starts
  <2>6. Cardinality(E(v)) <= Cardinality(starts)
    BY <1>4, <2>5, FS_Subset
  <2>7. Cardinality(Occupied(d.turn)) >= Capacity
    <3>1. Cardinality(E(v)) \in Nat
      BY <1>4, <2>4
    <3> QED
      BY <1>4, <1>6, <2>4, <2>6, <3>1
  <2> QED
    BY <1>8, <2>1, <2>7 DEF AtCapacity
<1>9. Line(d.queue, d.ahead)
  <2>1. \A u \in Waiting(d.queue) : u \in Threads /\ u \notin left /\ u \in Waiting(q)
    BY <1>2 DEF Waiting
  <2>2. \A u, v \in Threads : u \notin left /\ v \notin left => (<<u, v>> \in d.ahead <=> <<u, v>> \in ah)
    BY <1>2
  <2> QED
    BY <2>1, <2>2 DEF Line
<1> QED
  BY <1>7, <1>8, <1>9 DEF d

\* Every step keeps the line, the limit, and that nobody waits in vain.
SlotsInv == TypeOK /\ Line(queue, ahead) /\ CapacityWellUsed

\* A drain by a caller that leaves the threads alive as they were.
LEMMA DrainKeepsSlots ==
    ASSUME ConstantsAssumption, TypeOK, NEW q,
           NEW ah \in SUBSET (Threads \X Threads), NEW tn \in [Threads -> TurnPhases],
           NEW bt, NEW st, NEW tx, Line(q, ah),
           Cardinality(Occupied(tn)) <= Capacity, alive' = alive,
           Drain(q, ah, tn, bt, st, tx, group', coord')
    PROVE  Line(queue, ahead)' /\ CapacityWellUsed'
<1>1. PICK failing \in SUBSET Threads :
        LET d == Drained(failing, q, ah, tn, bt, st, tx, group', coord')
        IN /\ \A t \in failing : Fires(t, failing, q, ah, tn, group', coord')
           /\ queue' = d.queue /\ ahead' = d.ahead /\ turn' = d.turn
  BY Zenon DEF Drain
<1> DEFINE d == Drained(failing, q, ah, tn, bt, st, tx, group', coord')
<1>2. alive \in [Threads -> BOOLEAN]
  BY DEF TypeOK
<1>3. /\ Line(d.queue, d.ahead) /\ Cardinality(Occupied(d.turn)) <= Capacity
      /\ \A t \in Threads : MayStart(t, d.queue, d.turn, group', coord') => AtCapacity(d.turn)
  BY <1>1, <1>2, DrainSlots
<1>4. queue' = d.queue /\ ahead' = d.ahead /\ turn' = d.turn
  BY <1>1
<1> HIDE DEF d
<1>5. /\ Line(queue', ahead') /\ Cardinality(Occupied(turn')) <= Capacity
      /\ \A t \in Threads : MayStart(t, queue', turn', group', coord') => AtCapacity(turn')
  BY <1>3, <1>4 DEF Line, Waiting
<1>6. Line(queue, ahead)'
  BY <1>5 DEF Line, Waiting
<1>7. Occupied(turn') = Occupied(turn)'
  BY DEF Occupied
<1>8. \A t \in Threads : MayStart(t, queue, turn, group, coord)' <=> MayStart(t, queue', turn', group', coord')
  BY DEF MayStart, Parks
<1> QED
  BY <1>5, <1>6, <1>7, <1>8 DEF CapacityWellUsed, NothingStranded, CapacityRespected, Occupied, AtCapacity

\* A thread that joins the line, or joins it again, stands at its end.
LEMMA LineAtTheEnd ==
    ASSUME NEW q, NEW ah, Line(q, ah), NEW t \in Threads,
           NEW left, Waiting(left) \subseteq Waiting(q) \cup {t}
    PROVE  Line(left, AtTheEnd(ah, q, t))
<1> DEFINE e == AtTheEnd(ah, q, t)
<1>1. \A u, v \in Waiting(q) \cup {t} : u # t /\ v # t => (<<u, v>> \in e <=> <<u, v>> \in ah)
  BY DEF AtTheEnd
<1>2. \A u \in Waiting(q) \cup {t} : u # t => <<u, t>> \in e
  BY DEF AtTheEnd
<1>3. \A u \in Waiting(q) \cup {t} : <<t, u>> \notin e
  BY DEF AtTheEnd
<1> HIDE DEF e
<1>4. SUFFICES Line(left, e)
  BY DEF e
<1>5. SUFFICES ASSUME NEW u \in Waiting(left), NEW v \in Waiting(left)
               PROVE  /\ <<u, u>> \notin e
                      /\ u # v => <<u, v>> \in e \/ <<v, u>> \in e
                      /\ \A w \in Waiting(left) : <<u, v>> \in e /\ <<v, w>> \in e => <<u, w>> \in e
  BY DEF Line
<1>6. <<u, u>> \notin e
  <2>1. CASE u = t
    BY <1>3, <2>1
  <2>2. CASE u # t
    <3>1. u \in Waiting(q)
      BY <2>2
    <3> QED
      BY <1>1, <2>2, <3>1 DEF Line
  <2> QED
    BY <2>1, <2>2
<1>7. u # v => <<u, v>> \in e \/ <<v, u>> \in e
  <2>1. CASE u # t /\ v # t
    <3>1. u \in Waiting(q) /\ v \in Waiting(q)
      BY <2>1
    <3> QED
      BY <1>1, <2>1, <3>1 DEF Line
  <2> QED
    BY <1>2, <2>1
<1>8. ASSUME NEW w \in Waiting(left), <<u, v>> \in e, <<v, w>> \in e PROVE <<u, w>> \in e
  <2>1. u # t /\ v # t
    BY <1>3, <1>8
  <2>2. CASE w = t
    BY <1>2, <2>1, <2>2
  <2>3. CASE w # t
    <3>1. u \in Waiting(q) /\ v \in Waiting(q) /\ w \in Waiting(q)
      BY <2>1, <2>3
    <3>2. <<u, v>> \in ah /\ <<v, w>> \in ah
      BY <1>1, <1>8, <2>1, <2>3, <3>1
    <3>3. <<u, w>> \in ah
      BY <3>1, <3>2 DEF Line
    <3> QED
      BY <1>1, <2>1, <2>3, <3>1, <3>3
  <2> QED
    BY <2>2, <2>3
<1> QED
  BY <1>6, <1>7, <1>8

\* A line that nobody joins.
LEMMA LineShrinks ==
    ASSUME NEW q, NEW ah, Line(q, ah), NEW left, NEW rest, Waiting(left) \subseteq Waiting(q),
           \A u, v \in Waiting(left) : <<u, v>> \in rest <=> <<u, v>> \in ah
    PROVE  Line(left, rest)
BY DEF Line

LEMMA LinePrime == Line(queue, ahead)' <=> Line(queue', ahead')
BY DEF Line, Waiting

\* A step that starts and ends no turn, and lets nobody start but when the
\* limit is reached.
LEMMA QuietSlots ==
    ASSUME ConstantsAssumption, SlotsInv, Line(queue', ahead'), UNCHANGED <<turn, alive>>,
           phase' = "up" => phase = "up",
           \A t \in Threads : MayStart(t, queue', turn, group', coord') =>
               MayStart(t, queue, turn, group, coord) \/ AtCapacity(turn)
    PROVE  Line(queue, ahead)' /\ CapacityWellUsed'
<1>1. Occupied(turn)' = Occupied(turn) /\ AtCapacity(turn)' = AtCapacity(turn)
  BY DEF Occupied, AtCapacity
<1>2. \A t \in Threads : MayStart(t, queue, turn, group, coord)' <=> MayStart(t, queue', turn, group', coord')
  BY DEF MayStart, Parks
<1>3. CapacityRespected'
  BY <1>1 DEF SlotsInv, CapacityWellUsed, CapacityRespected, Occupied
<1>4. NothingStranded'
  BY <1>1, <1>2 DEF SlotsInv, CapacityWellUsed, NothingStranded
<1> QED
  BY <1>3, <1>4, LinePrime DEF CapacityWellUsed

\* The same when the queue, the line, the room and the parked threads stay.
LEMMA IdleSlots ==
    ASSUME ConstantsAssumption, SlotsInv, UNCHANGED <<queue, ahead, turn, alive, group, coord, phase>>
    PROVE  Line(queue, ahead)' /\ CapacityWellUsed'
<1>1. Line(queue', ahead')
  BY DEF SlotsInv
<1>2. queue' = queue /\ group' = group /\ coord' = coord
  OBVIOUS
<1> QED
  BY <1>1, <1>2, QuietSlots

\* A turn begins where a slot is free, so nobody was waiting for one.
LEMMA StartSlots ==
    ASSUME ConstantsAssumption, SlotsInv, NEW t \in Threads, alive[t], turn[t] = "idle",
           ~AtCapacity(turn), phase = "up",
           turn' = [turn EXCEPT ![t] = "setup"],
           UNCHANGED <<queue, ahead, alive, group, coord>>
    PROVE  Line(queue, ahead)' /\ CapacityWellUsed'
<1>1. turn \in [Threads -> TurnPhases] /\ Capacity \in Nat
  BY DEF SlotsInv, TypeOK, ConstantsAssumption
<1>2. IsFiniteSet(Occupied(turn)) /\ Cardinality(Occupied(turn)) \in Nat
  <2>1. Occupied(turn) \in SUBSET Threads
    BY DEF Occupied
  <2> QED
    BY <2>1, FS_Subset, FS_CardinalityType DEF ConstantsAssumption
<1>3. Occupied(turn)' = Occupied(turn) \cup {t} /\ t \notin Occupied(turn)
  BY <1>1 DEF Occupied
<1>4. Cardinality(Occupied(turn)') = Cardinality(Occupied(turn)) + 1
  BY <1>2, <1>3, FS_AddElement
<1>5. CapacityRespected'
  BY <1>1, <1>2, <1>4 DEF AtCapacity, CapacityRespected, Occupied
<1>6. NothingStranded'
  <2>1. \A u \in Threads : MayStart(u, queue, turn, group, coord)' => MayStart(u, queue, turn, group, coord)
    BY <1>1 DEF MayStart, Parks
  <2> QED
    BY <2>1 DEF SlotsInv, CapacityWellUsed, NothingStranded
<1>7. Line(queue, ahead)'
  BY LinePrime DEF SlotsInv
<1> QED
  BY <1>5, <1>6, <1>7 DEF CapacityWellUsed

\* Words join a queue that must wait, or that of a thread at work.
LEMMA EnqueueSlots ==
    ASSUME ConstantsAssumption, SlotsInv, NEW s \in Sends, NEW i \in Ids, Enqueue(s, i),
           MustWait(Home[s]) \/ turn[Home[s]] # "idle",
           UNCHANGED <<alive, group, coord, phase>>
    PROVE  Line(queue, ahead)' /\ CapacityWellUsed'
<1> DEFINE t == Home[s]
<1>1. t \in Threads /\ queue \in [Threads -> Seq(Ids)]
  BY DEF ConstantsAssumption, SlotsInv, TypeOK
<1>2. queue' = [queue EXCEPT ![t] = Append(@, i)] /\ turn' = turn
      /\ ahead' = IF queue[t] = <<>> THEN AtTheEnd(ahead, queue, t) ELSE ahead
  BY DEF Enqueue
<1>3. Waiting(queue') \subseteq Waiting(queue) \cup {t}
  BY <1>1, <1>2 DEF Waiting
<1>4. Line(queue', ahead')
  <2>0. Line(queue, ahead)
    BY DEF SlotsInv
  <2>1. CASE queue[t] = <<>>
    <3>1. Line(queue', AtTheEnd(ahead, queue, t))
      BY <1>1, <1>3, <2>0, LineAtTheEnd
    <3> QED
      BY <1>2, <2>1, <3>1
  <2>2. CASE queue[t] # <<>>
    <3>1. Waiting(queue') \subseteq Waiting(queue)
      BY <1>1, <1>3, <2>2 DEF Waiting
    <3>2. Line(queue', ahead)
      BY <2>0, <3>1, LineShrinks
    <3> QED
      BY <1>2, <2>2, <3>2
  <2> QED
    BY <2>1, <2>2
<1>5. ASSUME NEW u \in Threads, MayStart(u, queue', turn, group', coord')
      PROVE  MayStart(u, queue, turn, group, coord) \/ AtCapacity(turn)
  <2>1. CASE u # t
    BY <1>1, <1>2, <1>5, <2>1 DEF MayStart
  <2>2. CASE u = t
    BY <1>5, <2>2 DEF MayStart, MustWait
  <2> QED
    BY <2>1, <2>2
<1> QED
  BY <1>2, <1>4, <1>5, QuietSlots

LEMMA SlotsPost ==
    ASSUME ConstantsAssumption, SlotsInv, NEW s \in Sends, NEW i \in Ids, Post(s, i)
    PROVE  Line(queue, ahead)' /\ CapacityWellUsed'
<1>0. Home[s] \in Threads /\ alive[Home[s]] /\ phase = "up" /\ UNCHANGED <<alive, phase, group, coord>>
  BY DEF Post, ConstantsAssumption
<1>1. CASE MustWait(Home[s]) /\ Enqueue(s, i)
  BY <1>0, <1>1, EnqueueSlots
<1>2. CASE ~MustWait(Home[s]) /\ StartNow(s, i)
  BY <1>0, <1>2, StartSlots DEF StartNow, MustWait
<1>3. CASE Busy(Home[s]) /\ Enqueue(s, i)
  <2>1. turn[Home[s]] # "idle"
    BY <1>3 DEF Busy
  <2> QED
    BY <1>0, <1>3, <2>1, EnqueueSlots
<1>4. CASE UNCHANGED <<queue, ahead, turn>>
  BY <1>0, <1>4, IdleSlots
<1> QED
  BY <1>1, <1>2, <1>3, <1>4 DEF Post, StartOrQueue

LEMMA SlotsPostAnswered ==
    ASSUME ConstantsAssumption, SlotsInv, NEW i \in Ids, NEW o \in Outcomes, PostAnswered(i, o)
    PROVE  Line(queue, ahead)' /\ CapacityWellUsed'
<1> DEFINE s == sendOf[i]
<1>0. s \in Sends /\ Home[s] \in Threads /\ phase = "up" /\ UNCHANGED <<alive, phase, group, coord>>
  BY DEF PostAnswered, ConstantsAssumption, SlotsInv, TypeOK
<1>1. CASE MustWait(Home[s]) /\ Enqueue(s, i)
  BY <1>0, <1>1, EnqueueSlots
<1>2. CASE ~MustWait(Home[s]) /\ StartNow(s, i) /\ alive[Home[s]]
  BY <1>0, <1>2, StartSlots DEF StartNow, MustWait
<1>3. CASE Busy(Home[s]) /\ Enqueue(s, i)
  <2>1. turn[Home[s]] # "idle"
    BY <1>3 DEF Busy
  <2> QED
    BY <1>0, <1>3, <2>1, EnqueueSlots
<1>4. CASE UNCHANGED <<queue, ahead, turn>>
  BY <1>0, <1>4, IdleSlots
<1> QED
  BY <1>1, <1>2, <1>3, <1>4 DEF PostAnswered, StartOrQueue

LEMMA SlotsCancel ==
    ASSUME ConstantsAssumption, SlotsInv, NEW t \in Threads, NEW k \in Ids, Cancel(t, k)
    PROVE  Line(queue, ahead)' /\ CapacityWellUsed'
<1>1. /\ k \in DOMAIN queue[t] /\ queue' = [queue EXCEPT ![t] = RemoveAt(@, k)]
      /\ ahead' = IF Len(queue[t]) = 1 THEN {p \in ahead : p[1] # t /\ p[2] # t} ELSE ahead
      /\ UNCHANGED <<turn, alive, group, coord, phase>>
  BY DEF Cancel
<1>2. queue \in [Threads -> Seq(Ids)] /\ queue[t] \in Seq(Ids) /\ queue[t] # <<>>
  BY <1>1 DEF SlotsInv, TypeOK
<1>3. Waiting(queue') \subseteq Waiting(queue)
  BY <1>1, <1>2 DEF Waiting
<1>4. Len(queue[t]) = 1 => t \notin Waiting(queue')
  <2>1. RemoveAt(queue[t], k) \in Seq(Ids) /\ Len(RemoveAt(queue[t], k)) = Len(queue[t]) - 1
    BY <1>1, <1>2, RemoveAtFacts
  <2>2. queue'[t] = RemoveAt(queue[t], k)
    BY <1>1, <1>2
  <2> HIDE DEF Waiting
  <2>3. Len(queue[t]) = 1 => queue'[t] = <<>>
    BY <2>1, <2>2
  <2> QED
    BY <2>3 DEF Waiting
<1>5. \A u, v \in Waiting(queue') : <<u, v>> \in ahead' <=> <<u, v>> \in ahead
  BY <1>1, <1>4
<1>6. Line(queue', ahead')
  BY <1>3, <1>5, LineShrinks DEF SlotsInv
<1>7. \A u \in Threads : MayStart(u, queue', turn, group', coord') => MayStart(u, queue, turn, group, coord)
  BY <1>1, <1>2 DEF MayStart
<1> QED
  BY <1>1, <1>6, <1>7, QuietSlots

LEMMA SlotsHoldAndAsk ==
    ASSUME ConstantsAssumption, SlotsInv, NEW r \in Requests, NEW t \in Threads, HoldAndAsk(r, t)
    PROVE  Line(queue, ahead)' /\ CapacityWellUsed'
<1>1. /\ queue' = [queue EXCEPT ![t] = <<>>]
      /\ ahead' = {p \in ahead : p[1] # t /\ p[2] # t}
      /\ UNCHANGED <<turn, alive, group, coord, phase>>
  BY DEF HoldAndAsk, Lifted, durable
<1>2. queue \in [Threads -> Seq(Ids)]
  BY DEF SlotsInv, TypeOK
<1>3. Waiting(queue') \subseteq Waiting(queue) \ {t}
  BY <1>1, <1>2 DEF Waiting
<1>4. Line(queue', ahead')
  BY <1>1, <1>3, LineShrinks DEF SlotsInv
<1>5. \A u \in Threads : MayStart(u, queue', turn, group', coord') => MayStart(u, queue, turn, group, coord)
  BY <1>1, <1>2 DEF MayStart
<1> QED
  BY <1>1, <1>4, <1>5, QuietSlots

LEMMA SlotsHoldRefused ==
    ASSUME ConstantsAssumption, SlotsInv, NEW t \in Threads, HoldRefused(t)
    PROVE  Line(queue, ahead)' /\ CapacityWellUsed'
<1> DEFINE e == AtTheEnd(ahead, queue, t)
<1>0. /\ UNCHANGED <<alive, group, coord, phase>> /\ TypeOK /\ turn \in [Threads -> TurnPhases]
      /\ Cardinality(Occupied(turn)) <= Capacity
  BY DEF HoldRefused, SlotsInv, TypeOK, CapacityWellUsed, CapacityRespected, Occupied
<1>1. Line(queue, e) /\ e \in SUBSET (Threads \X Threads)
  BY LineAtTheEnd, AtTheEndType DEF SlotsInv, TypeOK
<1>2. CASE Busy(t)
  <2>1. ahead' = e /\ UNCHANGED <<queue, turn>>
    BY <1>2 DEF HoldRefused
  <2> HIDE DEF e
  <2>2. Line(queue', ahead') /\ queue' = queue /\ group' = group /\ coord' = coord
    BY <1>0, <1>1, <2>1
  <2> QED
    BY <1>0, <2>1, <2>2, QuietSlots
<1>3. CASE ~Busy(t)
  <2>1. Drain(queue, e, turn, batch, status, text, group', coord')
    BY <1>0, <1>3 DEF HoldRefused
  <2> HIDE DEF e
  <2> QED
    BY <1>0, <1>1, <2>1, DrainKeepsSlots
<1> QED
  BY <1>2, <1>3

LEMMA SlotsHeldAnswered ==
    ASSUME ConstantsAssumption, SlotsInv, NEW r \in Requests, NEW o \in Outcomes, HeldAnswered(r, o)
    PROVE  Line(queue, ahead)' /\ CapacityWellUsed'
<1> DEFINE t == steer[r].thread
           items == steer[r].items
           restored == PutBack(t, items)
           line == IF queue[t] = <<>> THEN AtTheEnd(ahead, queue, t) ELSE ahead
<1>0. /\ t \in Threads /\ UNCHANGED <<alive, group, coord, phase>> /\ TypeOK /\ turn \in [Threads -> TurnPhases]
      /\ Cardinality(Occupied(turn)) <= Capacity /\ queue \in [Threads -> Seq(Ids)] /\ Line(queue, ahead)
  BY DEF HeldAnswered, SlotsInv, TypeOK, SteerRecord, CapacityWellUsed, CapacityRespected, Occupied
<1>1. \/ UNCHANGED <<queue, ahead, turn>>
      \/ alive[t] /\ ~Busy(t) /\ Drain(restored, line, turn, batch, status, text, group, coord)
      \/ ~(alive[t] /\ ~Busy(t)) /\ queue' = restored /\ ahead' = line /\ UNCHANGED turn
  BY DEF HeldAnswered
<1>2. restored = [queue EXCEPT ![t] = items \o queue[t]]
  BY <1>0 DEF PutBack
<1> HIDE DEF restored, items, t
<1>3. Waiting(restored) \subseteq Waiting(queue) \cup {t}
  BY <1>0, <1>2 DEF Waiting
<1>4. Line(restored, line) /\ line \in SUBSET (Threads \X Threads)
  <2>1. CASE queue[t] = <<>>
    <3>1. Line(restored, AtTheEnd(ahead, queue, t)) /\ AtTheEnd(ahead, queue, t) \in SUBSET (Threads \X Threads)
      BY <1>0, <1>3, LineAtTheEnd, AtTheEndType DEF TypeOK
    <3> QED
      BY <2>1, <3>1
  <2>2. CASE queue[t] # <<>>
    <3>1. Waiting(restored) \subseteq Waiting(queue)
      BY <1>0, <1>3, <2>2 DEF Waiting
    <3>2. Line(restored, ahead)
      BY <1>0, <3>1, LineShrinks
    <3> QED
      BY <1>0, <2>2, <3>2 DEF TypeOK
  <2> QED
    BY <2>1, <2>2
<1> HIDE DEF line
<1>5. CASE UNCHANGED <<queue, ahead, turn>>
  BY <1>0, <1>5, IdleSlots
<1>6. CASE Drain(restored, line, turn, batch, status, text, group, coord)
  <2>1. Drain(restored, line, turn, batch, status, text, group', coord')
    BY <1>0, <1>6
  <2> QED
    BY <1>0, <1>4, <2>1, DrainKeepsSlots
<1>7. CASE ~(alive[t] /\ ~Busy(t)) /\ queue' = restored /\ ahead' = line /\ UNCHANGED turn
  <2>1. ASSUME NEW u \in Threads, MayStart(u, queue', turn, group', coord')
        PROVE  MayStart(u, queue, turn, group, coord)
    <3>1. u # t
      BY <1>7, <2>1 DEF MayStart, Busy
    <3> QED
      BY <1>0, <1>2, <1>7, <2>1, <3>1 DEF MayStart
  <2>2. Line(queue', ahead')
    BY <1>4, <1>7
  <2> QED
    BY <1>0, <1>7, <2>1, <2>2, QuietSlots
<1> QED
  BY <1>1, <1>5, <1>6, <1>7

\* A turn that moves on or ends takes no slot.
LEMMA FewerOccupied ==
    ASSUME ConstantsAssumption, SlotsInv, NEW t \in Threads, turn[t] # "idle", NEW p
    PROVE  Cardinality(Occupied([turn EXCEPT ![t] = p])) <= Capacity
<1>1. turn \in [Threads -> TurnPhases] /\ Capacity \in Nat
  BY DEF SlotsInv, TypeOK, ConstantsAssumption
<1>2. Occupied(turn) \in SUBSET Threads /\ Occupied([turn EXCEPT ![t] = p]) \in SUBSET Occupied(turn)
  BY <1>1 DEF Occupied
<1>3. IsFiniteSet(Occupied(turn))
  BY <1>2, FS_Subset DEF ConstantsAssumption
<1>4. Cardinality(Occupied(turn)) <= Capacity
  BY DEF SlotsInv, CapacityWellUsed, CapacityRespected, Occupied
<1>5. /\ Cardinality(Occupied([turn EXCEPT ![t] = p])) <= Cardinality(Occupied(turn))
      /\ IsFiniteSet(Occupied([turn EXCEPT ![t] = p]))
  BY <1>2, <1>3, FS_Subset
<1>6. Cardinality(Occupied([turn EXCEPT ![t] = p])) \in Nat /\ Cardinality(Occupied(turn)) \in Nat
  BY <1>3, <1>5, FS_CardinalityType
<1> QED
  BY <1>1, <1>4, <1>5, <1>6

LEMMA TurnDrainSlots ==
    ASSUME ConstantsAssumption, SlotsInv, NEW t \in Threads, turn[t] # "idle", NEW p \in TurnPhases,
           UNCHANGED <<alive, group, coord>>, NEW bt, NEW st,
           Drain(queue, ahead, [turn EXCEPT ![t] = p], bt, st, text, group, coord)
    PROVE  Line(queue, ahead)' /\ CapacityWellUsed'
<1> DEFINE tn == [turn EXCEPT ![t] = p]
<1>1. /\ TypeOK /\ Line(queue, ahead) /\ ahead \in SUBSET (Threads \X Threads)
      /\ tn \in [Threads -> TurnPhases]
  BY DEF SlotsInv, TypeOK
<1>2. Cardinality(Occupied(tn)) <= Capacity
  BY FewerOccupied
<1>3. Drain(queue, ahead, tn, bt, st, text, group', coord')
  OBVIOUS
<1> HIDE DEF tn
<1> QED
  BY <1>1, <1>2, <1>3, DrainKeepsSlots

\* A turn that goes on keeps its slot.
LEMMA TurnMovesSlots ==
    ASSUME ConstantsAssumption, SlotsInv, NEW t \in Threads, turn[t] # "idle", NEW p \in TurnPhases, p # "idle",
           turn' = [turn EXCEPT ![t] = p],
           UNCHANGED <<queue, ahead, alive, group, coord, phase>>
    PROVE  Line(queue, ahead)' /\ CapacityWellUsed'
<1>1. turn \in [Threads -> TurnPhases]
  BY DEF SlotsInv, TypeOK
<1>2. Occupied(turn)' = Occupied(turn)
  BY <1>1 DEF Occupied
<1>3. \A u \in Threads : MayStart(u, queue, turn, group, coord)' <=> MayStart(u, queue, turn, group, coord)
  BY <1>1 DEF MayStart, Parks
<1>4. CapacityRespected'
  BY <1>2 DEF SlotsInv, CapacityWellUsed, CapacityRespected, Occupied
<1>5. NothingStranded'
  BY <1>2, <1>3 DEF SlotsInv, CapacityWellUsed, NothingStranded, AtCapacity
<1>6. Line(queue, ahead)'
  BY LinePrime DEF SlotsInv
<1> QED
  BY <1>4, <1>5, <1>6 DEF CapacityWellUsed

LEMMA SlotsCallAdapter ==
    ASSUME ConstantsAssumption, SlotsInv, NEW t \in Threads, CallAdapter(t)
    PROVE  Line(queue, ahead)' /\ CapacityWellUsed'
<1>1. /\ turn[t] # "idle" /\ turn' = [turn EXCEPT ![t] = "dispatching"]
      /\ UNCHANGED <<queue, ahead, alive, group, coord, phase>> /\ "dispatching" \in TurnPhases
  BY DEF CallAdapter, durable, TurnPhases
<1> QED
  BY <1>1, TurnMovesSlots

LEMMA SlotsDispatchAcked ==
    ASSUME ConstantsAssumption, SlotsInv, NEW t \in Threads, DispatchAcked(t)
    PROVE  Line(queue, ahead)' /\ CapacityWellUsed'
<1>0. UNCHANGED <<alive, group, coord, phase>> /\ {"idle", "running"} \subseteq TurnPhases
  BY DEF DispatchAcked, TurnVarsKept, TurnPhases
<1>1. CASE turn[t] = "dispatching" /\ turn' = [turn EXCEPT ![t] = "running"] /\ UNCHANGED <<queue, ahead>>
  BY <1>0, <1>1, TurnMovesSlots
<1>2. CASE turn[t] = "early" /\ Drain(queue, ahead, [turn EXCEPT ![t] = "idle"], [batch EXCEPT ![t] = <<>>],
                                      Retired(t), text, group, coord)
  <2>1. turn[t] # "idle"
    BY <1>2
  <2> QED
    BY <1>0, <1>2, <2>1, TurnDrainSlots
<1> QED
  BY <1>1, <1>2 DEF DispatchAcked

LEMMA SlotsTurnCompleted ==
    ASSUME ConstantsAssumption, SlotsInv, NEW t \in Threads, TurnCompleted(t)
    PROVE  Line(queue, ahead)' /\ CapacityWellUsed'
<1>0. UNCHANGED <<alive, group, coord>> /\ {"idle", "early"} \subseteq TurnPhases /\ turn[t] # "idle"
  BY DEF TurnCompleted, TurnVarsKept, TurnPhases
<1>1. CASE Drain(queue, ahead, [turn EXCEPT ![t] = "early"], batch, status, text, group, coord)
  BY <1>0, <1>1, TurnDrainSlots
<1>2. CASE Drain(queue, ahead, [turn EXCEPT ![t] = "idle"], [batch EXCEPT ![t] = <<>>],
                 Retired(t), text, group, coord)
  BY <1>0, <1>2, TurnDrainSlots
<1> QED
  BY <1>1, <1>2 DEF TurnCompleted

LEMMA SlotsSetupEnds ==
    ASSUME ConstantsAssumption, SlotsInv, NEW t \in Threads, SetupEnds(t)
    PROVE  Line(queue, ahead)' /\ CapacityWellUsed'
<1>0. UNCHANGED <<alive, group, coord>> /\ "idle" \in TurnPhases /\ turn[t] # "idle"
  BY DEF SetupEnds, TurnVarsKept, TurnPhases
<1>1. Drain(queue, ahead, [turn EXCEPT ![t] = "idle"], [batch EXCEPT ![t] = <<>>],
            Retired(t), text, group, coord)
  BY DEF SetupEnds
<1> QED
  BY <1>0, <1>1, TurnDrainSlots

\* A drain of the line as it is.
LEMMA PlainDrainSlots ==
    ASSUME ConstantsAssumption, SlotsInv, alive' = alive,
           Drain(queue, ahead, turn, batch, status, text, group', coord')
    PROVE  Line(queue, ahead)' /\ CapacityWellUsed'
<1>1. /\ TypeOK /\ Line(queue, ahead) /\ ahead \in SUBSET (Threads \X Threads)
      /\ turn \in [Threads -> TurnPhases] /\ Cardinality(Occupied(turn)) <= Capacity
  BY DEF SlotsInv, TypeOK, CapacityWellUsed, CapacityRespected, Occupied
<1> QED
  BY <1>1, DrainKeepsSlots

LEMMA SlotsDrains ==
    ASSUME ConstantsAssumption, SlotsInv,
           GroupTurnEnds \/ Listen \/ \E t \in Threads : WorkReturned(t)
    PROVE  Line(queue, ahead)' /\ CapacityWellUsed'
<1>1. alive' = alive /\ Drain(queue, ahead, turn, batch, status, text, group', coord')
  BY DEF GroupTurnEnds, Listen, WorkReturned
<1> QED
  BY <1>1, PlainDrainSlots

\* The room takes the idle bot, or a conversation parks behind its work.
LEMMA SlotsBlocked ==
    ASSUME ConstantsAssumption, SlotsInv, GroupTurnStarts \/ \E t \in Threads : WorkHandedOut(t)
    PROVE  Line(queue, ahead)' /\ CapacityWellUsed'
<1>1. UNCHANGED <<queue, ahead, turn, alive, phase>> /\ Line(queue', ahead')
  BY DEF GroupTurnStarts, WorkHandedOut, durable, SlotsInv
<1>2. \A u \in Threads : MayStart(u, queue', turn, group', coord') => MayStart(u, queue, turn, group, coord)
  BY DEF GroupTurnStarts, WorkHandedOut, durable, MayStart, Parks
<1> QED
  BY <1>1, <1>2, QuietSlots

\* Nobody runs after a crash, and while the server boots nobody is looked at.
LEMMA SlotsWiped ==
    ASSUME ConstantsAssumption, SlotsInv, Wiped
    PROVE  Line(queue, ahead)' /\ CapacityWellUsed'
<1>1. /\ phase' = "recovering" /\ queue' = [t \in Threads |-> <<>>]
      /\ turn' = [t \in Threads |-> "idle"] /\ Capacity \in Nat
  BY DEF Wiped, ConstantsAssumption
<1>2. Line(queue, ahead)'
  <2>1. Waiting(queue') = {}
    BY <1>1 DEF Waiting
  <2> QED
    BY <2>1, LinePrime DEF Line
<1>3. CapacityRespected'
  <2>1. {t \in Threads : alive'[t] /\ turn'[t] # "idle"} = {}
    BY <1>1
  <2>2. Cardinality({t \in Threads : alive'[t] /\ turn'[t] # "idle"}) = 0
    BY <2>1, FS_EmptySet
  <2> QED
    BY <1>1, <2>2 DEF CapacityRespected
<1> QED
  BY <1>1, <1>2, <1>3 DEF CapacityWellUsed, NothingStranded

LEMMA SlotsRestore ==
    ASSUME ConstantsAssumption, SlotsInv, NEW i \in Ids, Restore(i)
    PROVE  Line(queue, ahead)' /\ CapacityWellUsed'
<1> DEFINE t == HomeOf(i)
<1>1. /\ queue' = [queue EXCEPT ![t] = Append(@, i)] /\ phase = "recovering" /\ phase' = "recovering"
      /\ ahead' = IF queue[t] = <<>> THEN AtTheEnd(ahead, queue, t) ELSE ahead
      /\ UNCHANGED <<turn, alive>> /\ t \in Threads /\ queue \in [Threads -> Seq(Ids)] /\ Line(queue, ahead)
  BY DEF Restore, durable, HomeOf, SlotsInv, TypeOK, ConstantsAssumption
<1> HIDE DEF t
<1>2. Waiting(queue') \subseteq Waiting(queue) \cup {t}
  BY <1>1 DEF Waiting
<1>3. Line(queue', ahead')
  <2>1. CASE queue[t] = <<>>
    <3>1. Line(queue', AtTheEnd(ahead, queue, t))
      BY <1>1, <1>2, LineAtTheEnd
    <3> QED
      BY <1>1, <2>1, <3>1
  <2>2. CASE queue[t] # <<>>
    <3>1. Waiting(queue') \subseteq Waiting(queue)
      BY <1>1, <1>2, <2>2 DEF Waiting
    <3>2. Line(queue', ahead)
      <4>1. Line(queue, ahead)
        BY <1>1
      <4> QED
        BY <3>1, <4>1, LineShrinks
    <3> QED
      BY <1>1, <2>2, <3>2
  <2> QED
    BY <2>1, <2>2
<1>4. Line(queue, ahead)' /\ CapacityRespected' /\ NothingStranded'
  BY <1>1, <1>3, LinePrime DEF SlotsInv, CapacityWellUsed, CapacityRespected, NothingStranded
<1> QED
  BY <1>4 DEF CapacityWellUsed

\* When one thread parks no longer, nobody else may start that could not before.
LEMMA NobodyElseFires ==
    ASSUME ConstantsAssumption, SlotsInv, phase = "up", NEW t \in Threads, NEW u \in Threads \ {t},
           NEW failing
    PROVE  ~Fires(u, failing, queue, ahead, turn, group, coord \ {t})
<1> DEFINE c == coord \ {t}
<1>1. SUFFICES ASSUME Fires(u, failing, queue, ahead, turn, group, c) PROVE FALSE
  OBVIOUS
<1>2. MayStart(u, queue, turn, group, coord)
  BY <1>1 DEF Fires, MayStart, Parks
<1>3. Cardinality(Occupied(turn)) >= Capacity
  BY <1>2 DEF SlotsInv, CapacityWellUsed, NothingStranded, AtCapacity
<1>4. Cardinality(Earlier(u, failing, queue, ahead, turn, group, c)) + Cardinality(Occupied(turn)) < Capacity
  BY <1>1 DEF Fires, Earlier
<1>5. /\ Cardinality(Earlier(u, failing, queue, ahead, turn, group, c)) \in Nat
      /\ Cardinality(Occupied(turn)) \in Nat /\ Capacity \in Nat
  <2>1. /\ Earlier(u, failing, queue, ahead, turn, group, c) \in SUBSET Threads
        /\ Occupied(turn) \in SUBSET Threads
    BY DEF Earlier, Occupied
  <2> QED
    BY <2>1, FS_Subset, FS_CardinalityType DEF ConstantsAssumption
<1> QED
  BY <1>3, <1>4, <1>5

\* The cancelled work of a deleted thread may let that thread start, and then
\* nobody else.
LEMMA SlotsDeleteThread ==
    ASSUME ConstantsAssumption, SlotsInv, NEW t \in Threads, DeleteThread(t)
    PROVE  Line(queue, ahead)' /\ CapacityWellUsed'
<1> DEFINE c == coord \ {t}
<1>0. /\ phase = "up" /\ alive[t] /\ turn[t] = "idle" /\ alive' = [alive EXCEPT ![t] = FALSE]
      /\ coord' = c /\ UNCHANGED <<phase, group>>
      /\ alive \in [Threads -> BOOLEAN] /\ turn \in [Threads -> TurnPhases] /\ Line(queue, ahead)
      /\ ahead \in SUBSET (Threads \X Threads) /\ Capacity \in Nat
      /\ Cardinality(Occupied(turn)) <= Capacity /\ queue \in [Threads -> Seq(Ids)]
      /\ \A u \in Threads : MayStart(u, queue, turn, group, coord) => AtCapacity(turn)
  BY DEF DeleteThread, SlotsInv, TypeOK, ConstantsAssumption, CapacityWellUsed, NothingStranded,
         CapacityRespected, Occupied
<1>1. IsFiniteSet(Occupied(turn)) /\ Cardinality(Occupied(turn)) \in Nat
  <2>1. Occupied(turn) \in SUBSET Threads
    BY DEF Occupied
  <2> QED
    BY <2>1, FS_Subset, FS_CardinalityType DEF ConstantsAssumption
<1>2. /\ Line(queue', ahead')
      /\ \A u \in Threads \ {t} : turn'[u] = turn[u] /\ (queue'[u] = queue[u] \/ queue'[u] = <<>>)
      /\ turn' \in [Threads -> TurnPhases]
  <2>1. CASE t \notin coord
    <3>1. queue' = queue /\ ahead' = ahead /\ turn' = turn
      BY <2>1 DEF DeleteThread
    <3> QED
      BY <1>0, <3>1
  <2>2. CASE t \in coord
    <3>1. PICK failing \in SUBSET Threads :
             LET d == Drained(failing, queue, ahead, turn, batch, status, text, group, c)
             IN /\ \A u \in failing : Fires(u, failing, queue, ahead, turn, group, c)
                /\ queue' = d.queue /\ ahead' = d.ahead /\ turn' = d.turn
      <4>1. \E failing \in SUBSET Threads :
             LET d == Drained(failing, queue, ahead, turn, batch, status, text, group, coord')
             IN /\ \A u \in failing : Fires(u, failing, queue, ahead, turn, group, coord')
                /\ queue' = d.queue /\ ahead' = d.ahead /\ turn' = d.turn
        BY <2>2 DEF DeleteThread
      <4>2. coord' = c
        BY <1>0
      <4> HIDE DEF c
      <4> QED
        BY <4>1, <4>2
    <3> DEFINE d == Drained(failing, queue, ahead, turn, batch, status, text, group, c)
    <3>2. Line(d.queue, d.ahead)
      BY <1>0, <3>1, DrainSlots
    <3>3. \A u \in Threads \ {t} : ~Fires(u, failing, queue, ahead, turn, group, c)
      BY <1>0, NobodyElseFires
    <3>4. /\ d.turn = [u \in Threads |-> IF u \in {v \in Threads : Fires(v, failing, queue, ahead, turn, group, c)} \ failing
                                           THEN "setup" ELSE turn[u]]
          /\ \A u \in Threads : d.queue[u] = queue[u] \/ d.queue[u] = <<>>
      BY DEF Drained, Claimed
    <3>5. \A u \in Threads \ {t} : d.turn[u] = turn[u]
      BY <3>3, <3>4
    <3>6. d.turn \in [Threads -> TurnPhases]
      BY <1>0, <3>4 DEF TurnPhases
    <3> HIDE DEF d
    <3>7. queue' = d.queue /\ ahead' = d.ahead /\ turn' = d.turn
      BY <3>1 DEF d
    <3> QED
      BY <3>2, <3>4, <3>5, <3>6, <3>7
  <2> QED
    BY <2>1, <2>2
<1>3. {u \in Threads : alive[u] /\ turn[u] # "idle"}' = Occupied(turn)
  BY <1>0, <1>2 DEF Occupied
<1>4. CapacityRespected'
  BY <1>0, <1>3 DEF CapacityRespected
<1>5. NothingStranded'
  <2> SUFFICES ASSUME NEW u \in Threads, MayStart(u, queue, turn, group, coord)'
               PROVE  AtCapacity(turn)'
    BY DEF NothingStranded
  <2>1. u # t /\ queue'[u] # <<>> /\ alive'[u] /\ turn'[u] = "idle" /\ ~group /\ ~(u \in Parking /\ u \in c)
    BY <1>0 DEF MayStart, Parks
  <2>2. MayStart(u, queue, turn, group, coord)
    BY <1>0, <1>2, <2>1 DEF MayStart, Parks
  <2>3. AtCapacity(turn)
    BY <1>0, <2>2
  <2> QED
    BY <1>3, <2>3 DEF AtCapacity, Occupied
<1>6. Line(queue, ahead)'
  BY <1>2, LinePrime
<1> QED
  BY <1>4, <1>5, <1>6 DEF CapacityWellUsed

LEMMA SlotsInit == ASSUME Init PROVE SlotsInv
<1> USE ConstantsAssumption
<1>1. /\ queue = [t \in Threads |-> <<>>] /\ turn = [t \in Threads |-> "idle"] /\ Capacity \in Nat
  BY DEF Init, ConstantsAssumption
<1>2. Line(queue, ahead)
  BY <1>1 DEF Line, Waiting
<1>3. CapacityRespected
  <2> DEFINE busy == {t \in Threads : alive[t] /\ turn[t] # "idle"}
  <2>1. busy = {}
    BY <1>1
  <2> HIDE DEF busy
  <2>2. Cardinality(busy) = 0
    BY <2>1, FS_EmptySet
  <2>3. Cardinality(busy) <= Capacity
    BY <1>1, <2>2 DEF ConstantsAssumption
  <2> QED
    BY <2>3 DEF CapacityRespected, busy
<1>4. NothingStranded
  BY <1>1 DEF NothingStranded, MayStart
<1> QED
  BY <1>2, <1>3, <1>4, TypeInit DEF SlotsInv, CapacityWellUsed

LEMMA SlotsStep == ASSUME SlotsInv, [Next]_vars PROVE SlotsInv'
<1> USE ConstantsAssumption
<1>0. TypeOK'
  BY TypeStep DEF SlotsInv
<1> SUFFICES Line(queue, ahead)' /\ CapacityWellUsed'
  BY <1>0 DEF SlotsInv
<1>1. ASSUME NEW s \in Sends, NEW i \in Ids, Post(s, i) PROVE Line(queue, ahead)' /\ CapacityWellUsed'
  BY <1>1, SlotsPost
<1>2. ASSUME NEW i \in Ids, NEW o \in Outcomes, PostAnswered(i, o)
      PROVE  Line(queue, ahead)' /\ CapacityWellUsed'
  BY <1>2, SlotsPostAnswered
<1>3. ASSUME NEW t \in Threads, NEW k \in Ids, Cancel(t, k) PROVE Line(queue, ahead)' /\ CapacityWellUsed'
  BY <1>3, SlotsCancel
<1>4. ASSUME NEW r \in Requests, NEW t \in Threads, HoldAndAsk(r, t)
      PROVE  Line(queue, ahead)' /\ CapacityWellUsed'
  BY <1>4, SlotsHoldAndAsk
<1>5. ASSUME NEW t \in Threads, HoldRefused(t) PROVE Line(queue, ahead)' /\ CapacityWellUsed'
  BY <1>5, SlotsHoldRefused
<1>6. ASSUME NEW r \in Requests, NEW o \in Outcomes, HeldAnswered(r, o)
      PROVE  Line(queue, ahead)' /\ CapacityWellUsed'
  BY <1>6, SlotsHeldAnswered
<1>7. ASSUME NEW t \in Threads, CallAdapter(t) \/ DispatchAcked(t) \/ TurnCompleted(t) \/ SetupEnds(t)
      PROVE  Line(queue, ahead)' /\ CapacityWellUsed'
  BY <1>7, SlotsCallAdapter, SlotsDispatchAcked, SlotsTurnCompleted, SlotsSetupEnds
<1>8. CASE GroupTurnEnds \/ Listen \/ \E t \in Threads : WorkReturned(t)
  BY <1>8, SlotsDrains
<1>9. CASE GroupTurnStarts \/ \E t \in Threads : WorkHandedOut(t)
  BY <1>9, SlotsBlocked
<1>10. ASSUME NEW t \in Threads, DeleteThread(t) PROVE Line(queue, ahead)' /\ CapacityWellUsed'
  BY <1>10, SlotsDeleteThread
<1>11. CASE \/ Crash \/ \E t \in Threads, n \in 0..MaxIds : CrashInDrain(t, n)
            \/ \E r \in Requests, n \in Ids : CrashInSteer(r, n)
  BY <1>11, SlotsWiped DEF Crash, CrashInDrain, CrashInSteer
<1>12. ASSUME NEW i \in Ids, Restore(i) PROVE Line(queue, ahead)' /\ CapacityWellUsed'
  BY <1>12, SlotsRestore
<1>13. CASE \/ \E i \in Ids : PostTaken(i) \/ Recover(i)
            \/ \E r \in Requests : HeldTaken(r)
            \/ UNCHANGED vars
  <2>1. UNCHANGED <<queue, ahead, turn, alive, group, coord, phase>>
    BY <1>13 DEF PostTaken, Recover, HeldTaken, vars, durable, memory
  <2> QED
    BY <2>1, IdleSlots
<1> QED
  BY <1>1, <1>2, <1>3, <1>4, <1>5, <1>6, <1>7, <1>8, <1>9, <1>10, <1>11, <1>12, <1>13 DEF Next

\* In every instance, whatever is queued, lifted, put back, freed, parked or
\* deleted in whatever order, the bot works in no more threads than its limit,
\* and no thread waits that could start while a slot is free.
THEOREM SlotsWellUsed == Spec => []CapacityWellUsed
<1>1. Init => SlotsInv
  BY SlotsInit
<1>2. SlotsInv /\ [Next]_vars => SlotsInv'
  BY SlotsStep
<1>3. SlotsInv => CapacityWellUsed
  BY DEF SlotsInv
<1> QED
  BY <1>1, <1>2, <1>3, PTL DEF Spec

-----------------------------------------------------------------------------
(* Without live steering.  Each send has one instance, and what was said is  *)
(* on the transcript of its thread, once, in the order in which it was said. *)

PlainFits ==
    /\ \A r \in Requests : steer[r] = NoSteer
    /\ requeued = {}
    /\ \A i \in Ids :
          /\ status[i] \notin {"posting", "bounced"}
          /\ phase = "up" => status[i] # "interrupted"
          /\ status[i] \in {"free", "pending", "cancelled"} =>
                handed[i] = 0 /\ \A t \in Threads : i \notin ToSet(text[t])
          /\ status[i] # "free" /\ alive[HomeOf(i)] =>
                \/ status[i] \in {"pending", "dispatching", "interrupted", "cancelled"}
                \/ i \in ToSet(text[HomeOf(i)])
          /\ ~alive[HomeOf(i)] => status[i] \in {"free", "gone"}
          /\ \A j \in Ids : i # j /\ status[i] # "free" /\ status[j] # "free" => sendOf[i] # sendOf[j]
    /\ \A t \in Threads : /\ IsInjective(text[t])
                          /\ \A i \in ToSet(text[t]) : HomeOf(i) = t
                          /\ ~alive[t] => text[t] = <<>>

PlainInv == IInv /\ SlotsInv /\ PlainFits

\* Most steps add words to the transcripts, or none: words that wait, or that
\* a crash interrupted, and that were not said before.
Adds(w) ==
    /\ w \in [Threads -> Seq(Ids)]
    /\ \A t \in Threads :
          /\ IsInjective(w[t])
          /\ \A i \in ToSet(w[t]) : /\ HomeOf(i) = t /\ alive[t] /\ i \notin ToSet(text[t])
                                    /\ status[i] \in {"pending", "dispatching", "interrupted"}
    /\ text' = [t \in Threads |-> text[t] \o w[t]]
    /\ UNCHANGED <<sendOf, alive>>
    /\ \A r \in Requests : steer'[r] = NoSteer
    /\ requeued' \subseteq {i \in Ids : status'[i] = "pending" /\ handed[i] > 0}
    /\ \A i \in Ids :
          /\ \/ status'[i] = status[i]
             \/ /\ status[i] \in {"pending", "dispatching", "interrupted"}
                /\ status'[i] \in {"dispatching", "interrupted", "gone"}
          /\ status'[i] = "pending" => \A t \in Threads : i \notin ToSet(w[t])
          /\ status'[i] = "gone" /\ status[i] # "gone" => i \in ToSet(text'[HomeOf(i)])
          /\ handed'[i] # handed[i] => status'[i] \notin {"free", "pending", "cancelled"}
          /\ phase' = "up" => status'[i] # "interrupted"

\* The lines of a thread after words were added.
LEMMA AddedLines ==
    ASSUME TypeOK, NEW w, Adds(w), NEW t \in Threads
    PROVE  /\ text[t] \in Seq(Ids) /\ w[t] \in Seq(Ids) /\ text'[t] = text[t] \o w[t]
           /\ ToSet(text'[t]) = ToSet(text[t]) \cup ToSet(w[t])
           /\ ToSet(text[t]) \subseteq Ids /\ ToSet(w[t]) \subseteq Ids
<1>1. text[t] \in Seq(Ids) /\ w[t] \in Seq(Ids) /\ text'[t] = text[t] \o w[t]
  BY DEF Adds, TypeOK
<1>2. ToSet(text[t] \o w[t]) = ToSet(text[t]) \cup ToSet(w[t])
  BY <1>1, ConcatSet
<1>3. \A s \in Seq(Ids) : ToSet(s) \subseteq Ids
  BY DEF ToSet
<1>4. ToSet(text[t]) \subseteq Ids /\ ToSet(w[t]) \subseteq Ids
  BY <1>1, <1>3
<1>5. ToSet(text'[t]) = ToSet(text[t]) \cup ToSet(w[t])
  BY <1>1, <1>2
<1> QED
  BY <1>1, <1>4, <1>5

LEMMA AddsPlain ==
    ASSUME PlainInv, TypeOK', NEW w, Adds(w)
    PROVE  PlainFits'
<1>0. TypeOK /\ PlainFits /\ UNCHANGED <<sendOf, alive>> /\ \A i \in Ids : HomeOf(i)' = HomeOf(i)
  BY Parts DEF PlainInv, Adds, HomeOf
<1>1. \A t \in Threads : ToSet(text'[t]) = ToSet(text[t]) \cup ToSet(w[t])
  BY <1>0, AddedLines
<1>2. requeued' = {}
  <2> SUFFICES ASSUME NEW i \in Ids, status'[i] = "pending", handed[i] > 0 PROVE FALSE
    BY DEF Adds
  <2>1. status[i] = "pending"
    BY DEF Adds
  <2> QED
    BY <1>0, <2>1 DEF PlainFits
<1>3. ASSUME NEW i \in Ids
      PROVE  /\ status'[i] \notin {"posting", "bounced"}
             /\ phase' = "up" => status'[i] # "interrupted"
             /\ (status'[i] = "free") = (status[i] = "free")
  BY <1>0 DEF Adds, PlainFits
<1>4. ASSUME NEW i \in Ids, status'[i] \in {"free", "pending", "cancelled"}
      PROVE  handed'[i] = 0 /\ \A t \in Threads : i \notin ToSet(text'[t])
  <2>1. status[i] = status'[i] /\ handed'[i] = handed[i]
    BY <1>4 DEF Adds
  <2>2. \A t \in Threads : i \notin ToSet(w[t])
    BY <1>4, <2>1 DEF Adds
  <2>3. handed[i] = 0 /\ \A t \in Threads : i \notin ToSet(text[t])
    BY <1>0, <1>4, <2>1 DEF PlainFits
  <2> QED
    BY <1>1, <2>1, <2>2, <2>3
<1>5. ASSUME NEW i \in Ids, status'[i] # "free", alive[HomeOf(i)]
      PROVE  \/ status'[i] \in {"pending", "dispatching", "interrupted", "cancelled"}
             \/ i \in ToSet(text'[HomeOf(i)])
  <2>1. HomeOf(i) \in Threads /\ status[i] # "free"
    BY <1>0, <1>3, <1>5, Elements
  <2>2. \/ status[i] \in {"pending", "dispatching", "interrupted", "cancelled"}
        \/ i \in ToSet(text[HomeOf(i)])
    BY <1>0, <1>5, <2>1 DEF PlainFits
  <2>3. \/ status'[i] = status[i] \/ status'[i] \in {"dispatching", "interrupted"}
        \/ i \in ToSet(text'[HomeOf(i)])
    BY DEF Adds
  <2> QED
    BY <1>1, <2>1, <2>2, <2>3
<1>6. ASSUME NEW i \in Ids, ~alive[HomeOf(i)] PROVE status'[i] \in {"free", "gone"}
  BY <1>0, <1>6 DEF PlainFits, Adds
<1>7. ASSUME NEW t \in Threads
      PROVE  /\ IsInjective(text'[t])
             /\ \A i \in ToSet(text'[t]) : HomeOf(i) = t
             /\ ~alive[t] => text'[t] = <<>>
  <2>0. /\ text[t] \in Seq(Ids) /\ w[t] \in Seq(Ids) /\ text'[t] = text[t] \o w[t]
        /\ ToSet(text'[t]) = ToSet(text[t]) \cup ToSet(w[t])
    BY <1>0, AddedLines
  <2>1. IsInjective(text[t]) /\ IsInjective(w[t]) /\ ToSet(text[t]) \cap ToSet(w[t]) = {}
    BY <1>0 DEF PlainFits, Adds
  <2>2. IsInjective(text'[t])
    BY <2>0, <2>1, ConcatInjectivity
  <2>3. \A i \in ToSet(text'[t]) : HomeOf(i) = t
    BY <1>0, <2>0 DEF PlainFits, Adds
  <2>4. ASSUME ~alive[t] PROVE text'[t] = <<>>
    <3>1. text[t] = <<>> /\ ToSet(w[t]) = {}
      BY <1>0, <2>4 DEF PlainFits, Adds
    <3>2. w[t] = <<>>
      <4>1. ~(1 \in DOMAIN w[t])
        BY <3>1 DEF ToSet
      <4> QED
        BY <2>0, <4>1
    <3> QED
      BY <2>0, <3>1, <3>2
  <2> QED
    BY <2>2, <2>3, <2>4
<1>8. \A i, j \in Ids : i # j /\ status'[i] # "free" /\ status'[j] # "free" => sendOf[i] # sendOf[j]
  BY <1>0, <1>3 DEF PlainFits
<1>9. \A r \in Requests : steer'[r] = NoSteer
  BY DEF Adds
<1>10. NoSteer' = NoSteer
  BY DEF NoSteer
<1>11. /\ \A i \in Ids :
          /\ status'[i] \notin {"posting", "bounced"}
          /\ phase' = "up" => status'[i] # "interrupted"
          /\ status'[i] \in {"free", "pending", "cancelled"} =>
                handed'[i] = 0 /\ \A t \in Threads : i \notin ToSet(text'[t])
          /\ status'[i] # "free" /\ alive'[HomeOf(i)'] =>
                \/ status'[i] \in {"pending", "dispatching", "interrupted", "cancelled"}
                \/ i \in ToSet(text'[HomeOf(i)'])
          /\ ~alive'[HomeOf(i)'] => status'[i] \in {"free", "gone"}
          /\ \A j \in Ids : i # j /\ status'[i] # "free" /\ status'[j] # "free" => sendOf'[i] # sendOf'[j]
  BY <1>0, <1>3, <1>4, <1>5, <1>6, <1>8
<1>12. \A t \in Threads : /\ IsInjective(text'[t])
                          /\ \A i \in ToSet(text'[t]) : HomeOf(i)' = t
                          /\ ~alive'[t] => text'[t] = <<>>
  <2> SUFFICES ASSUME NEW t \in Threads
               PROVE  /\ IsInjective(text'[t])
                      /\ \A i \in ToSet(text'[t]) : HomeOf(i)' = t
                      /\ ~alive'[t] => text'[t] = <<>>
    OBVIOUS
  <2>1. ToSet(text'[t]) \subseteq Ids
    BY <1>0, AddedLines
  <2> QED
    BY <1>0, <1>7, <2>1
<1> QED
  BY <1>2, <1>9, <1>10, <1>11, <1>12 DEF PlainFits

\* What waits for a live thread has not been said.
LEMMA WordsOfLine ==
    ASSUME PlainInv, NEW t \in Threads, alive[t]
    PROVE  /\ queue[t] \in Seq(Ids) /\ IsInjective(queue[t])
           /\ \A i \in ToSet(queue[t]) : /\ i \in Ids /\ HomeOf(i) = t /\ i \notin ToSet(text[t])
                                         /\ status[i] = "pending"
<1>0. IInv /\ PlainFits
  BY DEF PlainInv
<1>1. queue[t] \in Seq(Ids) /\ IsInjective(queue[t])
  BY <1>0, Parts DEF TypeOK, Once
<1>2. ASSUME NEW i \in ToSet(queue[t])
      PROVE  i \in Ids /\ HomeOf(i) = t /\ i \notin ToSet(text[t]) /\ status[i] = "pending"
  <2>1. i \in Ids /\ HomeOf(i) = t
    BY <1>0, Parts, Elements DEF Homed
  <2>2. status[i] = "pending"
    BY <1>0, <2>1, Parts DEF Backed, Waits
  <2> QED
    BY <1>0, <2>1, <2>2 DEF PlainFits
<1> QED
  BY <1>1, <1>2

\* A drain adds the words of the threads that it starts.
LEMMA DrainedAdds ==
    ASSUME PlainInv, NEW failing, NEW ah, NEW tn, NEW bt, NEW st, NEW gr, NEW co,
           text' = Drained(failing, queue, ah, tn, bt, st, text, gr, co).text,
           status' = Drained(failing, queue, ah, tn, bt, st, text, gr, co).status,
           \A i \in Ids : /\ status[i] # "interrupted"
                          /\ \/ st[i] = status[i]
                             \/ status[i] = "dispatching" /\ st[i] = "gone" /\ i \in ToSet(text[HomeOf(i)]),
           UNCHANGED <<sendOf, alive, steer, requeued, handed>>
    PROVE  \E w : Adds(w)
<1> DEFINE fires == {t \in Threads : Fires(t, failing, queue, ah, tn, gr, co)}
           starts == fires \ failing
           w == [t \in Threads |-> IF t \in fires THEN queue[t] ELSE <<>>]
           taken(i, ts) == \E t \in ts : i \in ToSet(queue[t])
<1>0. IInv /\ PlainFits /\ TypeOK
  BY Parts DEF PlainInv
<1>1. /\ text' = [t \in Threads |-> IF t \in fires THEN text[t] \o queue[t] ELSE text[t]]
      /\ status' = [i \in Ids |-> IF taken(i, starts) THEN "dispatching"
                                  ELSE IF taken(i, fires) THEN "gone" ELSE st[i]]
  BY DEF Drained
<1>2. fires \subseteq Threads /\ \A t \in fires : alive[t]
  BY DEF Fires, MayStart
<1>a. starts \subseteq fires
  OBVIOUS
<1> HIDE DEF fires, starts
<1>3. /\ w \in [Threads -> Seq(Ids)]
      /\ \A t \in Threads : /\ t \in fires => w[t] = queue[t]
                            /\ t \notin fires => w[t] = <<>>
      /\ \A t \in Threads : text[t] \in Seq(Ids)
  BY <1>0 DEF TypeOK
<1>4. text' = [t \in Threads |-> text[t] \o w[t]]
  <2>1. \A t \in Threads : text[t] \o <<>> = text[t]
    BY <1>3
  <2> QED
    BY <1>1, <1>3, <2>1
<1> HIDE DEF w
<1>5. ASSUME NEW t \in Threads
      PROVE  /\ IsInjective(w[t])
             /\ \A i \in ToSet(w[t]) : /\ HomeOf(i) = t /\ alive[t] /\ i \notin ToSet(text[t])
                                       /\ status[i] \in {"pending", "dispatching", "interrupted"}
                                       /\ t \in fires /\ i \in ToSet(queue[t]) /\ i \in Ids
  <2>1. CASE t \in fires
    <3>1. w[t] = queue[t] /\ alive[t]
      BY <1>2, <1>3, <2>1
    <3> QED
      BY <2>1, <3>1, WordsOfLine
  <2>2. CASE t \notin fires
    <3>1. w[t] = <<>>
      BY <1>3, <2>2
    <3> QED
      BY <3>1, EmptySet DEF IsInjective
  <2> QED
    BY <2>1, <2>2
<1>6. ASSUME NEW i \in Ids
      PROVE  /\ \/ status'[i] = status[i]
                \/ /\ status[i] \in {"pending", "dispatching", "interrupted"}
                   /\ status'[i] \in {"dispatching", "interrupted", "gone"}
             /\ status'[i] = "pending" => \A t \in Threads : i \notin ToSet(w[t])
             /\ status'[i] = "gone" /\ status[i] # "gone" => i \in ToSet(text'[HomeOf(i)])
             /\ handed'[i] # handed[i] => status'[i] \notin {"free", "pending", "cancelled"}
             /\ phase' = "up" => status'[i] # "interrupted"
  <2>0. HomeOf(i) \in Threads /\ handed'[i] = handed[i]
    BY <1>0, Elements
  <2>1. \A t \in Threads : ToSet(text'[t]) = ToSet(text[t]) \cup ToSet(w[t])
    <3> SUFFICES ASSUME NEW t \in Threads PROVE ToSet(text'[t]) = ToSet(text[t]) \cup ToSet(w[t])
      OBVIOUS
    <3>1. text'[t] = text[t] \o w[t] /\ text[t] \in Seq(Ids) /\ w[t] \in Seq(Ids)
      BY <1>3, <1>4
    <3>2. ToSet(text[t] \o w[t]) = ToSet(text[t]) \cup ToSet(w[t])
      BY <3>1, ConcatSet
    <3> QED
      BY <3>1, <3>2
  <2>2. CASE taken(i, fires)
    <3>1. PICK t \in fires : i \in ToSet(queue[t])
      BY <2>2
    <3>2. t \in Threads /\ alive[t] /\ HomeOf(i) = t /\ status[i] = "pending"
      BY <1>2, <3>1, WordsOfLine
    <3>3. i \in ToSet(text'[HomeOf(i)])
      BY <1>3, <2>1, <3>1, <3>2
    <3>4. status'[i] \in {"dispatching", "gone"}
      BY <1>1, <2>2
    <3> QED
      BY <2>0, <3>2, <3>3, <3>4
  <2>3. CASE ~taken(i, fires)
    <3>1. status'[i] = st[i]
      BY <1>1, <1>a, <2>3
    <3>2. \A t \in Threads : i \notin ToSet(w[t])
      BY <1>5, <2>3
    <3>3. st[i] = status[i] \/ (status[i] = "dispatching" /\ st[i] = "gone" /\ i \in ToSet(text[HomeOf(i)]))
      OBVIOUS
    <3>4. status[i] # "interrupted"
      OBVIOUS
    <3> QED
      BY <2>0, <2>1, <3>1, <3>2, <3>3, <3>4
  <2> QED
    BY <2>2, <2>3
<1>7. /\ \A r \in Requests : steer'[r] = NoSteer
      /\ requeued' = {}
  BY <1>0 DEF PlainFits
<1>8. Adds(w)
  BY <1>3, <1>4, <1>5, <1>6, <1>7 DEF Adds
<1> QED
  BY <1>8

\* No row is being recovered when the server drains.
LEMMA Settled ==
    ASSUME PlainInv, phase = "up" \/ Recoverable = {}
    PROVE  \A i \in Ids : status[i] # "interrupted"
<1>1. PlainFits
  BY DEF PlainInv
<1>2. CASE phase = "up"
  BY <1>1, <1>2 DEF PlainFits
<1>3. CASE Recoverable = {}
  BY <1>3 DEF Recoverable
<1> QED
  BY <1>2, <1>3

LEMMA DrainAdds ==
    ASSUME PlainInv, phase = "up" \/ Recoverable = {}, NEW ah, NEW tn, NEW bt, NEW st, NEW gr, NEW co,
           Drain(queue, ah, tn, bt, st, text, gr, co),
           \A i \in Ids : \/ st[i] = status[i]
                          \/ status[i] = "dispatching" /\ st[i] = "gone" /\ i \in ToSet(text[HomeOf(i)]),
           UNCHANGED <<sendOf, alive, steer, requeued, handed>>
    PROVE  \E w : Adds(w)
<1>1. PICK failing \in SUBSET Threads :
        LET d == Drained(failing, queue, ah, tn, bt, st, text, gr, co)
        IN text' = d.text /\ status' = d.status
  BY Zenon DEF Drain
<1>2. \A i \in Ids : status[i] # "interrupted"
  BY Settled
<1> QED
  BY <1>1, <1>2, DrainedAdds

\* The rows of a turn that is over are of words that were said.
LEMMA RetiredSaid ==
    ASSUME PlainInv, NEW t \in Threads, phase = "up"
    PROVE  \A i \in Ids : \/ Retired(t)[i] = status[i]
                          \/ /\ status[i] = "dispatching" /\ Retired(t)[i] = "gone"
                             /\ i \in ToSet(text[HomeOf(i)])
<1>1. IInv
  BY DEF PlainInv
<1> QED
  BY <1>1, Parts DEF Retired, LinesFit

\* A step that moves no row and no line.
LEMMA NothingAdded ==
    ASSUME PlainInv, UNCHANGED <<sendOf, alive, text, status>>,
           steer' = steer \/ steer' = [r \in Requests |-> NoSteer],
           requeued' \subseteq requeued \cup {i \in Ids : status'[i] = "pending" /\ handed[i] > 0},
           \A i \in Ids : handed'[i] # handed[i] => status[i] \notin {"free", "pending", "cancelled"},
           phase' = "up" => \A i \in Ids : status[i] # "interrupted"
    PROVE  \E w : Adds(w)
<1> DEFINE w == [t \in Threads |-> <<>>]
<1>0. TypeOK /\ PlainFits
  BY Parts DEF PlainInv
<1>1. /\ w \in [Threads -> Seq(Ids)] /\ \A t \in Threads : w[t] = <<>> /\ ToSet(w[t]) = {} /\ IsInjective(w[t])
  BY EmptySet DEF IsInjective
<1>2. text' = [t \in Threads |-> text[t] \o w[t]]
  <2>1. \A t \in Threads : text[t] \in Seq(Ids)
    BY <1>0 DEF TypeOK
  <2>2. \A t \in Threads : text[t] \o <<>> = text[t]
    BY <2>1
  <2> QED
    BY <1>0, <2>2 DEF TypeOK
<1> HIDE DEF w
<1>3. \A r \in Requests : steer'[r] = NoSteer
  BY <1>0 DEF PlainFits
<1>4. requeued' \subseteq {i \in Ids : status'[i] = "pending" /\ handed[i] > 0}
  BY <1>0 DEF PlainFits
<1>5. Adds(w)
  BY <1>1, <1>2, <1>3, <1>4 DEF Adds
<1> QED
  BY <1>5

LEMMA AddsCallAdapter ==
    ASSUME PlainInv, NEW t \in Threads, CallAdapter(t)
    PROVE  \E w : Adds(w)
<1>1. /\ UNCHANGED <<sendOf, alive, text, status, steer, requeued, phase>> /\ phase = "up"
      /\ turn[t] = "setup" /\ alive[t]
      /\ handed' = [i \in Ids |-> IF i \in ToSet(batch[t]) THEN handed[i] + 1 ELSE handed[i]]
  BY DEF CallAdapter, durable
<1>2. \A i \in Ids : handed'[i] # handed[i] => status[i] \notin {"free", "pending", "cancelled"}
  <2>1. IInv
    BY DEF PlainInv
  <2>2. \A i \in ToSet(batch[t]) : status[i] \in {"direct", "dispatching"}
    BY <1>1, <2>1, Parts DEF HandedFits
  <2> QED
    BY <1>1, <2>2
<1>3. \A i \in Ids : status[i] # "interrupted"
  BY <1>1, Settled
<1> QED
  BY <1>1, <1>2, <1>3, NothingAdded

\* The steps of a live turn that end with a drain.
LEMMA AddsTurn ==
    ASSUME PlainInv, NEW t \in Threads, DispatchAcked(t) \/ TurnCompleted(t) \/ SetupEnds(t)
    PROVE  \E w : Adds(w)
<1>1. phase = "up" /\ phase' = "up" /\ UNCHANGED <<sendOf, alive, steer, requeued, handed>>
  BY DEF DispatchAcked, TurnCompleted, SetupEnds, TurnVarsKept
<1>2. CASE UNCHANGED <<text, status>>
  <2>1. \A i \in Ids : status[i] # "interrupted"
    BY <1>1, Settled
  <2> QED
    BY <1>1, <1>2, <2>1, NothingAdded
<1>3. CASE Drain(queue, ahead, [turn EXCEPT ![t] = "early"], batch, status, text, group, coord)
  BY <1>1, <1>3, DrainAdds
<1>4. CASE Drain(queue, ahead, [turn EXCEPT ![t] = "idle"], [batch EXCEPT ![t] = <<>>],
                 Retired(t), text, group, coord)
  BY <1>1, <1>4, DrainAdds, RetiredSaid
<1> QED
  BY <1>2, <1>3, <1>4 DEF DispatchAcked, TurnCompleted, SetupEnds

LEMMA AddsDrains ==
    ASSUME PlainInv, GroupTurnEnds \/ Listen \/ \E t \in Threads : WorkReturned(t)
    PROVE  \E w : Adds(w)
<1>1. /\ phase = "up" \/ Recoverable = {} 
      /\ UNCHANGED <<sendOf, alive, steer, requeued, handed>>
      /\ \E gr, co : Drain(queue, ahead, turn, batch, status, text, gr, co)
  BY DEF GroupTurnEnds, Listen, WorkReturned
<1> QED
  BY <1>1, DrainAdds

LEMMA AddsNothing ==
    ASSUME PlainInv, \/ GroupTurnStarts \/ \E t \in Threads : WorkHandedOut(t)
                     \/ \E i \in Ids : Restore(i)
                     \/ UNCHANGED vars
    PROVE  \E w : Adds(w)
<1>1. UNCHANGED <<sendOf, alive, text, status, steer, requeued, handed, phase>>
  BY DEF GroupTurnStarts, WorkHandedOut, Restore, vars, durable, memory
<1>2. phase = "up" => \A i \in Ids : status[i] # "interrupted"
  BY Settled
<1> QED
  BY <1>1, <1>2, NothingAdded

\* Without live steering, no words are lifted, no request waits for an engine.
LEMMA NeverSteers ==
    ASSUME Steerable = {}, PlainInv
    PROVE  /\ \A t \in Threads : ~Live(t)
           /\ \A i \in Ids : ~PostTaken(i) /\ \A o \in Outcomes : ~PostAnswered(i, o)
           /\ \A r \in Requests, t \in Threads : ~HoldAndAsk(r, t)
           /\ \A r \in Requests : ~HeldTaken(r) /\ \A o \in Outcomes : ~HeldAnswered(r, o)
           /\ \A r \in Requests, n \in Ids : ~CrashInSteer(r, n)
<1>1. \A t \in Threads : ~Live(t)
  BY DEF Live
<1>2. /\ \A i \in Ids : status[i] # "posting"
      /\ \A r \in Requests : steer[r].phase = "none"
  <2>1. NoSteer.phase = "none"
    BY DEF NoSteer
  <2> QED
    BY <2>1 DEF PlainInv, PlainFits
<1> QED
  BY <1>1, <1>2 DEF PostTaken, PostAnswered, HoldAndAsk, HeldTaken, HeldAnswered, CrashInSteer

LEMMA AddsHoldRefused ==
    ASSUME PlainInv, NEW t \in Threads, HoldRefused(t)
    PROVE  \E w : Adds(w)
<1>1. phase = "up" /\ UNCHANGED <<sendOf, alive, steer, requeued, handed, phase>>
  BY DEF HoldRefused
<1>2. CASE Busy(t)
  <2>1. UNCHANGED <<text, status>>
    BY <1>2 DEF HoldRefused
  <2>2. \A i \in Ids : status[i] # "interrupted"
    BY <1>1, Settled
  <2> QED
    BY <1>1, <2>1, <2>2, NothingAdded
<1>3. CASE ~Busy(t)
  <2>1. Drain(queue, AtTheEnd(ahead, queue, t), turn, batch, status, text, group, coord)
    BY <1>3 DEF HoldRefused
  <2> QED
    BY <1>1, <2>1, DrainAdds
<1> QED
  BY <1>2, <1>3

\* The first part of an injective sequence.
LEMMA FrontFacts ==
    ASSUME NEW S, NEW s \in Seq(S), NEW n \in Nat, n <= Len(s)
    PROVE  /\ SubSeq(s, 1, n) \in Seq(S) /\ ToSet(SubSeq(s, 1, n)) \subseteq ToSet(s)
           /\ IsInjective(s) => IsInjective(SubSeq(s, 1, n))
<1> DEFINE f == SubSeq(s, 1, n)
<1>1. f \in Seq(S) /\ Len(f) = n /\ \A k \in 1..n : f[k] = s[k]
  OBVIOUS
<1>2. DOMAIN s = 1..Len(s) /\ Len(s) \in Nat
  OBVIOUS
<1> HIDE DEF f
<1>3. DOMAIN f = 1..n /\ \A k \in 1..n : k \in 1..Len(s)
  BY <1>1, <1>2
<1>4. ToSet(f) \subseteq ToSet(s)
  BY <1>1, <1>2, <1>3 DEF ToSet
<1>5. IsInjective(s) => IsInjective(f)
  BY <1>1, <1>2, <1>3 DEF IsInjective
<1> QED
  BY <1>1, <1>4, <1>5 DEF f

\* What all crashes do to the state.
LEMMA WipedPlain ==
    ASSUME PlainInv, Wiped
    PROVE  /\ UNCHANGED <<sendOf, alive, handed>> /\ phase' = "recovering"
           /\ \A r \in Requests : steer'[r] = NoSteer
           /\ steer' = [r \in Requests |-> NoSteer]
           /\ requeued' = {i \in Ids : status'[i] = "pending" /\ handed[i] > 0}
           /\ \A i \in Ids : status[i] # "posting"
BY DEF Wiped, PlainInv, PlainFits

LEMMA AddsCrash ==
    ASSUME PlainInv, Crash
    PROVE  \E w : Adds(w)
<1>1. Wiped /\ text' = text /\ status' = Abandoned(status)
  BY DEF Crash
<1>2. TypeOK
  BY Parts DEF PlainInv
<1>3. status' = status
  BY <1>1, <1>2, WipedPlain DEF Abandoned, TypeOK
<1> QED
  BY <1>1, <1>3, WipedPlain, NothingAdded

LEMMA AddsCut ==
    ASSUME PlainInv, Wiped, phase = "up" \/ Recoverable = {}, NEW t \in Threads, NEW n \in 0..MaxIds,
           NEW failing, NEW tn, NEW st \in [Ids -> Statuses], NEW gr, NEW co,
           CutDrain(t, n, failing, tn, st, gr, co),
           \A i \in Ids : \/ st[i] = status[i]
                          \/ status[i] = "dispatching" /\ st[i] = "gone" /\ i \in ToSet(text[HomeOf(i)])
    PROVE  \E w : Adds(w)
<1> DEFINE fires == {u \in Threads : Fires(u, failing, queue, ahead, tn, gr, co)}
           before == {u \in fires : <<u, t>> \in ahead}
           claimed == UNION {ToSet(queue[u]) : u \in (before \ failing) \cup {t}}
           refused == UNION {ToSet(queue[u]) : u \in before \cap failing}
           w == [u \in Threads |-> IF u \in before THEN queue[u]
                                   ELSE IF u = t THEN SubSeq(queue[t], 1, n) ELSE <<>>]
<1>0. IInv /\ PlainFits /\ TypeOK
  BY Parts DEF PlainInv
<1>1. /\ n <= Len(queue[t]) /\ t \in fires
      /\ status' = Abandoned([i \in Ids |-> IF i \in claimed THEN "dispatching"
                                            ELSE IF i \in refused THEN "gone" ELSE st[i]])
      /\ text' = [u \in Threads |->
                     IF u \in before THEN text[u] \o queue[u]
                     ELSE IF u = t THEN text[t] \o SubSeq(queue[t], 1, n) ELSE text[u]]
  BY DEF CutDrain
<1>2. \A i \in Ids : status'[i] = IF i \in claimed THEN "dispatching" ELSE IF i \in refused THEN "gone"
                                 ELSE IF st[i] = "posting" THEN "gone" ELSE st[i]
  <2> HIDE DEF claimed, refused
  <2> QED
    BY <1>1 DEF Abandoned
<1>3. /\ before \subseteq Threads /\ \A u \in before \cup {t} : u \in Threads /\ alive[u]
  BY <1>1 DEF Fires, MayStart
<1>4. /\ \A i \in refused : \E u \in before : i \in ToSet(queue[u])
      /\ \A i \in claimed : \E u \in before \cup {t} : i \in ToSet(queue[u])
      /\ \A u \in before \cup {t} : \A i \in ToSet(queue[u]) : i \in claimed \/ i \in refused
  OBVIOUS
<1> HIDE DEF fires, before, claimed, refused
<1>5. n \in Nat /\ n <= Len(queue[t]) /\ queue[t] \in Seq(Ids) /\ IsInjective(queue[t])
  BY <1>1, <1>3, WordsOfLine
<1>6. /\ SubSeq(queue[t], 1, n) \in Seq(Ids) /\ ToSet(SubSeq(queue[t], 1, n)) \subseteq ToSet(queue[t])
      /\ IsInjective(SubSeq(queue[t], 1, n))
  BY <1>5, FrontFacts
<1>7. \A u \in Threads : text[u] \in Seq(Ids) /\ queue[u] \in Seq(Ids)
  BY <1>0 DEF TypeOK
<1>8. /\ w \in [Threads -> Seq(Ids)]
      /\ \A u \in Threads : /\ u \in before => w[u] = queue[u]
                            /\ u \notin before /\ u = t => w[u] = SubSeq(queue[t], 1, n)
                            /\ u \notin before /\ u # t => w[u] = <<>>
  BY <1>6, <1>7
<1>9. text' = [u \in Threads |-> text[u] \o w[u]]
  <2>1. \A u \in Threads : text[u] \o <<>> = text[u]
    BY <1>7
  <2> QED
    BY <1>1, <1>8, <2>1
<1> HIDE DEF w
<1>10. ASSUME NEW u \in Threads
       PROVE  /\ IsInjective(w[u])
              /\ \A i \in ToSet(w[u]) : /\ HomeOf(i) = u /\ alive[u] /\ i \notin ToSet(text[u])
                                        /\ status[i] \in {"pending", "dispatching", "interrupted"}
                                        /\ u \in before \cup {t} /\ i \in ToSet(queue[u])
  <2>1. CASE u \in before
    <3>1. w[u] = queue[u] /\ alive[u]
      BY <1>3, <1>8, <2>1
    <3> QED
      BY <2>1, <3>1, WordsOfLine
  <2>2. CASE u \notin before /\ u = t
    <3>1. w[u] = SubSeq(queue[t], 1, n) /\ alive[t]
      BY <1>3, <1>8, <2>2
    <3>2. IsInjective(w[u]) /\ ToSet(w[u]) \subseteq ToSet(queue[t])
      BY <1>6, <3>1
    <3> QED
      BY <2>2, <3>1, <3>2, WordsOfLine
  <2>3. CASE u \notin before /\ u # t
    <3>1. w[u] = <<>>
      BY <1>8, <2>3
    <3> QED
      BY <3>1, EmptySet DEF IsInjective
  <2> QED
    BY <2>1, <2>2, <2>3
<1>11. ASSUME NEW i \in Ids
       PROVE  /\ \/ status'[i] = status[i]
                 \/ /\ status[i] \in {"pending", "dispatching", "interrupted"}
                    /\ status'[i] \in {"dispatching", "interrupted", "gone"}
              /\ status'[i] = "pending" => \A u \in Threads : i \notin ToSet(w[u])
              /\ status'[i] = "gone" /\ status[i] # "gone" => i \in ToSet(text'[HomeOf(i)])
  <2>0. HomeOf(i) \in Threads /\ status[i] # "posting"
    BY <1>0, WipedPlain, Elements
  <2>1. ASSUME NEW u \in Threads PROVE ToSet(text'[u]) = ToSet(text[u]) \cup ToSet(w[u])
    <3>1. text'[u] = text[u] \o w[u] /\ text[u] \in Seq(Ids) /\ w[u] \in Seq(Ids)
      BY <1>7, <1>8, <1>9
    <3>2. ToSet(text[u] \o w[u]) = ToSet(text[u]) \cup ToSet(w[u])
      BY <3>1, ConcatSet
    <3> QED
      BY <3>1, <3>2
  <2>2. CASE i \in claimed
    <3>1. PICK u \in before \cup {t} : i \in ToSet(queue[u])
      BY <1>4, <2>2
    <3>2. status[i] = "pending" /\ status'[i] = "dispatching"
      BY <1>2, <1>3, <2>2, <3>1, WordsOfLine
    <3> QED
      BY <3>2
  <2>3. CASE i \notin claimed /\ i \in refused
    <3>1. PICK u \in before : i \in ToSet(queue[u])
      BY <1>4, <2>3
    <3>2. status[i] = "pending" /\ status'[i] = "gone" /\ HomeOf(i) = u /\ u \in Threads
      BY <1>2, <1>3, <2>3, <3>1, WordsOfLine
    <3>3. i \in ToSet(w[u])
      BY <1>3, <1>8, <3>1
    <3> QED
      BY <2>1, <3>2, <3>3
  <2>4. CASE i \notin claimed /\ i \notin refused
    <3>1. status'[i] = IF st[i] = "posting" THEN "gone" ELSE st[i]
      BY <1>2, <2>4
    <3>2. \A u \in Threads : i \notin ToSet(w[u])
      BY <1>4, <1>10, <2>4
    <3>3. st[i] = status[i] \/ (status[i] = "dispatching" /\ st[i] = "gone" /\ i \in ToSet(text[HomeOf(i)]))
      OBVIOUS
    <3> QED
      BY <2>0, <2>1, <3>1, <3>2, <3>3
  <2> QED
    BY <2>2, <2>3, <2>4
<1>12. Adds(w)
  BY <1>8, <1>9, <1>10, <1>11, WipedPlain DEF Adds
<1> QED
  BY <1>12

LEMMA AddsCrashInDrain ==
    ASSUME PlainInv, NEW t \in Threads, NEW n \in 0..MaxIds, CrashInDrain(t, n)
    PROVE  \E w : Adds(w)
<1>1. Wiped /\ status \in [Ids -> Statuses]
  BY Parts DEF CrashInDrain, TypeOK, PlainInv
<1>2. ASSUME NEW failing, NEW tn, NEW gr, NEW co, phase = "up" \/ Recoverable = {},
             CutDrain(t, n, failing, tn, status, gr, co)
      PROVE  \E w : Adds(w)
  BY <1>1, <1>2, AddsCut
<1>3. ASSUME NEW failing, NEW u \in Threads, phase = "up",
             CutDrain(t, n, failing, [turn EXCEPT ![u] = "idle"], Retired(u), group, coord)
      PROVE  \E w : Adds(w)
  <2>1. Retired(u) \in [Ids -> Statuses]
    BY <1>1 DEF Retired, Statuses
  <2>2. \A i \in Ids : \/ Retired(u)[i] = status[i]
                       \/ /\ status[i] = "dispatching" /\ Retired(u)[i] = "gone"
                          /\ i \in ToSet(text[HomeOf(i)])
    BY <1>3, RetiredSaid
  <2> QED
    BY <1>1, <1>3, <2>1, <2>2, AddsCut
<1> QED
  BY <1>2, <1>3 DEF CrashInDrain

\* One write of the boot loop: only the line that is missing is added.
LEMMA AddsRecover ==
    ASSUME PlainInv, NEW i \in Ids, Recover(i)
    PROVE  \E w : Adds(w)
<1> DEFINE t == HomeOf(i)
           new == text' # text
           w == [u \in Threads |-> IF u = t /\ new THEN <<i>> ELSE <<>>]
<1>0. /\ IInv /\ PlainFits /\ TypeOK /\ t \in Threads
      /\ \A u \in Threads : text[u] \in Seq(Ids) /\ DOMAIN text = Threads
      /\ phase = "recovering" /\ phase' = "recovering" /\ status[i] \in {"dispatching", "interrupted"}
      /\ UNCHANGED <<sendOf, alive, steer, requeued, handed>>
      /\ text = [u \in Threads |-> text[u]] /\ status = [j \in Ids |-> status[j]]
  BY Parts, Elements DEF PlainInv, Recover, Recoverable, memory, TypeOK
<1>1. \/ text' = text /\ status' = [status EXCEPT ![i] = "interrupted"]
      \/ /\ status[i] = "interrupted" /\ i \notin ToSet(text[t]) /\ status' = status
         /\ text' = [text EXCEPT ![t] = Append(@, i)]
      \/ text' = text /\ status' = status
      \/ i \in ToSet(text[t]) /\ text' = text /\ status' = [status EXCEPT ![i] = "gone"]
  BY DEF Recover, LineMissing
<1>2. alive[t]
  BY <1>0 DEF PlainFits
<1>3. /\ <<i>> \in Seq(Ids) /\ ToSet(<<i>>) = {i} /\ IsInjective(<<i>>)
      /\ ToSet(<<>>) = {} /\ IsInjective(<<>>)
  BY DEF ToSet, IsInjective
<1>4. new => /\ status[i] = "interrupted" /\ i \notin ToSet(text[t]) /\ status' = status
             /\ text' = [text EXCEPT ![t] = Append(@, i)]
  BY <1>1
<1> HIDE DEF new
<1>5. /\ w \in [Threads -> Seq(Ids)]
      /\ \A u \in Threads : w[u] = IF u = t /\ new THEN <<i>> ELSE <<>>
  BY <1>3
<1>6. text' = [u \in Threads |-> text[u] \o w[u]]
  <2>1. \A u \in Threads : text[u] \o <<>> = text[u] /\ text[u] \o <<i>> = Append(text[u], i)
    BY <1>0
  <2>2. CASE new
    <3>1. text' = [u \in Threads |-> IF u = t THEN Append(text[t], i) ELSE text[u]]
      BY <1>0, <1>4, <2>2
    <3> QED
      BY <1>5, <2>1, <2>2, <3>1
  <2>3. CASE ~new
    <3>1. text' = text
      BY <2>3 DEF new
    <3>2. \A u \in Threads : text[u] \o w[u] = text[u]
      BY <1>5, <2>1, <2>3
    <3> QED
      BY <1>0, <3>1, <3>2
  <2> QED
    BY <2>2, <2>3
<1> HIDE DEF w
<1>7. \A u \in Threads :
          /\ IsInjective(w[u])
          /\ \A j \in ToSet(w[u]) : j = i /\ u = t /\ new
  BY <1>3, <1>5
<1>8. ASSUME NEW j \in Ids
      PROVE  /\ \/ status'[j] = status[j]
                \/ /\ status[j] \in {"pending", "dispatching", "interrupted"}
                   /\ status'[j] \in {"dispatching", "interrupted", "gone"}
             /\ status'[j] = "pending" => j # i
             /\ status'[j] = "gone" /\ status[j] # "gone" => j = i /\ text' = text /\ i \in ToSet(text[t])
  <2>1. CASE status' = status
    BY <1>0, <2>1
  <2>2. CASE status' = [status EXCEPT ![i] = "interrupted"]
    <3>1. status'[j] = IF j = i THEN "interrupted" ELSE status[j]
      BY <1>0, <2>2
    <3> QED
      BY <1>0, <3>1
  <2>3. CASE i \in ToSet(text[t]) /\ text' = text /\ status' = [status EXCEPT ![i] = "gone"]
    <3>1. status'[j] = IF j = i THEN "gone" ELSE status[j]
      BY <1>0, <2>3
    <3> QED
      BY <1>0, <2>3, <3>1
  <2> QED
    BY <1>1, <2>1, <2>2, <2>3
<1>9. /\ \A r \in Requests : steer'[r] = NoSteer
      /\ requeued' = {}
  BY <1>0 DEF PlainFits
<1>10. \A u \in Threads :
          /\ IsInjective(w[u])
          /\ \A j \in ToSet(w[u]) : /\ HomeOf(j) = u /\ alive[u] /\ j \notin ToSet(text[u])
                                    /\ status[j] \in {"pending", "dispatching", "interrupted"}
  BY <1>2, <1>4, <1>7
<1>11. \A j \in Ids :
          /\ \/ status'[j] = status[j]
             \/ /\ status[j] \in {"pending", "dispatching", "interrupted"}
                /\ status'[j] \in {"dispatching", "interrupted", "gone"}
          /\ status'[j] = "pending" => \A u \in Threads : j \notin ToSet(w[u])
          /\ status'[j] = "gone" /\ status[j] # "gone" => j \in ToSet(text'[HomeOf(j)])
          /\ handed'[j] # handed[j] => status'[j] \notin {"free", "pending", "cancelled"}
          /\ phase' = "up" => status'[j] # "interrupted"
  BY <1>0, <1>7, <1>8
<1>12. Adds(w)
  BY <1>0, <1>5, <1>6, <1>9, <1>10, <1>11 DEF Adds
<1> QED
  BY <1>12

-----------------------------------------------------------------------------
(* The other steps: a new send, a cancellation, a deletion. *)

\* A send that is not known has no instance: it is new.
LEMMA UnknownIsNew ==
    ASSUME PlainInv, NEW s \in Sends, phase = "up", alive[Home[s]], ~Known(s)
    PROVE  \A i \in Ids : status[i] # "free" => sendOf[i] # s
<1>0. IInv /\ PlainFits /\ TypeOK
  BY Parts DEF PlainInv
<1> SUFFICES ASSUME NEW i \in Ids, status[i] # "free", sendOf[i] = s PROVE FALSE
  OBVIOUS
<1>1. i \in IdsOf(s) /\ HomeOf(i) = Home[s]
  BY DEF IdsOf, HomeOf
<1>2. status[i] # "cancelled" /\ i \notin ToSet(text[Home[s]]) /\ i \notin ToSet(queue[Home[s]])
  BY <1>1 DEF Known
<1>3. status[i] \in {"pending", "dispatching", "interrupted"}
  BY <1>0, <1>1, <1>2 DEF PlainFits
<1>4. status[i] # "interrupted"
  BY <1>0 DEF PlainFits
<1>5. status[i] # "dispatching"
  BY <1>0, <1>1, <1>2, Parts DEF LinesFit
<1>6. status[i] # "pending"
  <2>1. status[i] = "pending" => Waits(i, queue, steer)
    BY <1>0, Parts DEF Backed
  <2>2. \A r \in Requests : steer[r].items = <<>>
    <3>1. NoSteer.items = <<>>
      BY DEF NoSteer
    <3> QED
      BY <1>0, <3>1 DEF PlainFits
  <2> QED
    BY <1>1, <1>2, <2>1, <2>2, EmptySet DEF Waits
<1> QED
  BY <1>3, <1>4, <1>5, <1>6

\* A new send waits, or is said at once.
Sent(s, i) ==
    /\ status[i] = "free" /\ phase = "up" /\ phase' = "up" /\ alive[Home[s]]
    /\ \A j \in Ids : status[j] # "free" => sendOf[j] # s
    /\ sendOf' = [sendOf EXCEPT ![i] = s]
    /\ \/ status' = [status EXCEPT ![i] = "pending"] /\ text' = text
       \/ /\ status' = [status EXCEPT ![i] = "direct"]
          /\ text' = [text EXCEPT ![Home[s]] = Append(@, i)]
    /\ UNCHANGED <<alive, steer, requeued, handed>>

LEMMA PostSends ==
    ASSUME PlainInv, Steerable = {}, NEW s \in Sends, NEW i \in Ids, Post(s, i)
    PROVE  Sent(s, i)
<1>1. /\ phase = "up" /\ alive[Home[s]] /\ ~Known(s) /\ status[i] = "free"
      /\ UNCHANGED <<alive, phase, steer, requeued, handed>>
      /\ Enqueue(s, i) \/ StartNow(s, i)
  BY NeverSteers, ConstantsAssumption DEF Post, NextId, StartOrQueue, Live
<1>2. \A j \in Ids : status[j] # "free" => sendOf[j] # s
  BY <1>1, UnknownIsNew
<1> QED
  BY <1>1, <1>2 DEF Sent, Enqueue, StartNow

LEMMA SentPlain ==
    ASSUME PlainInv, TypeOK', NEW s \in Sends, NEW i \in Ids, Sent(s, i)
    PROVE  PlainFits'
<1> DEFINE t == Home[s]
<1>0. /\ TypeOK /\ PlainFits /\ t \in Threads /\ phase = "up" /\ alive[t]
      /\ UNCHANGED <<alive, steer, requeued, handed>>
      /\ \A u \in Threads : text[u] \in Seq(Ids)
  BY Parts, Elements DEF PlainInv, Sent, TypeOK
<1>1. /\ \A j \in Ids : sendOf'[j] = IF j = i THEN s ELSE sendOf[j]
      /\ \A j \in Ids : HomeOf(j)' = IF j = i THEN t ELSE HomeOf(j)
      /\ \A j \in Ids \ {i} : status'[j] = status[j]
      /\ status'[i] \in {"pending", "direct"}
  BY <1>0 DEF Sent, TypeOK, HomeOf
<1>2. status[i] = "free" /\ handed[i] = 0 /\ \A u \in Threads : i \notin ToSet(text[u])
  BY <1>0 DEF Sent, PlainFits
<1>3. \/ text' = text /\ status'[i] = "pending"
      \/ status'[i] = "direct" /\ text' = [text EXCEPT ![t] = Append(text[t], i)]
  BY <1>0 DEF Sent, TypeOK
<1>4. ASSUME NEW u \in Threads
      PROVE  /\ IsInjective(text'[u])
             /\ ToSet(text'[u]) = IF u = t /\ status'[i] = "direct" THEN ToSet(text[u]) \cup {i} ELSE ToSet(text[u])
             /\ ~alive[u] => text'[u] = <<>>
  <2>1. CASE text'[u] = text[u] /\ (u # t \/ status'[i] # "direct")
    BY <1>0, <2>1 DEF PlainFits
  <2>2. CASE u = t /\ status'[i] = "direct" /\ text'[u] = Append(text[u], i)
    <3>1. IsInjective(text[u]) /\ i \notin ToSet(text[u])
      BY <1>0, <1>2 DEF PlainFits
    <3>2. IsInjective(Append(text[u], i))
      BY <1>0, <3>1, AppendInjectivity
    <3>3. ToSet(Append(text[u], i)) = ToSet(text[u]) \cup {i}
      BY <1>0, AppendSet
    <3>4. text'[u] = Append(text[u], i) /\ u = t /\ status'[i] = "direct" /\ alive[u]
      BY <1>0, <2>2
    <3> QED
      BY <3>2, <3>3, <3>4
  <2>3. CASE u # t
    <3>1. text'[u] = text[u]
      BY <1>0, <1>3, <2>3 DEF TypeOK
    <3> QED
      BY <2>1, <2>3, <3>1
  <2>4. CASE u = t /\ status'[i] = "direct"
    <3>1. text'[t] = Append(text[t], i)
      BY <1>0, <1>3, <2>4 DEF TypeOK
    <3> QED
      BY <2>2, <2>4, <3>1
  <2>5. CASE u = t /\ status'[i] # "direct"
    BY <1>3, <2>1, <2>5
  <2> QED
    BY <2>3, <2>4, <2>5
<1>5. \A u \in Threads : \A j \in ToSet(text'[u]) : HomeOf(j)' = u
  <2> SUFFICES ASSUME NEW u \in Threads, NEW j \in ToSet(text'[u]) PROVE HomeOf(j)' = u
    OBVIOUS
  <2>1. CASE j = i
    <3>1. u = t
      BY <1>2, <1>4, <2>1
    <3> QED
      BY <1>1, <2>1, <3>1
  <2>2. CASE j # i
    <3>1. j \in ToSet(text[u]) /\ j \in Ids
      BY <1>0, <1>4, <2>2, Elements
    <3>2. HomeOf(j) = u
      BY <1>0, <3>1 DEF PlainFits
    <3> QED
      BY <1>1, <2>2, <3>1, <3>2
  <2> QED
    BY <2>1, <2>2
<1>6. ASSUME NEW j \in Ids
      PROVE  /\ status'[j] \notin {"posting", "bounced"}
             /\ status'[j] # "interrupted"
             /\ status'[j] \in {"free", "pending", "cancelled"} =>
                   handed[j] = 0 /\ \A u \in Threads : j \notin ToSet(text'[u])
             /\ status'[j] # "free" /\ alive[HomeOf(j)'] =>
                   \/ status'[j] \in {"pending", "dispatching", "interrupted", "cancelled"}
                   \/ j \in ToSet(text'[HomeOf(j)'])
             /\ ~alive[HomeOf(j)'] => status'[j] \in {"free", "gone"}
  <2>1. CASE j = i
    BY <1>0, <1>1, <1>2, <1>4, <2>1
  <2>2. CASE j # i
    <3>1. status'[j] = status[j] /\ HomeOf(j)' = HomeOf(j) /\ HomeOf(j) \in Threads
      BY <1>0, <1>1, <2>2, Elements
    <3>2. \A u \in Threads : j \in ToSet(text'[u]) <=> j \in ToSet(text[u])
      BY <1>4, <2>2
    <3> QED
      BY <1>0, <3>1, <3>2 DEF PlainFits
  <2> QED
    BY <2>1, <2>2
<1>7. \A j, k \in Ids : j # k /\ status'[j] # "free" /\ status'[k] # "free" => sendOf'[j] # sendOf'[k]
  <2>1. \A j \in Ids : status[j] # "free" => sendOf[j] # s
    BY DEF Sent
  <2> QED
    BY <1>0, <1>1, <2>1 DEF PlainFits
<1>8. NoSteer' = NoSteer
  BY DEF NoSteer
<1>9. alive' = alive /\ handed' = handed /\ requeued' = {} /\ \A r \in Requests : steer'[r] = NoSteer
  BY <1>0 DEF PlainFits
<1> QED
  BY <1>4, <1>5, <1>6, <1>7, <1>8, <1>9 DEF PlainFits

\* Waiting words are taken back.
Withdrawn(i) ==
    /\ status[i] = "pending" /\ alive[HomeOf(i)]
    /\ status' = [status EXCEPT ![i] = "cancelled"]
    /\ UNCHANGED <<sendOf, text, alive, steer, requeued, handed, phase>>

LEMMA CancelWithdraws ==
    ASSUME PlainInv, NEW t \in Threads, NEW k \in Ids, Cancel(t, k)
    PROVE  \E i \in Ids : Withdrawn(i)
<1> DEFINE i == queue[t][k]
<1>1. /\ alive[t] /\ k \in DOMAIN queue[t] /\ status' = [status EXCEPT ![i] = "cancelled"]
      /\ UNCHANGED <<sendOf, text, alive, steer, requeued, handed, phase>>
  BY DEF Cancel
<1>2. i \in ToSet(queue[t])
  BY <1>1 DEF ToSet
<1>3. i \in Ids /\ HomeOf(i) = t /\ status[i] = "pending"
  BY <1>1, <1>2, WordsOfLine
<1> QED
  BY <1>1, <1>3 DEF Withdrawn

LEMMA WithdrawnPlain ==
    ASSUME PlainInv, NEW i \in Ids, Withdrawn(i)
    PROVE  PlainFits'
<1>0. /\ TypeOK /\ PlainFits /\ \A j \in Ids : HomeOf(j)' = HomeOf(j) /\ HomeOf(j) \in Threads
      /\ UNCHANGED <<sendOf, text, alive, steer, requeued, handed, phase>>
      /\ status[i] = "pending" /\ alive[HomeOf(i)]
  BY Parts, Elements DEF PlainInv, Withdrawn, HomeOf
<1>1. \A j \in Ids : status'[j] = IF j = i THEN "cancelled" ELSE status[j]
  BY <1>0 DEF Withdrawn, TypeOK
<1>2. NoSteer' = NoSteer
  BY DEF NoSteer
<1>3. \A j \in Ids :
          /\ status'[j] \notin {"posting", "bounced"}
          /\ phase = "up" => status'[j] # "interrupted"
          /\ status'[j] \in {"free", "pending", "cancelled"} =>
                handed[j] = 0 /\ \A t \in Threads : j \notin ToSet(text[t])
          /\ status'[j] # "free" /\ alive[HomeOf(j)] =>
                \/ status'[j] \in {"pending", "dispatching", "interrupted", "cancelled"}
                \/ j \in ToSet(text[HomeOf(j)])
          /\ ~alive[HomeOf(j)] => status'[j] \in {"free", "gone"}
          /\ \A k \in Ids : j # k /\ status'[j] # "free" /\ status'[k] # "free" => sendOf[j] # sendOf[k]
  BY <1>0, <1>1 DEF PlainFits
<1>4. \A t \in Threads : /\ IsInjective(text'[t])
                         /\ \A j \in ToSet(text'[t]) : HomeOf(j)' = t
                         /\ ~alive'[t] => text'[t] = <<>>
  <2> SUFFICES ASSUME NEW t \in Threads
               PROVE  /\ IsInjective(text[t]) /\ (~alive[t] => text[t] = <<>>)
                      /\ \A j \in ToSet(text[t]) : HomeOf(j)' = t
    BY <1>0
  <2>1. ToSet(text[t]) \subseteq Ids
    BY <1>0, Elements
  <2> QED
    BY <1>0, <2>1 DEF PlainFits
<1> QED
  BY <1>0, <1>2, <1>3, <1>4 DEF PlainFits

\* A thread goes with its rows and lines; nobody else's words move.
Dropped(t) ==
    /\ alive[t] /\ alive' = [alive EXCEPT ![t] = FALSE] /\ phase' = phase
    /\ text' = [text EXCEPT ![t] = <<>>]
    /\ \A i \in Ids : status'[i] = IF HomeOf(i) = t /\ status[i] # "free" THEN "gone" ELSE status[i]
    /\ UNCHANGED <<sendOf, steer, requeued, handed>>

LEMMA DeleteDrops ==
    ASSUME PlainInv, NEW t \in Threads, DeleteThread(t)
    PROVE  Dropped(t)
<1>0. /\ TypeOK /\ PlainFits /\ SlotsInv /\ phase = "up" /\ alive[t] /\ alive' = [alive EXCEPT ![t] = FALSE]
      /\ coord' = coord \ {t} /\ UNCHANGED <<sendOf, phase, steer, requeued, handed>>
      /\ text \in [Threads -> Seq(Ids)] /\ \A i \in Ids : HomeOf(i) \in Threads
  BY Parts, Elements DEF PlainInv, DeleteThread, TypeOK
<1>1. PICK failing \in SUBSET Threads :
        LET d == IF t \in coord
                 THEN Drained(failing, queue, ahead, turn, batch, status, text, group, coord')
                 ELSE [queue |-> queue, ahead |-> ahead, turn |-> turn, batch |-> batch,
                       text |-> text, status |-> status]
        IN /\ text' = [d.text EXCEPT ![t] = <<>>]
           /\ status' = [i \in Ids |-> IF HomeOf(i) = t /\ status[i] \notin {"free", "posting", "bounced"}
                                       THEN "gone" ELSE d.status[i]]
  BY DEF DeleteThread
<1> DEFINE e == Drained(failing, queue, ahead, turn, batch, status, text, group, coord')
           fires == {u \in Threads : Fires(u, failing, queue, ahead, turn, group, coord')}
           taken(i, ts) == \E u \in ts : i \in ToSet(queue[u])
<1>2. fires \subseteq {t}
  BY <1>0, NobodyElseFires, ConstantsAssumption
<1>3. /\ e.text = [u \in Threads |-> IF u \in fires THEN text[u] \o queue[u] ELSE text[u]]
      /\ e.status = [i \in Ids |-> IF taken(i, fires \ failing) THEN "dispatching"
                                   ELSE IF taken(i, fires) THEN "gone" ELSE status[i]]
  BY DEF Drained
<1>4. \A i \in Ids : taken(i, fires) => HomeOf(i) = t /\ status[i] # "free"
  <2> SUFFICES ASSUME NEW i \in Ids, i \in ToSet(queue[t]) PROVE HomeOf(i) = t /\ status[i] # "free"
    BY <1>2
  <2> QED
    BY <1>0, WordsOfLine
<1> HIDE DEF fires
<1>5. \A i \in Ids : HomeOf(i) # t \/ status[i] = "free" => e.status[i] = status[i]
  BY <1>3, <1>4
<1>6. [e.text EXCEPT ![t] = <<>>] = [text EXCEPT ![t] = <<>>]
  <2> DEFINE n == e.text
  <2>1. n = [u \in Threads |-> IF u \in fires THEN text[u] \o queue[u] ELSE text[u]]
    BY <1>3
  <2> HIDE DEF n
  <2>2. \A u \in Threads \ {t} : n[u] = text[u]
    BY <1>2, <2>1
  <2>3. DOMAIN n = Threads /\ DOMAIN text = Threads
    BY <1>0, <2>1
  <2>4. [n EXCEPT ![t] = <<>>] = [text EXCEPT ![t] = <<>>]
    BY <2>2, <2>3
  <2> QED
    BY <2>4 DEF n
<1> HIDE DEF e
<1>7. /\ text' = [text EXCEPT ![t] = <<>>]
      /\ \A i \in Ids : status'[i] = IF HomeOf(i) = t /\ status[i] \notin {"free", "posting", "bounced"}
                                     THEN "gone" ELSE status[i]
  <2>1. CASE t \in coord
    <3>1. /\ text' = [e.text EXCEPT ![t] = <<>>]
          /\ status' = [i \in Ids |-> IF HomeOf(i) = t /\ status[i] \notin {"free", "posting", "bounced"}
                                      THEN "gone" ELSE e.status[i]]
      BY <1>1, <2>1 DEF e
    <3>2. \A i \in Ids : status[i] \notin {"posting", "bounced"}
      BY <1>0 DEF PlainFits
    <3> QED
      BY <1>5, <1>6, <3>1, <3>2
  <2>2. CASE t \notin coord
    BY <1>1, <2>2
  <2> QED
    BY <2>1, <2>2
<1>8. \A i \in Ids : status[i] \notin {"posting", "bounced"}
  BY <1>0 DEF PlainFits
<1> QED
  BY <1>0, <1>7, <1>8 DEF Dropped

LEMMA DroppedPlain ==
    ASSUME PlainInv, NEW t \in Threads, Dropped(t)
    PROVE  PlainFits'
<1>0. /\ TypeOK /\ PlainFits /\ \A j \in Ids : HomeOf(j)' = HomeOf(j) /\ HomeOf(j) \in Threads
      /\ UNCHANGED <<sendOf, steer, requeued, handed, phase>>
      /\ alive \in [Threads -> BOOLEAN] /\ alive' = [alive EXCEPT ![t] = FALSE]
      /\ text \in [Threads -> Seq(Ids)] /\ text' = [text EXCEPT ![t] = <<>>]
  BY Parts, Elements DEF PlainInv, Dropped, HomeOf, TypeOK
<1>1. \A i \in Ids : status'[i] = IF HomeOf(i) = t /\ status[i] # "free" THEN "gone" ELSE status[i]
  BY DEF Dropped
<1>2. \A u \in Threads : /\ alive'[u] = (u # t /\ alive[u])
                         /\ text'[u] = IF u = t THEN <<>> ELSE text[u]
  BY <1>0
<1>3. \A u \in Threads : ToSet(text'[u]) = IF u = t THEN {} ELSE ToSet(text[u])
  BY <1>2, EmptySet
<1>4. ASSUME NEW j \in Ids
      PROVE  /\ status'[j] \notin {"posting", "bounced"}
             /\ phase = "up" => status'[j] # "interrupted"
             /\ status'[j] \in {"free", "pending", "cancelled"} =>
                   handed[j] = 0 /\ \A u \in Threads : j \notin ToSet(text'[u])
             /\ status'[j] # "free" /\ alive'[HomeOf(j)] =>
                   \/ status'[j] \in {"pending", "dispatching", "interrupted", "cancelled"}
                   \/ j \in ToSet(text'[HomeOf(j)])
             /\ ~alive'[HomeOf(j)] => status'[j] \in {"free", "gone"}
             /\ (status'[j] = "free") = (status[j] = "free")
  <2>1. CASE HomeOf(j) = t
    BY <1>0, <1>1, <1>2, <1>3, <2>1 DEF PlainFits
  <2>2. CASE HomeOf(j) # t
    BY <1>0, <1>1, <1>2, <1>3, <2>2 DEF PlainFits
  <2> QED
    BY <2>1, <2>2
<1>5. \A j, k \in Ids : j # k /\ status'[j] # "free" /\ status'[k] # "free" => sendOf[j] # sendOf[k]
  BY <1>0, <1>4 DEF PlainFits
<1>6. ASSUME NEW u \in Threads
      PROVE  /\ IsInjective(text'[u])
             /\ \A j \in ToSet(text'[u]) : HomeOf(j)' = u
             /\ ~alive'[u] => text'[u] = <<>>
  <2>1. CASE u = t
    <3>1. text'[u] = <<>> /\ ToSet(text'[u]) = {}
      BY <1>2, <1>3, <2>1
    <3> QED
      BY <3>1 DEF IsInjective
  <2>2. CASE u # t
    <3>1. text'[u] = text[u] /\ alive'[u] = alive[u] /\ ToSet(text[u]) \subseteq Ids
      BY <1>0, <1>2, <2>2, Elements
    <3> QED
      BY <1>0, <3>1 DEF PlainFits
  <2> QED
    BY <2>1, <2>2
<1>7. NoSteer' = NoSteer
  BY DEF NoSteer
<1>8. requeued' = {} /\ \A r \in Requests : steer'[r] = NoSteer
  BY <1>0 DEF PlainFits
<1> QED
  BY <1>0, <1>4, <1>5, <1>6, <1>7, <1>8 DEF PlainFits

LEMMA PlainInit == ASSUME Init PROVE PlainInv
<1>1. IInv /\ SlotsInv
  BY InitFits, SlotsInit
<1>2. /\ steer = [r \in Requests |-> NoSteer] /\ requeued = {} /\ status = [i \in Ids |-> "free"]
      /\ text = [t \in Threads |-> <<>>] /\ handed = [i \in Ids |-> 0]
      /\ alive = [t \in Threads |-> TRUE] /\ phase = "up"
  BY DEF Init
<1>3. \A t \in Threads : text[t] = <<>> /\ ToSet(text[t]) = {} /\ IsInjective(text[t])
  BY <1>2, EmptySet DEF IsInjective
<1>4. \A i \in Ids : HomeOf(i) \in Threads
  BY <1>1, Parts, Elements
<1> QED
  BY <1>1, <1>2, <1>3, <1>4 DEF PlainInv, PlainFits

\* What a step does to the words, when nothing steers.
LEMMA PlainMoves ==
    ASSUME Steerable = {}, PlainInv, [Next]_vars
    PROVE  \/ \E w : Adds(w)
           \/ \E s \in Sends, i \in Ids : Sent(s, i)
           \/ \E i \in Ids : Withdrawn(i)
           \/ \E t \in Threads : Dropped(t)
<1>1. CASE \E s \in Sends, i \in Ids : Post(s, i)
  BY <1>1, PostSends
<1>2. CASE \E t \in Threads, k \in Ids : Cancel(t, k)
  BY <1>2, CancelWithdraws
<1>3. CASE \E t \in Threads : DeleteThread(t)
  BY <1>3, DeleteDrops
<1>4. CASE \E t \in Threads : CallAdapter(t)
  BY <1>4, AddsCallAdapter
<1>5. CASE \/ \E t \in Threads : DispatchAcked(t)
           \/ \E t \in Threads : TurnCompleted(t)
           \/ \E t \in Threads : SetupEnds(t)
  BY <1>5, AddsTurn
<1>6. CASE GroupTurnEnds \/ Listen \/ \E t \in Threads : WorkReturned(t)
  BY <1>6, AddsDrains
<1>7. CASE GroupTurnStarts \/ (\E t \in Threads : WorkHandedOut(t)) \/ \E i \in Ids : Restore(i)
  BY <1>7, AddsNothing
<1>8. CASE \E t \in Threads : HoldRefused(t)
  BY <1>8, AddsHoldRefused
<1>9. CASE Crash \/ \E t \in Threads, n \in 0..MaxIds : CrashInDrain(t, n)
  BY <1>9, AddsCrash, AddsCrashInDrain
<1>10. CASE \E i \in Ids : Recover(i)
  BY <1>10, AddsRecover
<1>11. /\ \A i \in Ids : ~PostTaken(i)
       /\ \A i \in Ids, o \in Outcomes : ~PostAnswered(i, o)
       /\ \A r \in Requests, t \in Threads : ~HoldAndAsk(r, t)
       /\ \A r \in Requests : ~HeldTaken(r)
       /\ \A r \in Requests, o \in Outcomes : ~HeldAnswered(r, o)
       /\ \A r \in Requests, n \in Ids : ~CrashInSteer(r, n)
  BY NeverSteers
<1>12. CASE Next
  <2>1. \/ \E s \in Sends, i \in Ids : Post(s, i)
        \/ \E t \in Threads, k \in Ids : Cancel(t, k)
        \/ \E t \in Threads : DeleteThread(t)
        \/ \E t \in Threads : CallAdapter(t)
        \/ \/ \E t \in Threads : DispatchAcked(t)
           \/ \E t \in Threads : TurnCompleted(t)
           \/ \E t \in Threads : SetupEnds(t)
        \/ GroupTurnEnds \/ Listen \/ \E t \in Threads : WorkReturned(t)
        \/ GroupTurnStarts \/ (\E t \in Threads : WorkHandedOut(t)) \/ \E i \in Ids : Restore(i)
        \/ \E t \in Threads : HoldRefused(t)
        \/ Crash \/ \E t \in Threads, n \in 0..MaxIds : CrashInDrain(t, n)
        \/ \E i \in Ids : Recover(i)
    BY <1>11, <1>12 DEF Next
  <2> QED
    BY <2>1, <1>1, <1>2, <1>3, <1>4, <1>5, <1>6, <1>7, <1>8, <1>9, <1>10
<1>13. CASE UNCHANGED vars
  BY <1>13, AddsNothing
<1> QED
  BY <1>12, <1>13

LEMMA PlainStep == ASSUME Steerable = {}, PlainInv, [Next]_vars PROVE PlainInv'
<1>1. IInv' /\ TypeOK'
  BY StepFits, Parts DEF PlainInv, IInv
<1>2. SlotsInv'
  BY SlotsStep DEF PlainInv
<1>3. PlainFits'
  BY <1>1, PlainMoves, AddsPlain, SentPlain, WithdrawnPlain, DroppedPlain
<1> QED
  BY <1>1, <1>2, <1>3 DEF PlainInv

LEMMA PlainKeeps == ASSUME PlainInv PROVE SaidOnce
<1>1. PlainFits /\ HandedFits(queue, steer, turn, batch, status, requeued, phase) /\ TypeOK
  BY Parts DEF PlainInv
<1>2. \A s \in Sends : \A i, j \in IdsOf(s) : i = j
  BY <1>1 DEF PlainFits, IdsOf
<1>3. CancelledNeverRun
  <2> SUFFICES ASSUME NEW i \in Ids, status[i] = "cancelled", NEW j \in IdsOf(sendOf[i])
               PROVE  handed[j] = 0 /\ \A t \in Threads : j \notin ToSet(text[t])
    BY DEF CancelledNeverRun
  <2>1. i \in IdsOf(sendOf[i]) /\ sendOf[i] \in Sends
    BY <1>1 DEF IdsOf, TypeOK
  <2>2. j = i
    BY <1>2, <2>1
  <2> QED
    BY <1>1, <2>2 DEF PlainFits
<1>4. HandedOnce
  <2> SUFFICES ASSUME NEW s \in Sends, NEW i \in IdsOf(s), NEW j \in IdsOf(s)
               PROVE  handed[i] <= 1 /\ (i # j /\ handed[i] > 0 => handed[j] = 0)
    BY DEF HandedOnce
  <2>1. i = j
    BY <1>2
  <2>2. i \in Ids
    BY DEF IdsOf
  <2>3. ~(handed[i] > 1) /\ handed[i] \in Nat
    BY <1>1, <2>2 DEF PlainFits, HandedFits, TypeOK
  <2> QED
    BY <2>1, <2>3
<1>5. LinesOnce
  BY <1>1 DEF PlainFits, LinesOnce
<1> QED
  BY <1>3, <1>4, <1>5 DEF SaidOnce

\* In every instance without live steering, however sends are retried, queued,
\* drained, cancelled, cut by a crash and recovered: engines hear the words of
\* a send at most once, its line is on the transcript at most once, and neither
\* has words that were taken back.  (With steering the code lets a crash repeat
\* words, which the run with a violation shows.)
THEOREM WordsSaidOnce == ASSUME Steerable = {} PROVE Spec => []SaidOnce
<1>1. Init => PlainInv
  BY PlainInit
<1>2. PlainInv /\ [Next]_vars => PlainInv'
  BY PlainStep
<1>3. PlainInv => SaidOnce
  BY PlainKeeps
<1> QED
  BY <1>1, <1>2, <1>3, PTL DEF Spec

-----------------------------------------------------------------------------
(* Without live steering the queue implements the outbox. *)

\* What a transcript shows: the send of every line.
Sayings(f, q) == [k \in DOMAIN q |-> f[q[k]]]

LEMMA SayingsFacts ==
    ASSUME NEW f \in [Ids -> Sends], NEW q \in Seq(Ids)
    PROVE  /\ Sayings(f, q) \in Seq(Sends) /\ Len(Sayings(f, q)) = Len(q)
           /\ DOMAIN Sayings(f, q) = DOMAIN q /\ DOMAIN q = 1..Len(q) /\ Len(q) \in Nat
           /\ \A k \in 1..Len(q) : q[k] \in Ids /\ Sayings(f, q)[k] = f[q[k]]
<1>1. DOMAIN q = 1..Len(q) /\ Len(q) \in Nat /\ \A k \in 1..Len(q) : q[k] \in Ids
  OBVIOUS
<1>2. DOMAIN Sayings(f, q) = DOMAIN q /\ \A k \in 1..Len(q) : Sayings(f, q)[k] = f[q[k]]
  BY <1>1 DEF Sayings
<1>3. Sayings(f, q) = [k \in 1..Len(q) |-> f[q[k]]]
  BY <1>1 DEF Sayings
<1>4. Sayings(f, q) \in Seq(Sends) /\ Len(Sayings(f, q)) = Len(q)
  BY <1>1, <1>3
<1> QED
  BY <1>1, <1>2, <1>4

\* Whatever is added, the transcript before it is a prefix, and the rest is new.
LEMMA SayingsGrow ==
    ASSUME NEW f \in [Ids -> Sends], NEW a \in Seq(Ids), NEW b \in Seq(Ids)
    PROVE  /\ IsPrefix(Sayings(f, a), Sayings(f, a \o b))
           /\ SubSeq(Sayings(f, a \o b), Len(Sayings(f, a)) + 1, Len(Sayings(f, a \o b))) = Sayings(f, b)
<1> DEFINE p == Sayings(f, a)
           n == Sayings(f, b)
           c == Sayings(f, a \o b)
<1>1. /\ p \in Seq(Sends) /\ Len(p) = Len(a) /\ \A k \in 1..Len(a) : p[k] = f[a[k]]
      /\ n \in Seq(Sends) /\ Len(n) = Len(b) /\ \A k \in 1..Len(b) : n[k] = f[b[k]]
      /\ Len(a) \in Nat /\ Len(b) \in Nat
  <2>1. ASSUME NEW q \in Seq(Ids)
        PROVE  /\ Sayings(f, q) \in Seq(Sends) /\ Len(Sayings(f, q)) = Len(q) /\ Len(q) \in Nat
               /\ \A k \in 1..Len(q) : Sayings(f, q)[k] = f[q[k]]
    BY SayingsFacts
  <2> QED
    BY <2>1
<1>2. /\ a \o b \in Seq(Ids) /\ Len(a \o b) = Len(a) + Len(b)
      /\ \A k \in 1..(Len(a) + Len(b)) : (a \o b)[k] = IF k <= Len(a) THEN a[k] ELSE b[k - Len(a)]
  BY ConcatAt
<1>3. /\ c \in Seq(Sends) /\ Len(c) = Len(a) + Len(b)
      /\ \A k \in 1..(Len(a) + Len(b)) : c[k] = f[(a \o b)[k]]
  <2> DEFINE all == a \o b
  <2>1. all \in Seq(Ids) /\ Len(all) = Len(a) + Len(b)
    BY <1>2
  <2> HIDE DEF all
  <2>2. /\ Sayings(f, all) \in Seq(Sends) /\ Len(Sayings(f, all)) = Len(all)
        /\ \A k \in 1..Len(all) : Sayings(f, all)[k] = f[all[k]]
    BY <2>1 DEF Sayings
  <2>3. c = Sayings(f, all)
    BY DEF all
  <2> HIDE DEF c
  <2> QED
    BY <2>1, <2>2, <2>3 DEF all
<1> HIDE DEF p, n, c
<1>4. \A k \in 1..Len(a) : c[k] = p[k]
  BY <1>1, <1>2, <1>3
<1>5. \A k \in 1..Len(b) : c[Len(a) + k] = n[k]
  <2> SUFFICES ASSUME NEW k \in 1..Len(b) PROVE c[Len(a) + k] = n[k]
    OBVIOUS
  <2>1. Len(a) + k \in 1..(Len(a) + Len(b)) /\ ~(Len(a) + k <= Len(a)) /\ (Len(a) + k) - Len(a) = k
    BY <1>1
  <2>2. c[Len(a) + k] = f[(a \o b)[Len(a) + k]]
    BY <1>3, <2>1
  <2>3. (a \o b)[Len(a) + k] = b[k]
    BY <1>2, <2>1
  <2> QED
    BY <1>1, <2>2, <2>3
<1>6. SubSeq(p, 1, Len(p)) = p
  BY <1>1
<1>7. SubSeq(c, 1, Len(p)) = p
  BY <1>1, <1>3, <1>4
<1>8. SubSeq(c, Len(p) + 1, Len(c)) = n
  BY <1>1, <1>3, <1>5
<1>9. IsPrefix(p, c)
  BY <1>1, <1>3, <1>6, <1>7 DEF IsPrefix
<1> QED
  BY <1>8, <1>9 DEF p, n, c

\* The send of an instance is said when its line is on the transcript, and
\* otherwise as far as its row and its thread are.
StateOf(i) ==
    IF i \in ToSet(text[HomeOf(i)]) THEN "said"
    ELSE IF status[i] = "cancelled" THEN "withdrawn"
    ELSE IF ~alive[HomeOf(i)] THEN "deleted" ELSE "waiting"

States ==
    /\ \A i \in Ids : status[i] # "free" => SendState(sendOf[i]) = StateOf(i)
    /\ \A s \in Sends : (\A i \in Ids : status[i] = "free" \/ sendOf[i] # s) => SendState(s) = "unsent"

LEMMA StatesHold == TypeOK /\ PlainFits => States
<1> SUFFICES ASSUME TypeOK, PlainFits PROVE States
  OBVIOUS
<1>1. ASSUME NEW i \in Ids, status[i] # "free" PROVE SendState(sendOf[i]) = StateOf(i)
  <2>1. IdsOf(sendOf[i]) = {i}
    BY <1>1 DEF IdsOf, PlainFits
  <2> QED
    BY <2>1 DEF SendState, StateOf, HomeOf
<1>2. ASSUME NEW s \in Sends, \A i \in Ids : status[i] = "free" \/ sendOf[i] # s
      PROVE  SendState(s) = "unsent"
  <2>1. IdsOf(s) = {}
    BY <1>2 DEF IdsOf
  <2> QED
    BY <2>1 DEF SendState
<1> QED
  BY <1>1, <1>2 DEF States

LEMMA StatesStay == ASSUME TypeOK', PlainFits' PROVE States'
  BY StatesHold, PTL

Transcript == [t \in Threads |-> Sayings(sendOf, text[t])]

\* The sends of what a step adds to the transcripts are said.
LEMMA SayHolds ==
    ASSUME NEW S \in SUBSET Sends, \A s \in S : SendState(s) \in {"unsent", "waiting"},
           \A s \in Sends : SendState(s)' = IF s \in S THEN "said" ELSE SendState(s),
           \A t \in Threads :
              LET new == SubSeq(Transcript'[t], Len(Transcript[t]) + 1, Len(Transcript'[t]))
              IN /\ IsPrefix(Transcript[t], Transcript'[t])
                 /\ IsInjective(new) /\ ToSet(new) = {s \in S : Home[s] = t}
    PROVE  Outbox!Say(S)
<1> DEFINE said == [t \in Threads |-> [k \in DOMAIN text[t] |-> sendOf[text[t][k]]]]
           state == [s \in Sends |-> SendState(s)]
<1>1. \A s \in S : state[s] \in {"unsent", "waiting"}
  OBVIOUS
<1>2. state' = [s \in Sends |-> IF s \in S THEN "said" ELSE state[s]]
  OBVIOUS
<1>3. said = Transcript /\ said' = Transcript'
  BY DEF Sayings, Transcript
<1>4. \A t \in Threads : IsPrefix(said[t], said'[t])
  BY <1>3
<1>5. \A t \in Threads : Outbox!IsPrefix(said[t], said'[t])
  BY <1>4 DEF Outbox!IsPrefix, IsPrefix
<1>6. \A t \in Threads : LET new == SubSeq(said'[t], Len(said[t]) + 1, Len(said'[t])) IN
        Outbox!IsInjective(new) /\ Outbox!ToSet(new) = {s \in S : Home[s] = t}
  <2> SUFFICES ASSUME NEW t \in Threads
               PROVE  LET new == SubSeq(said'[t], Len(said[t]) + 1, Len(said'[t]))
                      IN Outbox!IsInjective(new) /\ Outbox!ToSet(new) = {s \in S : Home[s] = t}
    OBVIOUS
  <2> HIDE DEF said
  <2>1. LET new == SubSeq(said'[t], Len(said[t]) + 1, Len(said'[t]))
        IN IsInjective(new) /\ ToSet(new) = {s \in S : Home[s] = t}
    BY <1>3
  <2>2. \A f : (Outbox!IsInjective(f) <=> IsInjective(f)) /\ Outbox!ToSet(f) = ToSet(f)
    BY DEF Outbox!IsInjective, Outbox!ToSet, IsInjective, ToSet
  <2> QED
    BY <2>1, <2>2
<1>7. DOMAIN said' = Threads
  OBVIOUS
<1> QED
  BY <1>1, <1>2, <1>5, <1>6, <1>7 DEF Outbox!Say

\* Adding words says their sends.
LEMMA AddsSay ==
    ASSUME PlainInv, PlainInv', NEW w, Adds(w)
    PROVE  \E S \in SUBSET Sends : Outbox!Say(S)
<1> DEFINE added(i) == i \in ToSet(w[HomeOf(i)])
<1>0. /\ TypeOK /\ TypeOK' /\ PlainFits /\ PlainFits' /\ sendOf' = sendOf /\ alive' = alive
      /\ sendOf \in [Ids -> Sends] /\ \A i \in Ids : HomeOf(i) \in Threads /\ HomeOf(i)' = HomeOf(i)
  BY Parts, Elements DEF PlainInv, Adds, TypeOK, HomeOf, IInv
<1>1. PICK S \in SUBSET Sends :
        S = {s \in Sends : \E i \in Ids : sendOf[i] = s /\ status[i] # "free" /\ added(i)}
  OBVIOUS
<1>2. States /\ States'
  BY <1>0, StatesHold, StatesStay
<1>3. ASSUME NEW t \in Threads
      PROVE  /\ text[t] \in Seq(Ids) /\ w[t] \in Seq(Ids) /\ text'[t] = text[t] \o w[t]
             /\ ToSet(text'[t]) = ToSet(text[t]) \cup ToSet(w[t]) /\ ToSet(w[t]) \subseteq Ids
             /\ IsInjective(w[t])
             /\ \A i \in ToSet(w[t]) : /\ HomeOf(i) = t /\ alive[t] /\ i \notin ToSet(text[t])
                                       /\ status[i] \in {"pending", "dispatching", "interrupted"}
  <2>1. /\ text[t] \in Seq(Ids) /\ w[t] \in Seq(Ids) /\ text'[t] = text[t] \o w[t]
        /\ ToSet(text'[t]) = ToSet(text[t]) \cup ToSet(w[t]) /\ ToSet(w[t]) \subseteq Ids
    BY <1>0, AddedLines
  <2>2. /\ IsInjective(w[t])
        /\ \A i \in ToSet(w[t]) : /\ HomeOf(i) = t /\ alive[t] /\ i \notin ToSet(text[t])
                                  /\ status[i] \in {"pending", "dispatching", "interrupted"}
    BY DEF Adds
  <2> QED
    BY <2>1, <2>2
<1>4. ASSUME NEW i \in Ids, status[i] # "free"
      PROVE  /\ status'[i] # "free" /\ SendState(sendOf[i]) = StateOf(i) /\ SendState(sendOf[i])' = StateOf(i)'
             /\ sendOf[i] \in S <=> added(i)
             /\ added(i) => StateOf(i) = "waiting" /\ StateOf(i)' = "said"
             /\ ~added(i) => StateOf(i)' = StateOf(i)
  <2>1. status'[i] # "free" /\ (status'[i] = "cancelled" <=> status[i] = "cancelled")
    BY <1>4 DEF Adds
  <2>2. SendState(sendOf[i]) = StateOf(i) /\ SendState(sendOf[i])' = StateOf(i)'
    BY <1>0, <1>2, <1>4, <2>1 DEF States
  <2>3. sendOf[i] \in S <=> added(i)
    <3>1. \A j \in Ids : sendOf[j] = sendOf[i] /\ status[j] # "free" => j = i
      BY <1>0, <1>4 DEF PlainFits
    <3> QED
      BY <1>1, <1>0, <1>4, <3>1
  <2>4. ToSet(text'[HomeOf(i)]) = ToSet(text[HomeOf(i)]) \cup ToSet(w[HomeOf(i)])
    BY <1>0, <1>3
  <2>5. added(i) => /\ alive[HomeOf(i)] /\ i \notin ToSet(text[HomeOf(i)])
                    /\ status[i] \in {"pending", "dispatching", "interrupted"}
    BY <1>0, <1>3
  <2> QED
    BY <1>0, <2>1, <2>2, <2>3, <2>4, <2>5 DEF StateOf
<1>5. ASSUME NEW s \in Sends
      PROVE  /\ s \in S => SendState(s) \in {"unsent", "waiting"}
             /\ SendState(s)' = IF s \in S THEN "said" ELSE SendState(s)
  <2>1. CASE \E i \in Ids : status[i] # "free" /\ sendOf[i] = s
    <3>1. PICK i \in Ids : status[i] # "free" /\ sendOf[i] = s
      BY <2>1
    <3>2. /\ SendState(s) = StateOf(i) /\ SendState(s)' = StateOf(i)'
          /\ s \in S <=> added(i)
          /\ added(i) => StateOf(i) = "waiting" /\ StateOf(i)' = "said"
          /\ ~added(i) => StateOf(i)' = StateOf(i)
      <4> HIDE DEF added
      <4>1. SendState(sendOf[i])' = StateOf(i)'
        BY <1>4, <3>1
      <4>2. SendState(s)' = StateOf(i)'
        <5>1. SendState(sendOf[i])' = SendState(s)'
          <6>1. sendOf'[i] = s
            BY <1>0, <3>1
          <6> QED
            BY <6>1 DEF SendState, IdsOf
        <5> QED
          BY <4>1, <5>1
      <4> QED
        BY <1>4, <3>1, <4>2
    <3> HIDE DEF added
    <3> QED
      BY <3>2
  <2>2. CASE \A i \in Ids : status[i] = "free" \/ sendOf[i] # s
    <3>1. s \notin S
      BY <1>1, <2>2
    <3>2. \A i \in Ids : status'[i] = "free" \/ sendOf'[i] # s
      BY <1>0, <2>2 DEF Adds
    <3>3. SendState(s) = "unsent" /\ SendState(s)' = "unsent"
      BY <1>2, <2>2, <3>2 DEF States
    <3> QED
      BY <3>1, <3>3
  <2> QED
    BY <2>1, <2>2
<1>6. ASSUME NEW t \in Threads
      PROVE  LET new == SubSeq(Transcript'[t], Len(Transcript[t]) + 1, Len(Transcript'[t]))
             IN /\ IsPrefix(Transcript[t], Transcript'[t])
                /\ IsInjective(new) /\ ToSet(new) = {s \in S : Home[s] = t}
  <2>1. /\ Transcript[t] = Sayings(sendOf, text[t])
        /\ Transcript'[t] = Sayings(sendOf, text[t] \o w[t])
    BY <1>0, <1>3 DEF Transcript
  <2>2. /\ IsPrefix(Transcript[t], Transcript'[t])
        /\ SubSeq(Transcript'[t], Len(Transcript[t]) + 1, Len(Transcript'[t])) = Sayings(sendOf, w[t])
    <3>1. /\ IsPrefix(Sayings(sendOf, text[t]), Sayings(sendOf, text[t] \o w[t]))
          /\ SubSeq(Sayings(sendOf, text[t] \o w[t]), Len(Sayings(sendOf, text[t])) + 1,
                    Len(Sayings(sendOf, text[t] \o w[t]))) = Sayings(sendOf, w[t])
      <4>1. sendOf \in [Ids -> Sends] /\ text[t] \in Seq(Ids) /\ w[t] \in Seq(Ids)
        BY <1>0, <1>3
      <4> QED
        BY <4>1, SayingsGrow
    <3> QED
      BY <2>1, <3>1
  <2>3. /\ DOMAIN Sayings(sendOf, w[t]) = DOMAIN w[t]
        /\ \A k \in DOMAIN w[t] : Sayings(sendOf, w[t])[k] = sendOf[w[t][k]]
    BY DEF Sayings
  <2>4. \A k \in DOMAIN w[t] : w[t][k] \in ToSet(w[t])
    BY DEF ToSet
  <2>5. \A i, j \in ToSet(w[t]) : sendOf[i] = sendOf[j] => i = j
    <3>1. \A i \in ToSet(w[t]) : i \in Ids /\ status[i] # "free"
      BY <1>3
    <3> QED
      BY <1>0, <3>1 DEF PlainFits
  <2>6. IsInjective(Sayings(sendOf, w[t]))
    <3>1. \A j, k \in DOMAIN w[t] : w[t][j] = w[t][k] => j = k
      BY <1>3 DEF IsInjective
    <3> QED
      BY <2>3, <2>4, <2>5, <3>1 DEF IsInjective
  <2>7. ToSet(Sayings(sendOf, w[t])) = {sendOf[i] : i \in ToSet(w[t])}
    BY <2>3 DEF ToSet
  <2>8. {sendOf[i] : i \in ToSet(w[t])} = {s \in S : Home[s] = t}
    <3>1. ASSUME NEW i \in ToSet(w[t]) PROVE sendOf[i] \in S /\ Home[sendOf[i]] = t
      <4>1. i \in Ids /\ status[i] # "free" /\ HomeOf(i) = t
        BY <1>3
      <4> QED
        BY <1>1, <1>0, <4>1 DEF HomeOf
    <3>2. ASSUME NEW s \in S, Home[s] = t PROVE \E i \in ToSet(w[t]) : s = sendOf[i]
      BY <1>1, <3>2 DEF HomeOf
    <3> QED
      BY <3>1, <3>2
  <2> QED
    BY <2>2, <2>6, <2>7, <2>8
<1>7. Outbox!Say(S)
  BY <1>5, <1>6, SayHolds
<1> QED
  BY <1>7

\* A new send is taken in, or said at once.
LEMMA SentAccepts ==
    ASSUME PlainInv, PlainInv', NEW s \in Sends, NEW i \in Ids, Sent(s, i)
    PROVE  Outbox!Accept(s) \/ Outbox!Say({s})
<1> DEFINE t == Home[s]
<1>0. /\ TypeOK /\ TypeOK' /\ PlainFits /\ PlainFits' /\ alive' = alive /\ t \in Threads
      /\ sendOf \in [Ids -> Sends] /\ sendOf' \in [Ids -> Sends] /\ status \in [Ids -> Statuses]
      /\ \A u \in Threads : text[u] \in Seq(Ids) /\ ToSet(text[u]) \subseteq Ids
      /\ \A j \in Ids : HomeOf(j) \in Threads
  BY Parts, Elements DEF PlainInv, IInv, Sent, TypeOK
<1>1. States /\ States'
  BY <1>0, StatesHold, StatesStay
<1>2. /\ status[i] = "free" /\ \A j \in Ids : status[j] # "free" => sendOf[j] # s
      /\ \A j \in Ids : sendOf'[j] = IF j = i THEN s ELSE sendOf[j]
      /\ \A j \in Ids : HomeOf(j)' = IF j = i THEN t ELSE HomeOf(j)
      /\ \A u \in Threads : i \notin ToSet(text[u])
  BY <1>0 DEF Sent, HomeOf, PlainFits
<1>3. \/ text' = text /\ status' = [status EXCEPT ![i] = "pending"]
      \/ text' = [text EXCEPT ![t] = Append(text[t], i)] /\ status' = [status EXCEPT ![i] = "direct"]
  BY DEF Sent
<1>4. \A j \in Ids \ {i} : status'[j] = status[j]
  BY <1>0, <1>3
<1>5. status'[i] \in {"pending", "direct"} /\ status'[i] # "free"
  BY <1>0, <1>3
<1>6. \A u \in Threads : Sayings(sendOf', text[u]) = Sayings(sendOf, text[u])
  <2> SUFFICES ASSUME NEW u \in Threads PROVE Sayings(sendOf', text[u]) = Sayings(sendOf, text[u])
    OBVIOUS
  <2>1. \A k \in DOMAIN text[u] : text[u][k] \in Ids /\ text[u][k] # i
    BY <1>0, <1>2 DEF ToSet
  <2> QED
    BY <1>2, <2>1 DEF Sayings
<1>7. \A u \in Threads, j \in Ids \ {i} : j \in ToSet(text'[u]) <=> j \in ToSet(text[u])
  <2> SUFFICES ASSUME NEW u \in Threads, NEW j \in Ids \ {i}
               PROVE  j \in ToSet(text'[u]) <=> j \in ToSet(text[u])
    OBVIOUS
  <2>1. CASE text'[u] = text[u]
    BY <2>1
  <2>2. CASE u = t /\ text'[u] = Append(text[u], i)
    <3>1. ToSet(text'[u]) = ToSet(text[u]) \cup {i}
      BY <1>0, <2>2, AppendSet
    <3> QED
      BY <3>1
  <2>3. text'[u] = text[u] \/ (u = t /\ text'[u] = Append(text[u], i))
    <3>1. text \in [Threads -> Seq(Ids)]
      BY <1>0 DEF TypeOK
    <3>2. CASE text' = text
      BY <3>2
    <3>3. CASE text' = [text EXCEPT ![t] = Append(text[t], i)]
      BY <1>0, <3>1, <3>3
    <3> QED
      BY <1>3, <3>2, <3>3
  <2> QED
    BY <2>1, <2>2, <2>3
<1>8. ASSUME NEW r \in Sends \ {s} PROVE SendState(r)' = SendState(r)
  <2>1. CASE \E j \in Ids : status[j] # "free" /\ sendOf[j] = r
    <3>1. PICK j \in Ids : status[j] # "free" /\ sendOf[j] = r
      BY <2>1
    <3>2. j # i /\ sendOf'[j] = r /\ status'[j] = status[j] /\ HomeOf(j)' = HomeOf(j)
      BY <1>2, <1>4, <3>1
    <3>3. SendState(r) = StateOf(j) /\ SendState(r)' = StateOf(j)'
      BY <1>1, <3>1, <3>2 DEF States
    <3>4. StateOf(j)' = StateOf(j)
      BY <1>0, <1>7, <3>2 DEF StateOf
    <3> QED
      BY <3>3, <3>4
  <2>2. CASE \A j \in Ids : status[j] = "free" \/ sendOf[j] # r
    <3>1. \A j \in Ids : status'[j] = "free" \/ sendOf'[j] # r
      BY <1>2, <1>4, <2>2
    <3> QED
      BY <1>1, <2>2, <3>1 DEF States
  <2> QED
    BY <2>1, <2>2
<1>9. SendState(s) = "unsent" /\ SendState(s)' = StateOf(i)'
  <2>1. SendState(s) = "unsent"
    BY <1>1, <1>2 DEF States
  <2>2. SendState(s)' = StateOf(i)'
    BY <1>1, <1>2, <1>5 DEF States
  <2> QED
    BY <2>1, <2>2
<1>10. CASE text' = text /\ status' = [status EXCEPT ![i] = "pending"]
  <2>1. StateOf(i)' = "waiting"
    <3>1. status'[i] = "pending" /\ HomeOf(i)' = t /\ alive'[t] /\ i \notin ToSet(text'[t])
      BY <1>0, <1>2, <1>10 DEF Sent
    <3> QED
      BY <3>1 DEF StateOf
  <2>2. \A u \in Threads : Sayings(sendOf', text'[u]) = Sayings(sendOf, text[u])
    BY <1>6, <1>10
  <2> QED
    BY <1>8, <1>9, <2>1, <2>2 DEF Outbox!Accept, Sayings
<1>11. CASE text' = [text EXCEPT ![t] = Append(text[t], i)] /\ status' = [status EXCEPT ![i] = "direct"]
  <2>1. StateOf(i)' = "said"
    <3>1. ToSet(text'[t]) = ToSet(text[t]) \cup {i}
      <4>1. text'[t] = Append(text[t], i)
        BY <1>0, <1>11 DEF TypeOK
      <4>2. ToSet(Append(text[t], i)) = ToSet(text[t]) \cup {i}
        BY <1>0, AppendSet
      <4> QED
        BY <4>1, <4>2
    <3>2. HomeOf(i)' = t
      BY <1>2
    <3> QED
      BY <3>1, <3>2 DEF StateOf
  <2>2. ASSUME NEW u \in Threads
        PROVE  LET new == SubSeq(Transcript'[u], Len(Transcript[u]) + 1, Len(Transcript'[u]))
               IN /\ IsPrefix(Transcript[u], Transcript'[u])
                  /\ IsInjective(new) /\ ToSet(new) = {r \in {s} : Home[r] = u}
    <3> DEFINE more == IF u = t THEN <<i>> ELSE <<>>
    <3>1. text'[u] = text[u] \o more /\ more \in Seq(Ids)
      <4>1. text \in [Threads -> Seq(Ids)] /\ text[u] \in Seq(Ids)
        BY <1>0 DEF TypeOK
      <4>2. CASE u = t
        <5>1. text'[u] = Append(text[u], i)
          BY <1>0, <1>11, <4>1, <4>2
        <5> QED
          BY <4>1, <4>2, <5>1
      <4>3. CASE u # t
        <5>1. text'[u] = text[u]
          BY <1>11, <4>1, <4>3
        <5> QED
          BY <4>1, <4>3, <5>1
      <4> QED
        BY <4>2, <4>3
    <3> HIDE DEF more
    <3>2. Transcript[u] = Sayings(sendOf', text[u]) /\ Transcript'[u] = Sayings(sendOf', text[u] \o more)
      BY <1>6, <3>1 DEF Transcript
    <3>3. /\ IsPrefix(Transcript[u], Transcript'[u])
          /\ SubSeq(Transcript'[u], Len(Transcript[u]) + 1, Len(Transcript'[u])) = Sayings(sendOf', more)
      <4>1. /\ IsPrefix(Sayings(sendOf', text[u]), Sayings(sendOf', text[u] \o more))
            /\ SubSeq(Sayings(sendOf', text[u] \o more), Len(Sayings(sendOf', text[u])) + 1,
                      Len(Sayings(sendOf', text[u] \o more))) = Sayings(sendOf', more)
        <5>1. text[u] \in Seq(Ids) /\ sendOf' \in [Ids -> Sends]
          BY <1>0
        <5> QED
          BY <3>1, <5>1, SayingsGrow
      <4> QED
        BY <3>2, <4>1
    <3>4. IsInjective(Sayings(sendOf', more)) /\ ToSet(Sayings(sendOf', more)) = {r \in {s} : Home[r] = u}
      <4>1. CASE u = t
        <5>1. Sayings(sendOf', more) = <<s>>
          BY <1>2, <4>1 DEF Sayings, more
        <5>2. IsInjective(<<s>>) /\ ToSet(<<s>>) = {s}
          BY DEF IsInjective, ToSet
        <5> QED
          BY <4>1, <5>1, <5>2
      <4>2. CASE u # t
        <5>1. Sayings(sendOf', more) = <<>>
          BY <4>2 DEF Sayings, more
        <5>2. IsInjective(<<>>) /\ ToSet(<<>>) = {}
          BY EmptySet DEF IsInjective
        <5> QED
          BY <4>2, <5>1, <5>2
      <4> QED
        BY <4>1, <4>2
    <3> QED
      BY <3>3, <3>4
  <2>3. Outbox!Say({s})
    <3>1. \A r \in {s} : SendState(r) \in {"unsent", "waiting"}
      BY <1>9
    <3>2. \A r \in Sends : SendState(r)' = IF r \in {s} THEN "said" ELSE SendState(r)
      BY <1>8, <1>9, <2>1
    <3> QED
      BY <2>2, <3>1, <3>2, SayHolds
  <2> QED
    BY <2>3
<1> QED
  BY <1>3, <1>10, <1>11

LEMMA WithdrawnWithdraws ==
    ASSUME PlainInv, PlainInv', NEW i \in Ids, Withdrawn(i)
    PROVE  \E s \in Sends : Outbox!Withdraw(s)
<1>0. /\ TypeOK /\ TypeOK' /\ PlainFits /\ PlainFits' /\ UNCHANGED <<alive, text, sendOf>>
      /\ sendOf[i] \in Sends /\ status[i] = "pending" /\ alive[HomeOf(i)] /\ HomeOf(i) \in Threads
      /\ status' = [status EXCEPT ![i] = "cancelled"] /\ status \in [Ids -> Statuses]
      /\ \A j \in Ids : HomeOf(j)' = HomeOf(j)
  BY Parts, Elements DEF PlainInv, IInv, Withdrawn, HomeOf, TypeOK
<1>1. States /\ States'
  BY <1>0, StatesHold, StatesStay
<1>2. i \notin ToSet(text[HomeOf(i)])
  BY <1>0 DEF PlainFits
<1>3. StateOf(i) = "waiting" /\ StateOf(i)' = "withdrawn"
  BY <1>0, <1>2 DEF StateOf
<1>4. SendState(sendOf[i]) = "waiting" /\ SendState(sendOf[i])' = "withdrawn"
  BY <1>0, <1>1, <1>3 DEF States
<1>5. ASSUME NEW r \in Sends \ {sendOf[i]} PROVE SendState(r)' = SendState(r)
  <2>1. CASE \E j \in Ids : status[j] # "free" /\ sendOf[j] = r
    <3>1. PICK j \in Ids : status[j] # "free" /\ sendOf[j] = r
      BY <2>1
    <3>2. j # i /\ status'[j] = status[j]
      BY <1>0, <3>1
    <3> QED
      BY <1>0, <1>1, <3>1, <3>2 DEF States, StateOf
  <2>2. CASE \A j \in Ids : status[j] = "free" \/ sendOf[j] # r
    <3>1. \A j \in Ids : status'[j] = "free" \/ sendOf'[j] # r
      BY <1>0, <2>2
    <3> QED
      BY <1>1, <2>2, <3>1 DEF States
  <2> QED
    BY <2>1, <2>2
<1>6. Outbox!Withdraw(sendOf[i])
  BY <1>0, <1>4, <1>5 DEF Outbox!Withdraw
<1> QED
  BY <1>0, <1>6

LEMMA DroppedDrops ==
    ASSUME PlainInv, PlainInv', NEW t \in Threads, Dropped(t)
    PROVE  Outbox!DropThread(t)
<1>0. /\ TypeOK /\ TypeOK' /\ PlainFits /\ PlainFits' /\ sendOf' = sendOf /\ sendOf \in [Ids -> Sends]
      /\ text' = [text EXCEPT ![t] = <<>>] /\ text \in [Threads -> Seq(Ids)]
      /\ alive' = [alive EXCEPT ![t] = FALSE] /\ alive \in [Threads -> BOOLEAN]
      /\ \A j \in Ids : /\ HomeOf(j)' = HomeOf(j) /\ HomeOf(j) \in Threads /\ HomeOf(j) = Home[sendOf[j]]
                        /\ status'[j] = IF HomeOf(j) = t /\ status[j] # "free" THEN "gone" ELSE status[j]
  BY Parts, Elements DEF PlainInv, IInv, Dropped, HomeOf, TypeOK
<1>1. States /\ States'
  BY <1>0, StatesHold, StatesStay
<1>2. ASSUME NEW j \in Ids, status[j] # "free", HomeOf(j) = t
      PROVE  SendState(sendOf[j])' = "deleted" /\ SendState(sendOf[j]) # "unsent"
  <2>1. status'[j] = "gone" /\ text'[t] = <<>> /\ ~alive'[t] /\ HomeOf(j)' = t
    BY <1>0, <1>2
  <2>2. StateOf(j)' = "deleted" /\ StateOf(j) # "unsent"
    BY <2>1, EmptySet DEF StateOf
  <2> QED
    BY <1>0, <1>1, <1>2, <2>1, <2>2 DEF States
<1>3. ASSUME NEW j \in Ids, status[j] # "free", HomeOf(j) # t
      PROVE  SendState(sendOf[j])' = SendState(sendOf[j])
  <2>1. /\ status'[j] = status[j] /\ text'[HomeOf(j)] = text[HomeOf(j)]
        /\ alive'[HomeOf(j)] = alive[HomeOf(j)] /\ HomeOf(j)' = HomeOf(j)
    BY <1>0, <1>3
  <2>2. StateOf(j)' = StateOf(j)
    BY <2>1 DEF StateOf
  <2> QED
    BY <1>0, <1>1, <1>3, <2>1, <2>2 DEF States
<1>4. ASSUME NEW s \in Sends
      PROVE  SendState(s)' = IF Home[s] = t /\ SendState(s) # "unsent" THEN "deleted" ELSE SendState(s)
  <2>1. CASE \E j \in Ids : status[j] # "free" /\ sendOf[j] = s
    BY <1>0, <1>2, <1>3, <2>1
  <2>2. CASE \A j \in Ids : status[j] = "free" \/ sendOf[j] # s
    <3>1. \A j \in Ids : status'[j] = "free" \/ sendOf'[j] # s
      BY <1>0, <2>2
    <3> QED
      BY <1>1, <2>2, <3>1 DEF States
  <2> QED
    BY <2>1, <2>2
<1>5. Transcript' = [Transcript EXCEPT ![t] = <<>>]
  <2>1. \A u \in Threads : text'[u] = IF u = t THEN <<>> ELSE text[u]
    BY <1>0
  <2>2. \A u \in Threads : Transcript'[u] = IF u = t THEN <<>> ELSE Transcript[u]
    BY <1>0, <2>1 DEF Transcript, Sayings
  <2>3. /\ Transcript = [u \in Threads |-> Transcript[u]]
        /\ Transcript' = [u \in Threads |-> Transcript'[u]]
    BY DEF Transcript
  <2> QED
    BY <2>2, <2>3
<1> DEFINE said == [u \in Threads |-> [k \in DOMAIN text[u] |-> sendOf[text[u][k]]]]
           state == [s \in Sends |-> SendState(s)]
<1>6. said' = [said EXCEPT ![t] = <<>>]
  <2>1. said = Transcript /\ said' = Transcript'
    BY DEF Transcript, Sayings
  <2> HIDE DEF said
  <2> QED
    BY <1>5, <2>1
<1>7. state' = [s \in Sends |-> IF Home[s] = t /\ state[s] # "unsent" THEN "deleted" ELSE state[s]]
  BY <1>4
<1> QED
  BY <1>6, <1>7 DEF Outbox!DropThread

LEMMA OutboxInit == ASSUME Init PROVE Outbox!Init
<1>1. /\ status = [i \in Ids |-> "free"] /\ text = [t \in Threads |-> <<>>]
  BY DEF Init
<1>2. \A s \in Sends : SendState(s) = "unsent"
  BY <1>1, PlainInit, StatesHold DEF PlainInv, IInv, States
<1>3. \A t \in Threads : Sayings(sendOf, text[t]) = <<>>
  BY <1>1 DEF Sayings
<1> QED
  BY <1>2, <1>3 DEF Outbox!Init, Sayings

\* In every instance without live steering, the queue with all its retries,
\* drains, cancellations, deletions, crashes and recoveries implements the
\* outbox: a send is accepted, then said once behind what its thread shows, or
\* withdrawn, or goes with its thread, and nothing takes that back.
THEOREM OutboxImplemented == ASSUME Steerable = {} PROVE Spec => ImplementsOutbox
<1>1. Init => PlainInv /\ Outbox!Init
  BY PlainInit, OutboxInit
<1>2. PlainInv /\ [Next]_vars => PlainInv'
  BY PlainStep
<1>3. PlainInv /\ PlainInv' /\ [Next]_vars => [Outbox!Next]_(Outbox!vars)
  <2> SUFFICES ASSUME PlainInv, PlainInv', [Next]_vars PROVE Outbox!Next
    OBVIOUS
  <2>1. CASE \E w : Adds(w)
    BY <2>1, AddsSay DEF Outbox!Next
  <2>2. CASE \E s \in Sends, i \in Ids : Sent(s, i)
    <3>1. PICK s \in Sends : \E i \in Ids : Sent(s, i)
      BY <2>2
    <3>2. Outbox!Accept(s) \/ Outbox!Say({s})
      BY <3>1, SentAccepts
    <3>3. {s} \in SUBSET Sends
      OBVIOUS
    <3> QED
      BY <3>2, <3>3 DEF Outbox!Next
  <2>3. CASE \E i \in Ids : Withdrawn(i)
    BY <2>3, WithdrawnWithdraws DEF Outbox!Next
  <2>4. CASE \E t \in Threads : Dropped(t)
    BY <2>4, DroppedDrops DEF Outbox!Next
  <2> QED
    BY <2>1, <2>2, <2>3, <2>4, PlainMoves
<1> QED
  BY <1>1, <1>2, <1>3, PTL DEF Spec, ImplementsOutbox, Outbox!Spec
=============================================================================
