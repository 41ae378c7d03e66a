----------------------------- MODULE SteerQueue -----------------------------
(***************************************************************************)
(* The composer queue of one bot: words a person sends while a thread of   *)
(* the bot is working wait in server/steer-queue.ts, mirrored by durable   *)
(* rows of the chat_followups table (server/message-db.ts), until a drain  *)
(* appends them to the transcript and runs them as one follow-up turn, a   *)
(* person steers them into the live turn, or a person cancels them.  The   *)
(* turn life cycle, the HTTP routes and the boot recovery that touch the   *)
(* queue (server/index.ts) are modelled with it.                           *)
(*                                                                         *)
(* An id names one message instance the server created: a queued row, or   *)
(* the transcript line of words that ran at once.  A send is the client's  *)
(* own identity (sendId) of the words; a retry of a send makes a new id.   *)
(***************************************************************************)
EXTENDS Naturals, Sequences, SequencesExt, FiniteSets

CONSTANTS Threads,     \* conversations (tasks) of the bot
          Sends,       \* client-generated sendIds
          Home,        \* the thread each send is addressed to
          Requests,    \* concurrent POST .../queue/:id/steer requests
          Steerable,   \* threads whose engine can take words into a live turn
          Parking,     \* threads that park behind delegated work
          Capacity,    \* maxConcurrentBotThreads
          MaxIds,      \* bound on message instances
          MaxCrashes   \* bound on server crashes

ASSUME ConstantsAssumption ==
    /\ IsFiniteSet(Threads)
    /\ Sends # {}
    /\ Home \in [Sends -> Threads]
    /\ Steerable \subseteq Threads
    /\ Parking \subseteq Threads
    /\ Capacity \in Nat \ {0}
    /\ MaxIds \in Nat
    /\ MaxCrashes \in Nat

Ids == 1..MaxIds

\* "posting" and "direct" ids have no durable row; "gone" rows were deleted;
\* "bounced" words went back to the person after an engine had taken them.
Statuses == {"free", "posting", "direct", "pending", "dispatching",
             "interrupted", "cancelled", "bounced", "gone"}
TurnPhases == {"idle", "setup", "dispatching", "running", "early"}

VARIABLES
    \* durable: the transcript database
    sendOf,      \* [Ids -> Sends]: whose words the instance carries
    status,      \* [Ids -> Statuses]: the chat_followups row of the instance
    rows,        \* rowid order of chat_followups: ids as they were inserted, deleted ones too
    text,        \* [Threads -> Seq(Ids)]: user lines of the transcript
    notices,     \* rows whose restart notice is in the transcript
    alive,       \* [Threads -> BOOLEAN]: the task exists
    \* memory of the server process
    phase,       \* "up", or "recovering" while the server boots
    queue,       \* [Threads -> Seq(Ids)]: the queues map of steer-queue.ts
    ahead,       \* insertion order of that map, as pairs of threads
    steer,       \* [Requests -> in-flight steer of a held queue]
    turn,        \* [Threads -> TurnPhases]
    batch,       \* [Threads -> Seq(Ids)]: what the thread's turn was started with
    group,       \* a room turn holds the bot
    coord,       \* threads with delegated work outstanding
    \* bookkeeping of the model
    handed,      \* [Ids -> Nat]: times the words were handed to an engine
    accepted,    \* sends the server has ever answered with success
    requeued,    \* ids put back in line after an engine had taken them
    crossed,     \* threads with a second queue held while one was held already
    crashes

durable == <<sendOf, status, rows, text, notices, alive>>
memory == <<phase, queue, ahead, steer, turn, batch, group, coord>>
vars == <<durable, memory, handed, accepted, requeued, crossed, crashes>>

NoSteer == [phase |-> "none", thread |-> CHOOSE t \in Threads : TRUE, items |-> <<>>]
SteerRecord == [phase : {"none", "asked", "delivered"}, thread : Threads, items : Seq(Ids)]

-----------------------------------------------------------------------------
(* What the code reads before it acts. *)

Busy(t) == turn[t] \in {"setup", "dispatching", "running"}  \* task.busy

\* The engine has a live turn to steer; before the adapter call it provably
\* has none, and the words go straight to the queue.
Live(t) == t \in Steerable /\ turn[t] \in {"dispatching", "running"}
\* Mutant: a thread whose completion came early no longer takes a slot.
OccupiedByBusyFlag(tn) == {t \in Threads : alive[t] /\ tn[t] \notin {"idle", "early"}}

Occupied(tn) == {t \in Threads : alive[t] /\ tn[t] # "idle"}
AtCapacity(tn) == Cardinality(Occupied(tn)) >= Capacity
Parks(t, co) == t \in Parking /\ t \in co
Waiting(q) == {t \in Threads : q[t] # <<>>}

HomeOf(i) == Home[sendOf[i]]
IdsOf(s) == {i \in Ids : status[i] # "free" /\ sendOf[i] = s}
NextId(i) == status[i] = "free" /\ \A j \in Ids : j < i => status[j] # "free"

\* An older row.
Before(i, j) == \E m, n \in DOMAIN rows : m < n /\ rows[m] = i /\ rows[n] = j

\* Mutant: a retry is not matched with the transcript.
KnownWithoutTranscript(s) ==
    \E i \in IdsOf(s) :
        \/ status[i] \in {"cancelled", "posting"}
        \/ i \in ToSet(queue[Home[s]])

\* The route already knows this sendId: a tombstone, a transcript line, a
\* waiting row, or a request for it still in flight (SendSequencer).
Known(s) ==
    \E i \in IdsOf(s) :
        \/ status[i] \in {"cancelled", "posting"}
        \/ i \in ToSet(text[Home[s]])
        \/ i \in ToSet(queue[Home[s]])

-----------------------------------------------------------------------------
(* drainQueuedSends: every thread of the line that may start, in the order  *)
(* of the line and while slots last, appends its words and starts one turn; *)
(* a start that is refused (failing) leaves its words on the transcript and *)
(* takes no slot; a queue whose thread is gone is thrown away.  The values  *)
(* the caller has just computed come in as parameters.                      *)

MayStart(t, q, tn, gr, co) ==
    q[t] # <<>> /\ alive[t] /\ tn[t] = "idle" /\ ~gr /\ ~Parks(t, co)

Fires(t, failing, q, ah, tn, gr, co) ==
    /\ MayStart(t, q, tn, gr, co)
    /\ Cardinality({u \in Threads \ failing :
                        <<u, t>> \in ah /\ MayStart(u, q, tn, gr, co)})
         + Cardinality(Occupied(tn)) < Capacity

\* Mutant: a drained queue stays in the map.
ClaimedNothing(q, left) == q

\* Entries leave the map before anything runs.
Claimed(q, left) == [t \in Threads |-> IF t \in left THEN <<>> ELSE q[t]]

\* What a drain leaves behind when the starts in failing are refused.
Drained(failing, q, ah, tn, bt, st, tx, gr, co) ==
    LET fires == {t \in Threads : Fires(t, failing, q, ah, tn, gr, co)}
        left  == fires \cup {t \in Threads : ~alive[t]}
        starts == fires \ failing
        taken(i, ts) == \E t \in ts : i \in ToSet(q[t])
    IN [queue  |-> Claimed(q, left),
        ahead  |-> {p \in ah : p[1] \notin left /\ p[2] \notin left},
        turn   |-> [t \in Threads |-> IF t \in starts THEN "setup" ELSE tn[t]],
        batch  |-> [t \in Threads |-> IF t \in starts THEN q[t] ELSE bt[t]],
        text   |-> [t \in Threads |-> IF t \in fires THEN tx[t] \o q[t] ELSE tx[t]],
        status |-> [i \in Ids |-> IF taken(i, starts) THEN "dispatching"
                                  ELSE IF taken(i, fires) THEN "gone" ELSE st[i]]]

Drain(q, ah, tn, bt, st, tx, gr, co) ==
    \E failing \in SUBSET Threads :
        LET d == Drained(failing, q, ah, tn, bt, st, tx, gr, co)
        IN /\ \A t \in failing : Fires(t, failing, q, ah, tn, gr, co)
           /\ queue' = d.queue /\ ahead' = d.ahead /\ turn' = d.turn
           /\ batch' = d.batch /\ text' = d.text /\ status' = d.status

\* A queue entry enters the Map behind every other one.
AtTheEnd(ah, q, t) ==
    {p \in ah : p[1] # t /\ p[2] # t} \cup {<<u, t>> : u \in Waiting(q) \ {t}}

-----------------------------------------------------------------------------
Init ==
    /\ sendOf = [i \in Ids |-> CHOOSE s \in Sends : TRUE]
    /\ status = [i \in Ids |-> "free"]
    /\ rows = <<>>
    /\ text = [t \in Threads |-> <<>>]
    /\ notices = {}
    /\ alive = [t \in Threads |-> TRUE]
    /\ phase = "up"
    /\ queue = [t \in Threads |-> <<>>]
    /\ ahead = {}
    /\ steer = [r \in Requests |-> NoSteer]
    /\ turn = [t \in Threads |-> "idle"]
    /\ batch = [t \in Threads |-> <<>>]
    /\ group = FALSE
    /\ coord = {}
    /\ handed = [i \in Ids |-> 0]
    /\ accepted = {}
    /\ requeued = {}
    /\ crossed = {}
    /\ crashes = 0

-----------------------------------------------------------------------------
(* POST /api/bots/:id/messages *)

\* The words run at once: startTurn appends the line and claims the thread.
StartNow(s, i) ==
    /\ ~group
    /\ sendOf' = [sendOf EXCEPT ![i] = s]
    /\ status' = [status EXCEPT ![i] = "direct"]
    /\ text' = [text EXCEPT ![Home[s]] = Append(@, i)]
    /\ turn' = [turn EXCEPT ![Home[s]] = "setup"]
    /\ batch' = [batch EXCEPT ![Home[s]] = <<i>>]
    /\ accepted' = accepted \cup {s}
    /\ UNCHANGED <<rows, queue, ahead>>

\* queueSteeredMessage: the durable row first, then the waiting entry.
Enqueue(s, i) ==
    /\ sendOf' = [sendOf EXCEPT ![i] = s]
    /\ status' = [status EXCEPT ![i] = "pending"]
    /\ rows' = Append(rows, i)
    /\ queue' = [queue EXCEPT ![Home[s]] = Append(@, i)]
    /\ ahead' = IF queue[Home[s]] = <<>> THEN AtTheEnd(ahead, queue, Home[s]) ELSE ahead
    /\ accepted' = accepted \cup {s}
    /\ UNCHANGED <<text, turn, batch>>

MustWait(t) == AtCapacity(turn) \/ turn[t] # "idle" \/ Parks(t, coord)

StartOrQueue(s, i) ==
    IF MustWait(Home[s]) THEN Enqueue(s, i) ELSE StartNow(s, i)

\* A first send or a retry; a known sendId only gets its receipt again.  Words
\* bounced by a 409 are retried by nobody: a person sends them as a new send.
Post(s, i) ==
    /\ phase = "up" /\ alive[Home[s]] /\ ~Known(s) /\ NextId(i)
    /\ \A j \in IdsOf(s) : status[j] # "bounced"
    /\ \/ ~Busy(Home[s]) /\ StartOrQueue(s, i)
       \/ Busy(Home[s]) /\ ~Live(Home[s]) /\ Enqueue(s, i)
       \/ /\ Live(Home[s])
          /\ sendOf' = [sendOf EXCEPT ![i] = s]
          /\ status' = [status EXCEPT ![i] = "posting"]
          /\ UNCHANGED <<rows, text, queue, ahead, turn, batch, accepted>>
    /\ UNCHANGED <<notices, alive, phase, steer, group, coord, handed, requeued, crossed, crashes>>

\* The engine takes the words of an awaited live steer.
PostTaken(i) ==
    /\ phase = "up" /\ status[i] = "posting" /\ handed[i] = 0
    /\ handed' = [handed EXCEPT ![i] = 1]
    /\ UNCHANGED <<durable, memory, accepted, requeued, crossed, crashes>>

\* The steer's answer arrives and the route re-reads the thread.
PostAnswered(i, outcome) ==
    LET s == sendOf[i] IN LET t == Home[s] IN
    /\ phase = "up" /\ status[i] = "posting"
    /\ outcome = "steered" => handed[i] = 1
    /\ outcome = "refused" => handed[i] = 0
    /\ \/ /\ alive[t] /\ ((outcome = "steered" /\ Busy(t)) \/ outcome = "indeterminate")
          /\ status' = [status EXCEPT ![i] = "direct"]
          /\ text' = [text EXCEPT ![t] = Append(@, i)]
          /\ accepted' = accepted \cup {s}
          /\ UNCHANGED <<sendOf, rows, queue, ahead, turn, batch>>
       \/ /\ alive[t] /\ outcome = "refused"
          /\ IF Busy(t) THEN Enqueue(s, i) ELSE StartOrQueue(s, i)
       \/ /\ \/ ~alive[t]                                \* 404
             \/ outcome = "steered" /\ ~Busy(t)           \* 409, the words go back
             \/ outcome = "refused" /\ ~Busy(t) /\ ~MustWait(t) /\ group
          /\ status' = [status EXCEPT ![i] = IF handed[i] = 1 THEN "bounced" ELSE "gone"]
          /\ UNCHANGED <<sendOf, rows, text, queue, ahead, turn, batch, accepted>>
    /\ UNCHANGED <<notices, alive, phase, steer, group, coord, handed, requeued, crossed, crashes>>

-----------------------------------------------------------------------------
(* DELETE /api/bots/:id/queue/:id *)

Cancel(t, k) ==
    /\ phase = "up" /\ alive[t] /\ k \in DOMAIN queue[t]
    /\ status' = [status EXCEPT ![queue[t][k]] = "cancelled"]
    /\ queue' = [queue EXCEPT ![t] = RemoveAt(@, k)]
    /\ ahead' = IF Len(queue[t]) = 1
                THEN {p \in ahead : p[1] # t /\ p[2] # t} ELSE ahead
    /\ UNCHANGED <<sendOf, rows, text, notices, alive, phase, steer, turn, batch,
                   group, coord, handed, accepted, requeued, crossed, crashes>>

-----------------------------------------------------------------------------
(* POST /api/bots/:id/queue/:id/steer *)

Lifted(t) == [queue EXCEPT ![t] = <<>>]

\* holdSteeredQueue lifts the whole queue and the adapter's steer is awaited.
HoldAndAsk(r, t) ==
    /\ phase = "up" /\ alive[t] /\ queue[t] # <<>> /\ steer[r].phase = "none"
    /\ Live(t)
    /\ steer' = [steer EXCEPT ![r] = [phase |-> "asked", thread |-> t, items |-> queue[t]]]
    /\ queue' = Lifted(t)
    /\ ahead' = {p \in ahead : p[1] # t /\ p[2] # t}
    /\ crossed' = IF \E q \in Requests : steer[q].phase # "none" /\ steer[q].thread = t
                  THEN crossed \cup {t} ELSE crossed
    /\ UNCHANGED <<durable, phase, turn, batch, group, coord, handed, accepted, requeued, crashes>>

\* No live turn, or an engine that cannot steer: the queue is lifted and put
\* back in one go, which moves it behind every other thread of the line.
HoldRefused(t) ==
    /\ phase = "up" /\ alive[t] /\ queue[t] # <<>>
    /\ ~Live(t)
    /\ IF Busy(t)
       THEN /\ ahead' = AtTheEnd(ahead, queue, t)
            /\ UNCHANGED <<queue, turn, batch, text, status>>
       ELSE Drain(queue, AtTheEnd(ahead, queue, t), turn, batch, status, text, group, coord)
    /\ UNCHANGED <<sendOf, rows, notices, alive, phase, steer, group, coord,
                   handed, accepted, requeued, crossed, crashes>>

HeldTaken(r) ==
    /\ phase = "up" /\ steer[r].phase = "asked"
    /\ steer' = [steer EXCEPT ![r].phase = "delivered"]
    /\ handed' = [i \in Ids |-> IF i \in ToSet(steer[r].items) THEN handed[i] + 1 ELSE handed[i]]
    /\ UNCHANGED <<durable, phase, queue, ahead, turn, batch, group, coord, accepted, requeued, crossed, crashes>>

\* Mutant: an answer that never came is taken for a refusal.
FoldedIfCertain(t, outcome) == outcome = "steered" /\ alive[t] /\ Busy(t)

\* The held words may be in the live turn: they must not be put back.
Folded(t, outcome) ==
    outcome = "indeterminate" \/ (outcome = "steered" /\ alive[t] /\ Busy(t))

SettledHeld(items) == [i \in Ids |-> IF i \in ToSet(items) THEN "gone" ELSE status[i]]

PutBack(t, items) == [queue EXCEPT ![t] = items \o @]

\* The answer records the held words, settles them without a destination, or
\* restores them in front of what was queued meanwhile and drains.
HeldAnswered(r, outcome) ==
    LET t == steer[r].thread
        items == steer[r].items
        restored == PutBack(t, items)
        line == IF queue[t] = <<>> THEN AtTheEnd(ahead, queue, t) ELSE ahead
    IN
    /\ phase = "up" /\ steer[r].phase # "none"
    /\ outcome = "steered" => steer[r].phase = "delivered"
    /\ outcome = "refused" => steer[r].phase = "asked"
    /\ steer' = [steer EXCEPT ![r] = NoSteer]
    /\ requeued' = IF outcome = "steered" /\ ~(alive[t] /\ Busy(t))
                   THEN requeued \cup ToSet(items) ELSE requeued
    /\ IF Folded(t, outcome)
       THEN /\ status' = SettledHeld(items)
            /\ text' = IF alive[t] THEN [text EXCEPT ![t] = @ \o items] ELSE text
            /\ UNCHANGED <<queue, ahead, turn, batch>>
       ELSE IF alive[t] /\ ~Busy(t)
       THEN Drain(restored, line, turn, batch, status, text, group, coord)
       ELSE /\ queue' = restored
            /\ ahead' = line
            /\ UNCHANGED <<status, text, turn, batch>>
    /\ UNCHANGED <<sendOf, rows, notices, alive, phase, group, coord, handed, accepted, crossed, crashes>>

-----------------------------------------------------------------------------
(* The turn of a thread: claim, adapter call, dispatch acknowledgement and   *)
(* completion event, in either order of the last two.                        *)

\* settleDirectFollowup: the follow-up rows of the turn are deleted.
Retired(t) == [i \in Ids |-> IF i \in ToSet(batch[t]) /\ status[i] = "dispatching"
                             THEN "gone" ELSE status[i]]

TurnVarsKept == UNCHANGED <<sendOf, rows, notices, alive, phase, steer, group, coord, accepted, requeued, crossed, crashes>>

CallAdapter(t) ==
    /\ phase = "up" /\ turn[t] = "setup" /\ alive[t]
    /\ turn' = [turn EXCEPT ![t] = "dispatching"]
    /\ handed' = [i \in Ids |-> IF i \in ToSet(batch[t]) THEN handed[i] + 1 ELSE handed[i]]
    /\ UNCHANGED <<durable, phase, queue, ahead, steer, batch, group, coord, accepted, requeued, crossed, crashes>>

DispatchAcked(t) ==
    /\ phase = "up"
    /\ \/ /\ turn[t] = "dispatching"
          /\ turn' = [turn EXCEPT ![t] = "running"]
          /\ UNCHANGED <<queue, ahead, batch, text, status>>
       \/ /\ turn[t] = "early"
          /\ Drain(queue, ahead, [turn EXCEPT ![t] = "idle"], [batch EXCEPT ![t] = <<>>],
                   Retired(t), text, group, coord)
    /\ UNCHANGED handed
    /\ TurnVarsKept

\* A completion that precedes the acknowledgement clears the busy flag only.
\* The digest and the screenshot that the code waits for before the thread is
\* idle are merged with it: the thread admits no turn meanwhile.
TurnCompleted(t) ==
    /\ phase = "up"
    /\ \/ /\ turn[t] = "dispatching"
          /\ Drain(queue, ahead, [turn EXCEPT ![t] = "early"], batch, status, text, group, coord)
       \/ /\ turn[t] = "running"
          /\ Drain(queue, ahead, [turn EXCEPT ![t] = "idle"], [batch EXCEPT ![t] = <<>>],
                   Retired(t), text, group, coord)
    /\ UNCHANGED handed
    /\ TurnVarsKept

\* Stop during setup, a deleted thread, or a setup error: nothing was handed.
SetupEnds(t) ==
    /\ phase = "up" /\ turn[t] = "setup"
    /\ Drain(queue, ahead, [turn EXCEPT ![t] = "idle"], [batch EXCEPT ![t] = <<>>],
             Retired(t), text, group, coord)
    /\ UNCHANGED handed
    /\ TurnVarsKept

-----------------------------------------------------------------------------
(* What else blocks or frees the bot. *)

GroupTurnStarts ==
    /\ phase = "up" /\ ~group /\ \A t \in Threads : turn[t] = "idle"
    /\ group' = TRUE
    /\ UNCHANGED <<durable, phase, queue, ahead, steer, turn, batch, coord,
                   handed, accepted, requeued, crossed, crashes>>

\* Mutant: the end of a room turn does not drain.
GroupTurnEndsQuietly ==
    /\ phase = "up" /\ group
    /\ group' = FALSE
    /\ UNCHANGED <<durable, phase, queue, ahead, steer, turn, batch, coord,
                   handed, accepted, requeued, crossed, crashes>>

GroupTurnEnds ==
    /\ phase = "up" /\ group
    /\ group' = FALSE
    /\ Drain(queue, ahead, turn, batch, status, text, FALSE, coord)
    /\ UNCHANGED <<sendOf, rows, notices, alive, phase, steer, coord, handed, accepted, requeued, crossed, crashes>>

\* A running turn hands work out; the last node to settle releases the queue.
WorkHandedOut(t) ==
    /\ phase = "up" /\ turn[t] = "running" /\ t \in Parking \ coord
    /\ coord' = coord \cup {t}
    /\ UNCHANGED <<durable, phase, queue, ahead, steer, turn, batch, group,
                   handed, accepted, requeued, crossed, crashes>>

WorkReturned(t) ==
    /\ phase = "up" /\ t \in coord
    /\ coord' = coord \ {t}
    /\ Drain(queue, ahead, turn, batch, status, text, group, coord \ {t})
    /\ UNCHANGED <<sendOf, rows, notices, alive, phase, steer, group, handed, accepted, requeued, crossed, crashes>>

\* DELETE of an idle task.  Outstanding work is cancelled first, and its
\* change hook drains before the thread is gone.  The thread's rows and lines
\* are deleted; its entry in the queues map is left to the next drain.
DeleteThread(t) ==
    /\ phase = "up" /\ alive[t] /\ turn[t] = "idle"
    /\ alive' = [alive EXCEPT ![t] = FALSE]
    /\ notices' = {i \in notices : HomeOf(i) # t}
    /\ coord' = coord \ {t}
    /\ \E failing \in SUBSET Threads :
        LET d == IF t \in coord
                 THEN Drained(failing, queue, ahead, turn, batch, status, text, group, coord')
                 ELSE [queue |-> queue, ahead |-> ahead, turn |-> turn, batch |-> batch,
                       text |-> text, status |-> status]
        IN /\ \A u \in failing : t \in coord /\ Fires(u, failing, queue, ahead, turn, group, coord')
           /\ queue' = d.queue /\ ahead' = d.ahead /\ turn' = d.turn /\ batch' = d.batch
           /\ text' = [d.text EXCEPT ![t] = <<>>]
           /\ status' = [i \in Ids |-> IF HomeOf(i) = t /\ status[i] \notin {"free", "posting", "bounced"}
                                       THEN "gone" ELSE d.status[i]]
    /\ UNCHANGED <<sendOf, rows, phase, steer, group, handed, accepted, requeued, crossed, crashes>>

-----------------------------------------------------------------------------
(* A crash keeps the database and loses the rest; boot recovers what was    *)
(* being dispatched, reloads what was waiting, and drains.                  *)

Recoverable == {i \in Ids : status[i] \in {"dispatching", "interrupted"}}
AllRestored == \A i \in Ids : status[i] = "pending" => i \in ToSet(queue[HomeOf(i)])

Wiped ==
    /\ phase' = "recovering"
    /\ queue' = [t \in Threads |-> <<>>]
    /\ ahead' = {}
    /\ steer' = [r \in Requests |-> NoSteer]
    /\ turn' = [t \in Threads |-> "idle"]
    /\ batch' = [t \in Threads |-> <<>>]
    /\ group' = FALSE
    /\ coord' = {}
    /\ crashes' = crashes + 1
    /\ requeued' = requeued \cup {i \in Ids : status'[i] = "pending" /\ handed[i] > 0}
    /\ crossed' = {}
    /\ UNCHANGED <<sendOf, rows, notices, alive, handed, accepted>>

\* Mutant: a request in flight leaves a row of no known status behind.
AbandonedOddly(st) == [i \in Ids |-> IF st[i] = "direct" THEN "lost" ELSE st[i]]

Abandoned(st) == [i \in Ids |-> IF st[i] = "posting" THEN "gone" ELSE st[i]]

Crash ==
    /\ crashes < MaxCrashes
    /\ status' = Abandoned(status)
    /\ UNCHANGED text
    /\ Wiped

\* Killed while a drain starts thread t: the threads before it are done, its
\* own rows are claimed and n of its lines are written.  Rows of a start that
\* was refused are settled here; in the code a microtask does it, and the boot
\* abandons what it left.
CutDrain(t, n, failing, tn, st, gr, co) ==
    LET fires   == {u \in Threads : Fires(u, failing, queue, ahead, tn, gr, co)}
        before  == {u \in fires : <<u, t>> \in ahead}
        claimed == UNION {ToSet(queue[u]) : u \in (before \ failing) \cup {t}}
        refused == UNION {ToSet(queue[u]) : u \in before \cap failing}
    IN /\ t \in fires /\ failing \subseteq before /\ n <= Len(queue[t])
       /\ status' = Abandoned([i \in Ids |-> IF i \in claimed THEN "dispatching"
                                             ELSE IF i \in refused THEN "gone" ELSE st[i]])
       /\ text' = [u \in Threads |->
                      IF u \in before THEN text[u] \o queue[u]
                      ELSE IF u = t THEN text[t] \o SubSeq(queue[t], 1, n) ELSE text[u]]

\* The drain that is cut short follows the end of a turn, of a room turn or of
\* delegated work, or is the first one after boot.
CrashInDrain(t, n) ==
    /\ crashes < MaxCrashes
    /\ \E failing \in SUBSET Threads :
        \/ /\ phase = "up"
           /\ \/ \E u \in Threads :
                    /\ turn[u] \in {"setup", "running", "early"}
                    /\ CutDrain(t, n, failing, [turn EXCEPT ![u] = "idle"], Retired(u), group, coord)
              \/ group /\ CutDrain(t, n, failing, turn, status, FALSE, coord)
              \/ \E u \in coord : CutDrain(t, n, failing, turn, status, group, coord \ {u})
        \/ /\ phase = "recovering" /\ Recoverable = {} /\ AllRestored
           /\ CutDrain(t, n, failing, turn, status, group, coord)
    /\ Wiped

\* Killed while recording an accepted steer: n lines, rows still pending.
CrashInSteer(r, n) ==
    /\ phase = "up" /\ crashes < MaxCrashes
    /\ steer[r].phase = "delivered" /\ alive[steer[r].thread]
    /\ n \in 1..Len(steer[r].items)
    /\ status' = Abandoned(status)
    /\ text' = [text EXCEPT ![steer[r].thread] = @ \o SubSeq(steer[r].items, 1, n)]
    /\ Wiped

LineMissing(i) == i \notin ToSet(text[HomeOf(i)])

\* One row of the boot loop: mark it, write the line and the notice that are
\* missing, delete it.  A crash may fall between any two of these writes.
Recover(i) ==
    LET t == HomeOf(i) IN
    /\ phase = "recovering" /\ i \in Recoverable
    /\ \A j \in Recoverable : ~Before(j, i)
    /\ \/ /\ status[i] = "dispatching"
          /\ status' = [status EXCEPT ![i] = "interrupted"]
          /\ UNCHANGED <<text, notices>>
       \/ /\ status[i] = "interrupted" /\ LineMissing(i)
          /\ text' = [text EXCEPT ![t] = Append(@, i)]
          /\ UNCHANGED <<status, notices>>
       \/ /\ status[i] = "interrupted" /\ i \in ToSet(text[t]) /\ i \notin notices
          /\ notices' = notices \cup {i}
          /\ UNCHANGED <<status, text>>
       \/ /\ status[i] = "interrupted" /\ i \in ToSet(text[t]) /\ i \in notices
          /\ status' = [status EXCEPT ![i] = "gone"]
          /\ UNCHANGED <<text, notices>>
    /\ UNCHANGED <<sendOf, rows, alive, memory, handed, accepted, requeued, crossed, crashes>>

\* restoreSteeredMessages: the next pending row, in row order, joins the queue
\* of its thread.
Restore(i) ==
    LET t == HomeOf(i) IN
    /\ phase = "recovering" /\ Recoverable = {}
    /\ status[i] = "pending" /\ i \notin ToSet(queue[t])
    /\ \A j \in Ids : Before(j, i) /\ status[j] = "pending" => j \in ToSet(queue[HomeOf(j)])
    /\ queue' = [queue EXCEPT ![t] = Append(@, i)]
    /\ ahead' = IF queue[t] = <<>> THEN AtTheEnd(ahead, queue, t) ELSE ahead
    /\ UNCHANGED <<durable, phase, steer, turn, batch, group, coord,
                   handed, accepted, requeued, crossed, crashes>>

\* server.listen: followupsReady, and the first drain.
Listen ==
    /\ phase = "recovering" /\ Recoverable = {}
    /\ AllRestored
    /\ phase' = "up"
    /\ Drain(queue, ahead, turn, batch, status, text, group, coord)
    /\ UNCHANGED <<sendOf, rows, notices, alive, steer, group, coord, handed, accepted,
                   requeued, crossed, crashes>>

-----------------------------------------------------------------------------
Outcomes == {"steered", "refused", "indeterminate"}

Next ==
    \/ \E s \in Sends, i \in Ids : Post(s, i)
    \/ \E i \in Ids : PostTaken(i)
    \/ \E i \in Ids, o \in Outcomes : PostAnswered(i, o)
    \/ \E t \in Threads, k \in Ids : Cancel(t, k)
    \/ \E r \in Requests, t \in Threads : HoldAndAsk(r, t)
    \/ \E t \in Threads : HoldRefused(t)
    \/ \E r \in Requests : HeldTaken(r)
    \/ \E r \in Requests, o \in Outcomes : HeldAnswered(r, o)
    \/ \E t \in Threads : CallAdapter(t)
    \/ \E t \in Threads : DispatchAcked(t)
    \/ \E t \in Threads : TurnCompleted(t)
    \/ \E t \in Threads : SetupEnds(t)
    \/ GroupTurnStarts
    \/ GroupTurnEnds
    \/ \E t \in Threads : WorkHandedOut(t)
    \/ \E t \in Threads : WorkReturned(t)
    \/ \E t \in Threads : DeleteThread(t)
    \/ Crash
    \/ \E t \in Threads, n \in 0..MaxIds : CrashInDrain(t, n)
    \/ \E r \in Requests, n \in Ids : CrashInSteer(r, n)
    \/ \E i \in Ids : Recover(i)
    \/ \E i \in Ids : Restore(i)
    \/ Listen

Spec == Init /\ [][Next]_vars

(***************************************************************************)
(* The event loop runs every continuation that is ready, adapters answer a *)
(* steer or reject it after a timeout, the turn watchdog settles a turn    *)
(* that goes quiet, delegated work expires, and a supervisor restarts the  *)
(* server.  Nobody is obliged to send, cancel, steer, delete or crash.     *)
(***************************************************************************)
Fairness ==
    /\ \A i \in Ids : WF_vars(\E o \in Outcomes : PostAnswered(i, o))
    /\ \A r \in Requests : WF_vars(\E o \in Outcomes : HeldAnswered(r, o))
    /\ \A t \in Threads : /\ WF_vars(CallAdapter(t) \/ SetupEnds(t))
                          /\ WF_vars(DispatchAcked(t))
                          /\ WF_vars(TurnCompleted(t))
                          /\ WF_vars(WorkReturned(t))
    /\ WF_vars(GroupTurnEnds)
    /\ \A i \in Ids : WF_vars(Recover(i)) /\ WF_vars(Restore(i))
    /\ WF_vars(Listen)

FairSpec == Spec /\ Fairness

-----------------------------------------------------------------------------
(* Properties *)

TypeOK ==
    /\ sendOf \in [Ids -> Sends]
    /\ status \in [Ids -> Statuses]
    /\ rows \in Seq(Ids)
    /\ text \in [Threads -> Seq(Ids)]
    /\ notices \subseteq Ids
    /\ alive \in [Threads -> BOOLEAN]
    /\ phase \in {"up", "recovering"}
    /\ queue \in [Threads -> Seq(Ids)]
    /\ ahead \subseteq Threads \X Threads
    /\ steer \in [Requests -> SteerRecord]
    /\ turn \in [Threads -> TurnPhases]
    /\ batch \in [Threads -> Seq(Ids)]
    /\ group \in BOOLEAN
    /\ coord \subseteq Threads
    /\ handed \in [Ids -> Nat]
    /\ accepted \subseteq Sends
    /\ requeued \subseteq Ids
    /\ crossed \subseteq Threads
    /\ crashes \in Nat

\* Where the process keeps the ids it has to deliver later.
Held(i) == \E r \in Requests : i \in ToSet(steer[r].items)
Queued(i) == \E t \in Threads : i \in ToSet(queue[t])

\* A durable pending row is never orphaned: while the server is up, every row
\* that a restart would bring back is waiting in memory or held by a steer, and
\* whatever waits for a live thread is still backed by its row.
PendingRowsAreHeldSomewhere ==
    phase = "up" =>
        \A i \in Ids :
            /\ status[i] = "pending" => Queued(i) \/ Held(i)
            /\ (Queued(i) \/ Held(i)) /\ alive[HomeOf(i)] => status[i] = "pending"

\* No id waits twice: not twice in a queue, not in a queue and a held steer,
\* not in two held steers.  (Two entries would run the same words twice.)
WaitsOnce ==
    /\ \A t \in Threads : IsInjective(queue[t])
    /\ \A i \in Ids : ~(Queued(i) /\ Held(i))
    /\ \A r1, r2 \in Requests :
          r1 # r2 => ToSet(steer[r1].items) \cap ToSet(steer[r2].items) = {}

\* A queue the bot could run right now never sits there: whatever frees the
\* thread, the slot, the room or the parked conversation also drains.
NothingStranded ==
    phase = "up" =>
        \A t \in Threads :
            MayStart(t, queue, turn, group, coord) => AtCapacity(turn)

\* The bot never works in more threads than its limit, whatever races.
CapacityRespected ==
    Cardinality({t \in Threads : alive[t] /\ turn[t] # "idle"}) <= Capacity

\* Words taken back with a successful cancel never reach the transcript or an
\* engine, by a retry of the same send, a restart or anything else.
CancelledNeverRun ==
    \A i \in Ids : status[i] = "cancelled" =>
        \A j \in IdsOf(sendOf[i]) :
            handed[j] = 0 /\ (\A t \in Threads : j \notin ToSet(text[t]))

\* However a send is retried, queued, drained or interrupted, engines are
\* handed its words at most once.
HandedOnce ==
    \A s \in Sends : \A i, j \in IdsOf(s) :
        /\ handed[i] <= 1
        /\ i # j /\ handed[i] > 0 => handed[j] = 0

\* Words are handed over twice only if they went back in line after an engine
\* had taken them: an indeterminate steer, a drain racing a settle, a cancel or
\* the boot recovery never does that.
HandedTwiceOnlyIfRequeued == \A i \in Ids : handed[i] > 1 => i \in requeued

\* An acknowledged send is never lost: it is on the transcript, or waiting to
\* get there, or cancelled, or its thread was deleted.
AcknowledgedNotLost ==
    \A s \in accepted :
        \/ ~alive[Home[s]]
        \/ \E i \in IdsOf(s) :
              \/ status[i] \in {"pending", "dispatching", "interrupted", "cancelled"}
              \/ i \in ToSet(text[Home[s]])

\* Waiting words keep the order in which they were queued, although a queue
\* is lifted for a steer and put back in front of what came meanwhile; only
\* two holds of one thread at a time can bring them back in another order.
QueuesInOrder == \A t \in Threads \ crossed : IsSorted(queue[t], Before)

\* A line appears once on its transcript.
LinesOnce == \A t \in Threads : IsInjective(text[t])

\* The words of a send are said once or not at all: an engine hears them once,
\* the transcript has them once, and neither has what was taken back.
SaidOnce == CancelledNeverRun /\ HandedOnce /\ LinesOnce

\* Waiting words are neither lost, nor doubled, nor reordered: every row and
\* every acknowledged send is held somewhere, once, in the order of sending,
\* and handed over again only if it went back in line.
WordsAreKept ==
    /\ PendingRowsAreHeldSomewhere /\ AcknowledgedNotLost
    /\ WaitsOnce /\ QueuesInOrder
    /\ HandedTwiceOnlyIfRequeued

\* The bot's slots are used as far as they may be and no further.
CapacityWellUsed == NothingStranded /\ CapacityRespected

\* A restart restores only sends whose dispatch has not begun
\* (steer-queue.ts:10, docs/verification/chat-turns.md:127).
RestartRestoresOnlyUnbegun ==
    phase = "recovering" => \A i \in Ids : status[i] = "pending" => handed[i] = 0

\* Every waiting word is eventually delivered, cancelled or gone with its thread.
EveryWordSettles == \A i \in Ids : status[i] = "pending" ~> status[i] # "pending"
-----------------------------------------------------------------------------
(* Without live steering the queue implements the outbox, crashes included. *)

SendState(s) ==
    LET mine == IdsOf(s) IN
    IF mine = {} THEN "unsent"
    ELSE IF \E i \in mine : i \in ToSet(text[Home[s]]) THEN "said"
    ELSE IF \E i \in mine : status[i] = "cancelled" THEN "withdrawn"
    ELSE IF ~alive[Home[s]] THEN "deleted" ELSE "waiting"

Outbox == INSTANCE SendOutbox WITH
    state <- [s \in Sends |-> SendState(s)],
    said <- [t \in Threads |-> [k \in DOMAIN text[t] |-> sendOf[text[t][k]]]]

\* Each send is said once, withdrawn, or deleted with its thread.
ImplementsOutbox == Outbox!Spec
=============================================================================
