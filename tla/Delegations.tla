---------------------------- MODULE Delegations ----------------------------
(***************************************************************************)
(* Asynchronous handoffs between bots (server/delegations.ts).  A bot's    *)
(* turn queues a handoff; when the turn settles, a drain of its thread     *)
(* asks a person for approval where the sender needs one, parks the        *)
(* handoff while its target is busy, and starts the target's turn.  What   *)
(* the turn came to is written to a receipt and into the source thread,    *)
(* and the source is woken (server/index.ts) to answer with it.            *)
(*                                                                         *)
(* The server runs on an event loop.  `jobs` holds the pieces of code      *)
(* that still run before the loop looks at the outside world again: a call *)
(* that happens within the current piece is put in front, a continuation   *)
(* of an await or a microtask behind.  Actions of the outside world        *)
(* (requests, engine events, timers) find no jobs.                         *)
(***************************************************************************)
EXTENDS Naturals, Sequences, SequencesExt, FiniteSets

CONSTANTS Threads,      \* conversations
          Bots,
          Owner,        \* the bot of each thread
          Home,         \* the thread that is active in each bot at the start
          Openable,     \* threads a person may make active later
          Deletable,    \* threads a person may delete
          Revocable,    \* handoffs whose sender may lose access to their target
          Lasting,      \* handoffs that may outlive DELEGATION_TTL_MS
          Slow,         \* threads whose turns may stall or take time to settle
          Reviewed,     \* bots whose handoffs a person approves
          Items,        \* handoffs
          NoItem,
          From,         \* the source thread of each handoff
          To,           \* the thread opened for it, or a thread of its target
          Fresh,        \* handoffs into a thread opened for them
          Capacity,     \* maxConcurrentBotThreads
          MaxQueued,    \* MAX_QUEUED_PER_THREAD
          WakeBudget,   \* DELEGATION_WAKE_MAX_PER_WINDOW
          Refusals,     \* whether a turn may be refused for another reason
          MaxTurns,     \* bound on turns a person starts
          MaxCrashes

ASSUME ConstantsAssumption ==
    /\ IsFiniteSet(Threads) /\ IsFiniteSet(Items)
    /\ Owner \in [Threads -> Bots]
    /\ Home \in [Bots -> Threads] /\ \A b \in Bots : Owner[Home[b]] = b
    /\ Openable \subseteq Threads /\ Deletable \subseteq Threads /\ Slow \subseteq Threads
    /\ Reviewed \subseteq Bots /\ Revocable \subseteq Items /\ Lasting \subseteq Items
    /\ From \in [Items -> Threads] /\ To \in [Items -> Threads] /\ Fresh \subseteq Items
    /\ NoItem \notin Items
    /\ \A i \in Items : Owner[From[i]] # Owner[To[i]]
    /\ \A i \in Fresh : To[i] \notin {Home[b] : b \in Bots}
    /\ {Capacity, MaxQueued, WakeBudget} \subseteq Nat \ {0}
    /\ Refusals \subseteq BOOLEAN /\ FALSE \in Refusals
    /\ {MaxTurns, MaxCrashes} \subseteq Nat

VARIABLES
    \* durable: delegations.json and delegation-receipts.json
    queue,      \* [Threads -> Seq(Items)]: pendingDelegations
    parked,     \* handoffs with waitingOnBusy
    granted,    \* handoffs with approvalAlreadyGranted
    receipt,    \* [Items -> Outcomes]
    \* durable: the store and the person's settings
    gone,       \* deleted threads
    active,     \* [Bots -> Threads]: bot.threadId
    barred,     \* handoffs whose sender may no longer reach their target
    stale,      \* queued handoffs past DELEGATION_TTL_MS
    \* memory of the server process
    jobs,       \* what the event loop still runs in this turn of the loop
    drain,      \* [Threads -> the drain of the thread]: drainingThreads
    redrain,    \* queuedRedrains
    turn,       \* [Threads -> TurnPhases]
    work,       \* [Threads -> Items]: the handoff a thread's turn runs
    watch,      \* [Threads -> Items]: delegationWatch
    wakes,      \* pendingDelegationWakes, in insertion order
    spent,      \* [Threads -> Nat]: the wake budget used in this window
    \* bookkeeping of the model
    born,       \* handoffs ever queued
    starts,     \* [Items -> Nat]: times the target's turn was started
    unseen,     \* source threads with an outcome no turn has been told of
    torn,       \* handoffs a crash hit between a settlement and its acknowledgement
    lost,       \* handoffs whose running turn a crash or another handoff disowned
    turns, crashes

durable == <<queue, parked, granted, receipt, gone, active, barred, stale>>
memory == <<jobs, drain, redrain, turn, work, watch, wakes, spent>>
history == <<born, starts, unseen, torn, lost, turns, crashes>>
vars == <<durable, memory, history>>

Outcomes == {"none", "done", "failed", "denied", "expired", "dropped"}
\* "early": the completion came before the dispatch was acknowledged, so that
\* the claim outlives the busy flag; "settling" and "stalled" keep the flag.
TurnPhases == {"idle", "setup", "working", "early", "settling", "stalled"}

NoDrain == [todo |-> <<>>, snapshot |-> {}, await |-> "none"]
Drains == [todo : Seq(Items), snapshot : SUBSET Items,
           await : {"none", "card", "allow", "deny", "settled", "requeued", "dispatched"}]

Job(do, t) == [do |-> do, thread |-> t]
Jobs == [do : {"drain", "item", "answered", "ack", "retry", "release",
               "wake", "wakes"}, thread : Threads]

-----------------------------------------------------------------------------
(* What the code reads before it acts. *)

Queued(i) == i \in ToSet(queue[From[i]])
Draining(t) == drain[t] # NoDrain
Quiet == jobs = <<>>
Running(j) == ~Quiet /\ Head(jobs) = j

Busy(b) == \E t \in Threads : Owner[t] = b /\ turn[t] \in {"setup", "working", "settling", "stalled"}
AtCapacity(b) == Cardinality({t \in Threads : Owner[t] = b /\ turn[t] # "idle"}) >= Capacity

Target(i) == IF i \in Fresh THEN To[i] ELSE active[Owner[To[i]]]
CanTake(i) == IF i \in Fresh THEN ~AtCapacity(Owner[To[i]]) ELSE ~Busy(Owner[To[i]])
Due(i) == i \in stale /\ ~CanTake(i)

\* Admission of startTurn, reasons of the environment apart.
Admits(t) == turn[t] = "idle" /\ t \notin gone /\ ~AtCapacity(Owner[t])

-----------------------------------------------------------------------------
(* Pieces that several handlers share. *)

Sync(first) == jobs' = first \o Tail(jobs)
Async(job) == jobs' = Append(Tail(jobs), job)

Settled(S, outcome) == [i \in Items |-> IF i \in S THEN outcome ELSE receipt[i]]
Without(s, S) ==
    LET kept[n \in 0..Len(s)] == IF n = 0 THEN <<>>
                                 ELSE IF s[n] \in S THEN kept[n - 1] ELSE Append(kept[n - 1], s[n])
    IN kept[Len(s)]

\* A source thread that still exists learns of an outcome and is woken.
Tell(i) == IF From[i] \in gone THEN <<>> ELSE <<Job("wake", From[i])>>
Told(S) == unseen \cup ({From[i] : i \in S} \ gone)

\* finalizeDelegationWatch: one receipt, one line, one wake.
Watched(t) == {watch[t]} \ {NoItem}
Final(t, ok) == [i \in Items |-> IF i \notin Watched(t) THEN receipt[i]
                                ELSE IF ok /\ i \notin barred THEN "done" ELSE "failed"]
FinalJobs(t) == IF watch[t] = NoItem THEN <<>> ELSE Tell(watch[t])
Unwatch(t) == watch' = [watch EXCEPT ![t] = NoItem]

\* retryDelegationsWaitingOn: a microtask, coalesced per bot.
\* Mutant: a completion does not look for what waits on the bot.
WithoutRetry(js, t) == js
WithRetry(js, t) == IF \E k \in DOMAIN js : js[k].do = "retry" /\ Owner[js[k].thread] = Owner[t]
                    THEN js ELSE Append(js, Job("retry", t))

\* The part of startTurn that runs before its first await.
Begin(t, i) ==
    /\ turn' = [turn EXCEPT ![t] = "setup"]
    /\ work' = [work EXCEPT ![t] = i]

-----------------------------------------------------------------------------
Init ==
    /\ queue = [t \in Threads |-> <<>>]
    /\ parked = {} /\ granted = {} /\ gone = {} /\ barred = {} /\ stale = {}
    /\ receipt = [i \in Items |-> "none"]
    /\ active = Home
    /\ jobs = <<>> /\ redrain = {} /\ wakes = <<>>
    /\ drain = [t \in Threads |-> NoDrain]
    /\ turn = [t \in Threads |-> "idle"]
    /\ work = [t \in Threads |-> NoItem]
    /\ watch = [t \in Threads |-> NoItem]
    /\ spent = [t \in Threads |-> 0]
    /\ born = {} /\ unseen = {} /\ torn = {} /\ lost = {}
    /\ starts = [i \in Items |-> 0]
    /\ turns = 0 /\ crashes = 0

-----------------------------------------------------------------------------
(* The outside world: people, engines and timers. *)

\* A thread opened for a handoff exists from the moment it is queued.
Exists(t) == t \notin gone /\ \A i \in Fresh : To[i] = t => i \in born

\* A person writes to an idle thread, which also pays the wake debt.
PersonStarts(t) ==
    /\ Quiet /\ turns < MaxTurns /\ Exists(t) /\ Admits(t)
    /\ Begin(t, NoItem)
    /\ turns' = turns + 1
    /\ spent' = [spent EXCEPT ![t] = 0]
    /\ unseen' = unseen \ {t}
    /\ UNCHANGED <<durable, jobs, drain, redrain, watch, wakes, born, starts, torn, lost, crashes>>

\* A live turn calls delegate_bot or start_thread, or ask_bot on a busy peer
\* whose approval was already given.
Queue(i, approved) ==
    LET t == From[i] IN
    /\ Quiet /\ i \notin born /\ i \notin barred
    /\ turn[t] = "working" /\ work[t] = NoItem /\ t \notin gone
    /\ Len(queue[t]) < MaxQueued
    /\ approved => i \notin Fresh /\ Busy(Owner[To[i]]) /\ Owner[t] \in Reviewed
    /\ queue' = [queue EXCEPT ![t] = Append(@, i)]
    /\ granted' = IF approved THEN granted \cup {i} ELSE granted
    /\ born' = born \cup {i}
    /\ UNCHANGED <<parked, receipt, gone, active, barred, stale, memory,
                   starts, unseen, torn, lost, turns, crashes>>

\* The engine takes the turn; after an early completion this frees the thread.
Acknowledged(t) ==
    /\ Quiet
    /\ \/ /\ turn[t] = "setup"
          /\ turn' = [turn EXCEPT ![t] = "working"]
          /\ UNCHANGED jobs
       \/ /\ turn[t] = "early"
          /\ turn' = [turn EXCEPT ![t] = "idle"]
          /\ jobs' = <<Job("wakes", t), Job("retry", t)>>
    /\ UNCHANGED <<durable, drain, redrain, work, watch, wakes, spent, history>>

\* Setup or dispatch fails, or is stopped: no completion will come.
SetupFails(t) ==
    /\ Quiet /\ turn[t] \in {"setup", "early"}
    /\ turn' = [turn EXCEPT ![t] = "idle"]
    /\ receipt' = Final(t, FALSE)
    /\ unseen' = Told(Watched(t))
    /\ Unwatch(t)
    /\ jobs' = FinalJobs(t) \o <<Job("wakes", t), Job("retry", t)>>
    /\ UNCHANGED <<queue, parked, granted, gone, active, barred, stale, drain, redrain, work,
                   wakes, spent, born, starts, torn, lost, turns, crashes>>

\* turn.completed: the watch is settled, then the thread's own handoffs are
\* drained, or dropped when the turn failed or was stopped.
Completed(t, ok, next) ==
    LET dropped == IF ok THEN {} ELSE ToSet(queue[t]) IN
    /\ Quiet /\ turn[t] \in {"setup", "working", "stalled"}
    /\ next \in IF turn[t] = "setup" THEN {"early"} ELSE {"idle", "settling"}
    /\ next = "settling" => t \in Slow
    /\ turn' = [turn EXCEPT ![t] = next]
    /\ receipt' = [i \in Items |-> IF i \in dropped THEN "dropped" ELSE Final(t, ok)[i]]
    /\ unseen' = Told(Watched(t))
    /\ Unwatch(t)
    /\ queue' = [queue EXCEPT ![t] = Without(@, dropped)]
    /\ parked' = parked \ dropped
    /\ jobs' = WithRetry(FinalJobs(t) \o (IF ok THEN <<Job("drain", t)>> ELSE <<>>)
                             \o <<Job("wakes", t)>>, t)
    /\ UNCHANGED <<granted, gone, active, barred, stale, drain, redrain, work, wakes, spent,
                   born, starts, torn, lost, turns, crashes>>

\* The watchdog gives up on a silent turn; the thread stays claimed a while.
Stalls(t) ==
    /\ Quiet /\ turn[t] = "working" /\ t \in Slow
    /\ turn' = [turn EXCEPT ![t] = "stalled"]
    /\ receipt' = Final(t, FALSE)
    /\ unseen' = Told(Watched(t))
    /\ Unwatch(t)
    /\ jobs' = FinalJobs(t)
    /\ UNCHANGED <<queue, parked, granted, gone, active, barred, stale, drain, redrain, work,
                   wakes, spent, born, starts, torn, lost, turns, crashes>>

\* The end of an asynchronous settlement, or of the watchdog's grace.
Released(t) ==
    /\ Quiet /\ turn[t] \in {"settling", "stalled"}
    /\ turn' = [turn EXCEPT ![t] = "idle"]
    /\ jobs' = (IF turn[t] = "settling" THEN <<Job("wakes", t)>> ELSE <<>>) \o <<Job("retry", t)>>
    /\ UNCHANGED <<durable, drain, redrain, work, watch, wakes, spent, history>>

\* A person answers the card, or its timer or a Stop denies it.
Answer(t, verdict) ==
    /\ Quiet /\ drain[t].await = "card"
    /\ verdict = "allow" => t \notin gone
    /\ drain' = [drain EXCEPT ![t].await = verdict]
    /\ jobs' = <<Job("answered", t)>>
    /\ UNCHANGED <<durable, redrain, turn, work, watch, wakes, spent, history>>

\* The hourly sweep leaves threads in the middle of a drain alone.
Sweep ==
    LET due == {i \in born : Queued(i) /\ ~Draining(From[i]) /\ Due(i)} IN
    /\ Quiet /\ due # {}
    /\ queue' = [t \in Threads |-> Without(queue[t], due)]
    /\ parked' = parked \ due
    /\ receipt' = Settled(due, "expired")
    /\ unseen' = Told(due)
    /\ \E order \in SetToSeqs({i \in due : From[i] \notin gone}) :
          jobs' = [k \in DOMAIN order |-> Job("wake", From[order[k]])]
    /\ UNCHANGED <<granted, gone, active, barred, stale, drain, redrain, turn, work, watch, wakes,
                   spent, born, starts, torn, lost, turns, crashes>>

\* 24 hours pass for a handoff, five minutes for a wake budget.
Age(i) ==
    /\ Quiet /\ i \in (born \cap Lasting) \ stale /\ Queued(i)
    /\ stale' = stale \cup {i}
    /\ UNCHANGED <<queue, parked, granted, receipt, gone, active, barred, memory, history>>
WindowPasses(t) ==
    /\ Quiet /\ spent[t] > 0
    /\ spent' = [spent EXCEPT ![t] = 0]
    /\ UNCHANGED <<durable, jobs, drain, redrain, turn, work, watch, wakes, history>>

\* A person deletes an idle thread, opens another, or parts two bots.
Delete(t) ==
    /\ Quiet /\ t \in Deletable /\ Exists(t) /\ turn[t] = "idle" /\ active[Owner[t]] # t
    /\ gone' = gone \cup {t}
    /\ UNCHANGED <<queue, parked, granted, receipt, active, barred, stale, memory, history>>
Open(t) ==
    /\ Quiet /\ t \in Openable /\ Exists(t) /\ active[Owner[t]] # t
    /\ active' = [active EXCEPT ![Owner[t]] = t]
    /\ UNCHANGED <<queue, parked, granted, receipt, gone, barred, stale, memory, history>>
Bar(i) ==
    /\ Quiet /\ i \in (born \cap Revocable) \ barred
    /\ barred' = barred \cup {i}
    /\ UNCHANGED <<queue, parked, granted, receipt, gone, active, stale, memory, history>>

-----------------------------------------------------------------------------
(* Jobs of the event loop: the drain of a thread. *)

DrainBegins(t) ==
    /\ Running(Job("drain", t))
    /\ IF Draining(t) THEN /\ redrain' = redrain \cup {t}
                           /\ Sync(<<>>)
                           /\ UNCHANGED drain
       ELSE /\ drain' = IF queue[t] = <<>> THEN drain
                        ELSE [drain EXCEPT ![t] = [todo |-> queue[t], snapshot |-> ToSet(queue[t]),
                                                   await |-> "none"]]
            /\ Sync(IF queue[t] = <<>> THEN <<>> ELSE <<Job("item", t)>>)
            /\ UNCHANGED redrain
    /\ UNCHANGED <<durable, turn, work, watch, wakes, spent, history>>

\* A drain asked for meanwhile, or handoffs queued meanwhile, begin it again.
DrainEnds(t) ==
    /\ Running(Job("item", t)) /\ drain[t].todo = <<>>
    /\ drain' = [drain EXCEPT ![t] = NoDrain]
    /\ redrain' = redrain \ {t}
    /\ Sync(IF t \in redrain \/ ToSet(queue[t]) \ drain[t].snapshot # {}
            THEN <<Job("drain", t)>> ELSE <<>>)
    /\ UNCHANGED <<durable, turn, work, watch, wakes, spent, history>>

Handling(t) == Head(drain[t].todo)
Looks(t) == Running(Job("item", t)) /\ drain[t].todo # <<>>
Allowed(t) == Running(Job("answered", t)) /\ drain[t].await = "allow"

\* A handoff a stop, a sweep or a failed turn removed is not touched again.
Skip(t) ==
    /\ Looks(t) /\ ~Queued(Handling(t))
    /\ drain' = [drain EXCEPT ![t].todo = Tail(@)]
    /\ UNCHANGED <<durable, jobs, redrain, turn, work, watch, wakes, spent, history>>
Ignore(t) ==
    /\ Running(Job("answered", t)) /\ ~Queued(Handling(t))
    /\ drain' = [drain EXCEPT ![t].await = "settled"]
    /\ Async(Job("ack", t))
    /\ UNCHANGED <<durable, redrain, turn, work, watch, wakes, spent, history>>

\* A handoff under examination, for the first time or after its approval.
Examined(t, i) ==
    /\ Looks(t) \/ Allowed(t)
    /\ i = Handling(t) /\ Queued(i)
\* Mutant: the sender's access is not checked again.
UndeliverableIfGone(i) == From[i] \in gone \/ (i \in Fresh /\ To[i] \in gone)
Undeliverable(i) == From[i] \in gone \/ i \in barred \/ (i \in Fresh /\ To[i] \in gone)
NeedsCard(t, i) == Looks(t) /\ Owner[t] \in Reviewed /\ i \notin granted
Grant(t, i) == granted' = IF Allowed(t) THEN granted \cup {i} ELSE granted

\* Dropped, denied or expired before it could run.
Refuse(t, i, outcome) ==
    /\ receipt' = Settled({i}, outcome)
    /\ drain' = [drain EXCEPT ![t].await = "settled"]
    /\ Async(Job("ack", t))
    /\ UNCHANGED <<queue, parked, gone, active, barred, stale, redrain, turn, work, watch, wakes,
                   spent, history>>
Drop(t, i) == Examined(t, i) /\ Undeliverable(i) /\ Grant(t, i) /\ Refuse(t, i, "dropped")
Expire(t, i) ==
    Examined(t, i) /\ ~Undeliverable(i) /\ Due(i) /\ Grant(t, i) /\ Refuse(t, i, "expired")
\* Mutant: a denial settles whatever it finds.
DenyBlindly(t, i) ==
    /\ Running(Job("answered", t)) /\ drain[t].await = "deny" /\ i = Handling(t)
    /\ UNCHANGED granted
    /\ Refuse(t, i, "denied")
Deny(t, i) ==
    /\ Running(Job("answered", t)) /\ drain[t].await = "deny"
    /\ i = Handling(t) /\ Queued(i)
    /\ UNCHANGED granted
    /\ Refuse(t, i, IF t \in gone THEN "dropped" ELSE "denied")

\* A busy target holds the handoff.
Park(t, i) ==
    /\ Examined(t, i) /\ ~Undeliverable(i) /\ ~CanTake(i) /\ i \notin stale
    /\ parked' = parked \cup {i}
    /\ Grant(t, i)
    /\ drain' = [drain EXCEPT ![t].await = "requeued"]
    /\ Async(Job("ack", t))
    /\ UNCHANGED <<queue, receipt, gone, active, barred, stale, redrain, turn, work, watch, wakes,
                   spent, history>>

\* A card goes up and the drain waits for its answer.
Ask(t, i) ==
    /\ Examined(t, i) /\ ~Undeliverable(i) /\ CanTake(i) /\ NeedsCard(t, i)
    /\ parked' = parked \ {i}
    /\ drain' = [drain EXCEPT ![t].await = "card"]
    /\ Sync(<<>>)
    /\ UNCHANGED <<queue, granted, receipt, gone, active, barred, stale, redrain, turn, work, watch,
                   wakes, spent, history>>

\* runDelegatedTurn: the watch is set first; a refused start settles it.
Dispatch(t, i, refused) ==
    LET target == Target(i)
        ok == Admits(target) /\ ~refused
    IN
    /\ Examined(t, i) /\ ~Undeliverable(i) /\ CanTake(i) /\ ~NeedsCard(t, i)
    /\ parked' = parked \ {i}
    /\ Grant(t, i)
    /\ drain' = [drain EXCEPT ![t].await = "dispatched"]
    /\ watch' = [watch EXCEPT ![target] = IF ok THEN i ELSE NoItem]
    /\ lost' = lost \cup Watched(target)
    /\ IF ok THEN /\ Begin(target, i)
                  /\ starts' = [starts EXCEPT ![i] = @ + 1]
                  /\ Async(Job("ack", t))
                  /\ unseen' = unseen \ {target}
                  /\ UNCHANGED receipt
       ELSE /\ receipt' = Settled({i}, "failed")
            /\ unseen' = Told({i})
            /\ jobs' = Append(Tell(i) \o Tail(jobs), Job("ack", t))
            /\ UNCHANGED <<turn, work, starts>>
    /\ UNCHANGED <<queue, gone, active, barred, stale, redrain, wakes, spent, born, torn, turns, crashes>>

\* What leaves the saved queue: a parked handoff stays.
\* Mutant: one that was started stays too.
RemovedIfSettled(t) == IF drain[t].await = "settled" THEN {Handling(t)} ELSE {}
Removed(t) == IF drain[t].await = "requeued" THEN {} ELSE {Handling(t)}

\* acknowledgeDelegation, and the wake of a source whose handoff did not run.
Acknowledge(t) ==
    LET i == Handling(t)
        told == IF drain[t].await = "settled" /\ Queued(i) THEN {i} ELSE {}
    IN
    /\ Running(Job("ack", t))
    /\ queue' = [queue EXCEPT ![t] = Without(@, Removed(t))]
    /\ parked' = parked \ Removed(t)
    /\ drain' = [drain EXCEPT ![t].todo = Tail(@), ![t].await = "none"]
    /\ unseen' = Told(told)
    /\ Sync((IF told = {} THEN <<>> ELSE Tell(i)) \o <<Job("item", t)>>)
    /\ UNCHANGED <<granted, receipt, gone, active, barred, stale, redrain, turn, work, watch, wakes,
                   spent, born, starts, torn, lost, turns, crashes>>

-----------------------------------------------------------------------------
(* Jobs of the event loop: releases and wakes. *)

\* Mutant: only the wakes are looked at.
RetryWakes(t) ==
    /\ Running(Job("retry", t))
    /\ Sync(<<Job("wakes", t)>>)
    /\ UNCHANGED <<durable, drain, redrain, turn, work, watch, wakes, spent, history>>
Retry(t) ==
    /\ Running(Job("retry", t))
    /\ Sync(<<Job("wakes", t), Job("release", t)>>)
    /\ UNCHANGED <<durable, drain, redrain, turn, work, watch, wakes, spent, history>>

\* releaseDelegationsWaitingOn: a bot that works on has freed a slot at most.
Release(t) ==
    LET b == Owner[t]
        freed == IF Busy(b) /\ AtCapacity(b) THEN {}
                 ELSE {i \in parked : Owner[To[i]] = b /\ (Busy(b) => i \in Fresh)}
    IN
    /\ Running(Job("release", t))
    /\ parked' = parked \ freed
    /\ \E order \in SetToSeqs({From[i] : i \in freed}) :
          Sync([k \in DOMAIN order |-> Job("drain", order[k])])
    /\ UNCHANGED <<queue, granted, receipt, gone, active, barred, stale, drain, redrain, turn, work,
                   watch, wakes, spent, history>>

\* dispatchDelegationWake: within the budget, the source's turn begins.
\* Mutant: the budget is counted, never asked.
WakeUnbudgeted(t, refused) ==
    /\ unseen' = unseen \ {t}
    /\ spent' = [spent EXCEPT ![t] = @ + 1]
    /\ IF refused THEN UNCHANGED <<turn, work>> ELSE Begin(t, NoItem)
WakeNow(t, refused) ==
    /\ unseen' = unseen \ {t}
    /\ IF spent[t] >= WakeBudget THEN UNCHANGED <<spent, turn, work>>
       ELSE /\ spent' = [spent EXCEPT ![t] = @ + 1]
            /\ IF refused THEN UNCHANGED <<turn, work>> ELSE Begin(t, NoItem)

Debt(t) == IF t \in gone \/ t \in ToSet(wakes) THEN wakes ELSE Append(wakes, t)

\* wakeDelegationSource: a source that cannot take a turn is woken later.
Wake(t, refused) ==
    /\ Running(Job("wake", t))
    /\ Sync(<<>>)
    /\ IF t \notin gone /\ Admits(t)
       THEN WakeNow(t, refused) /\ UNCHANGED wakes
       ELSE /\ wakes' = Debt(t)
            /\ UNCHANGED <<spent, turn, work, unseen>>
    /\ UNCHANGED <<durable, drain, redrain, watch, born, starts, torn, lost, turns, crashes>>

\* drainDelegationWakes: one entry after the other that can be served.
Servable(t) == t \in gone \/ Admits(t)
FirstServable(t) == \E k \in DOMAIN wakes : /\ wakes[k] = t /\ Servable(t)
                                            /\ \A m \in 1..(k - 1) : ~Servable(wakes[m])
WakeParked(t, refused) ==
    /\ ~Quiet /\ Head(jobs).do = "wakes"
    /\ FirstServable(t)
    /\ wakes' = Without(wakes, {t})
    /\ IF t \in gone THEN UNCHANGED <<spent, turn, work, unseen>> ELSE WakeNow(t, refused)
    /\ UNCHANGED <<durable, jobs, drain, redrain, watch, born, starts, torn, lost, turns, crashes>>
WakesDone ==
    /\ ~Quiet /\ Head(jobs).do = "wakes" /\ \A k \in DOMAIN wakes : ~Servable(wakes[k])
    /\ Sync(<<>>)
    /\ UNCHANGED <<durable, drain, redrain, turn, work, watch, wakes, spent, history>>

-----------------------------------------------------------------------------
\* The process dies and starts again: the queue, its parked and granted marks
\* and the receipts are loaded, elapsed windows are renewed, every thread with
\* handoffs is drained.
Crash ==
    /\ crashes < MaxCrashes
    /\ crashes' = crashes + 1
    /\ torn' = torn \cup {Handling(t) : t \in {u \in Threads : drain[u].await \in {"settled", "dispatched"}}}
    /\ lost' = lost \cup (UNION {Watched(t) : t \in Threads})
    /\ stale' = {} /\ redrain' = {} /\ wakes' = <<>> /\ unseen' = {}
    /\ drain' = [t \in Threads |-> NoDrain]
    /\ turn' = [t \in Threads |-> "idle"]
    /\ work' = [t \in Threads |-> NoItem]
    /\ watch' = [t \in Threads |-> NoItem]
    /\ spent' = [t \in Threads |-> 0]
    /\ \E order \in SetToSeqs({t \in Threads : queue[t] # <<>>}) :
          jobs' = [k \in DOMAIN order |-> Job("drain", order[k])]
    /\ UNCHANGED <<queue, parked, granted, receipt, gone, active, barred, born, starts, turns>>

World ==
    \/ \E t \in Threads : PersonStarts(t) \/ Acknowledged(t) \/ SetupFails(t) \/ Stalls(t) \/ Released(t)
                          \/ WindowPasses(t) \/ Delete(t) \/ Open(t)
    \/ \E t \in Threads, ok \in BOOLEAN, next \in TurnPhases : Completed(t, ok, next)
    \/ \E t \in Threads, verdict \in {"allow", "deny"} : Answer(t, verdict)
    \/ \E i \in Items : Age(i) \/ Bar(i) \/ \E approved \in BOOLEAN : Queue(i, approved)
    \/ Sweep

Loop ==
    \/ \E t \in Threads : DrainBegins(t) \/ DrainEnds(t) \/ Skip(t) \/ Ignore(t) \/ Acknowledge(t)
                          \/ Retry(t) \/ Release(t)
    \/ \E t \in Threads, i \in Items : Drop(t, i) \/ Expire(t, i) \/ Deny(t, i) \/ Park(t, i) \/ Ask(t, i)
    \/ \E t \in Threads, i \in Items, refused \in Refusals : Dispatch(t, i, refused)
    \/ \E t \in Threads, refused \in Refusals : Wake(t, refused) \/ WakeParked(t, refused)
    \/ WakesDone

Next == World \/ Loop \/ Crash

Spec == Init /\ [][Next]_vars

\* The loop runs what it has; engines, settlements, timers and the watchdog
\* end what they began.  Nobody has to write, delegate, delete or crash.
FairSpec ==
    /\ Spec
    /\ WF_vars(Loop)
    /\ \A t \in Threads :
        /\ WF_vars(Acknowledged(t) \/ SetupFails(t))
        /\ WF_vars((\E ok \in BOOLEAN, next \in TurnPhases : Completed(t, ok, next)) \/ Stalls(t) \/ Released(t))
        /\ WF_vars(\E verdict \in {"allow", "deny"} : Answer(t, verdict))

-----------------------------------------------------------------------------
TypeOK ==
    /\ queue \in [Threads -> Seq(Items)]
    /\ parked \subseteq Items /\ granted \subseteq Items /\ barred \subseteq Items /\ stale \subseteq Items
    /\ receipt \in [Items -> Outcomes]
    /\ gone \subseteq Threads /\ active \in [Bots -> Threads]
    /\ jobs \in Seq(Jobs)
    /\ drain \in [Threads -> Drains]
    /\ redrain \subseteq Threads
    /\ turn \in [Threads -> TurnPhases]
    /\ work \in [Threads -> Items \cup {NoItem}] /\ watch \in [Threads -> Items \cup {NoItem}]
    /\ wakes \in Seq(Threads) /\ spent \in [Threads -> 0..WakeBudget]
    /\ born \subseteq Items /\ starts \in [Items -> Nat]
    /\ unseen \subseteq Threads /\ torn \subseteq Items /\ lost \subseteq Items
    /\ turns \in 0..MaxTurns /\ crashes \in 0..MaxCrashes

\* No handoff vanishes: it waits in the saved queue, or a running turn is
\* watched for its reply, or it has a receipt.  Only a crash under the running
\* turn, or a second handoff into the same thread, leaves one without.
Accounted ==
    \A i \in born : Queued(i) \/ receipt[i] # "none" \/ (\E t \in Threads : watch[t] = i) \/ i \in lost

\* The reply a handoff is credited with is the reply of its own turn: whoever
\* is watched in a thread is whom the thread works for.
ReplyIsItsOwn ==
    \A t \in Threads : watch[t] # NoItem => work[t] = watch[t] /\ turn[t] \in {"setup", "working"}

\* The target runs a handoff once, however often it was parked, asked about,
\* drained or reloaded; only a crash before the acknowledgement repeats it.
StartedOnce == \A i \in Items : starts[i] > 1 => i \in torn

\* No release is missed: when the loop rests, whatever is parked and in no
\* drain waits for a target that really cannot take it.
ParkedForAReason ==
    Quiet => \A i \in parked : Queued(i) /\ (Draining(From[i]) \/ ~CanTake(i))

\* A source that learnt of an outcome has begun a turn since, or its wake is
\* parked, or its wake budget was spent.
WakeIsKept == Quiet => unseen \subseteq ToSet(wakes) \cup gone

\* A parked wake waits for a thread that really cannot take a turn.
WakeParkedForAReason == Quiet => \A k \in DOMAIN wakes : wakes[k] \in gone \/ ~Admits(wakes[k])

\* What a handoff came to is never revised, whatever answers, stops, sweeps
\* and completions arrive later; a crash may undo what was not acknowledged.
OutcomeIsFinal ==
    [][\A i \in Items : receipt[i] # "none" /\ i \notin torn => receipt'[i] = receipt[i]]_vars

\* The target's turn starts only for a handoff that is still queued at that
\* moment, unsettled, within reach, and approved if its sender needs it,
\* although people, stops and sweeps act while its approval is awaited.
StartsWithAuthority ==
    [][\A i \in Items : starts'[i] # starts[i] =>
          /\ Queued(i) /\ (receipt[i] = "none" \/ i \in torn)
          /\ i \notin barred /\ From[i] \notin gone /\ Target(i) \notin gone
          /\ Owner[From[i]] \in Reviewed => i \in granted']_vars

\* No handoff is lost, run twice or credited with another's reply.
DeliveredOnce == Accounted /\ StartedOnce /\ ReplyIsItsOwn

\* Nothing sleeps that could run: no parked handoff, no wake of its sender.
NothingSleepsInVain == ParkedForAReason /\ WakeIsKept /\ WakeParkedForAReason

\* Handoffs begin and end by the rules.
RulesAreKept == StartsWithAuthority /\ OutcomeIsFinal

\* A parked handoff is delivered or settled in the end, and every delegated
\* turn is reported in the end.
HandoffsMove ==
    \A i \in Items :
        /\ (i \in parked) ~> ~Queued(i)
        /\ (\E t \in Threads : watch[t] = i) ~> (receipt[i] # "none" \/ i \in lost)
=============================================================================
