------------------------------ MODULE Routines ------------------------------
(***************************************************************************)
(* The routine scheduler of src/server/routines.ts, with the webhook       *)
(* deliveries (src/server/webhooks.ts) and the confirmation cards          *)
(* (src/server/routine-requests.ts) that put work into it.                 *)
(*                                                                         *)
(* One process keeps routines and runs in memory and writes both as one    *)
(* file; every write can fail, and the process can die.  A tick walks the  *)
(* runs: it times out long ones, queues what is due and starts what is     *)
(* queued.  Other requests are served while a tick waits for an engine.    *)
(* The engine's turn of a run is a small machine of its own.               *)
(*                                                                         *)
(* All routines belong to one bot.  Room goals, weekday and clock windows, *)
(* results threads and continuity are left out.                            *)
(***************************************************************************)
EXTENDS Integers, FiniteSets, FiniteSetsExt

CONSTANTS
    Routines,      \* routine ids, numbers: a batch queues them in this order
    Plans,         \* the schedules a routine may have
    Deliveries,    \* delivery ids the webhook's sender uses, again and again
    Cards,         \* confirmation cards that ask to run a routine now
    Target,        \* the routine the cards ask for
    Every,         \* minutes between two occurrences
    EndsAt,        \* the last minute of an interval series
    CatchUp,       \* CATCH_UP_MS
    Timeout,       \* a run's timeoutMinutes
    Retain,        \* MAX_RUNS
    RetryWindow,   \* WEBHOOK_RETRY_WINDOW_MS
    MaxReceipts,   \* MAX_WEBHOOK_RECEIPTS
    MaxPending,    \* MAX_PENDING_RUNS
    Slots,         \* turns a bot may run at once
    MaxRuns,       \* bound: runs ever made
    MaxTime,       \* bound: the clock
    MaxTrouble,    \* bound: edits, cancellations, guests and failed writes
    MaxCrashes     \* bound: restarts

ASSUME BoundsAssumption ==
    /\ Routines \subseteq Nat \ {0} /\ IsFiniteSet(Routines) /\ Target \in Routines
    /\ Plans \subseteq [kind : {"once", "interval", "daily"}, overlap : {"skip", "queue"}]
    /\ Every \in Nat \ {0}
    /\ Every <= EndsAt    \* create refuses a series that is already over
    /\ {EndsAt, CatchUp, Timeout, Retain, RetryWindow, MaxReceipts, MaxPending, Slots,
        MaxRuns, MaxTime, MaxTrouble, MaxCrashes} \subseteq Nat

VARIABLES
    plan,       \* each routine's schedule
    mem,        \* routines, runs and receipts in memory
    disk,       \* routines.json
    hooks,      \* webhooks.json: deliveries known in memory and on disk
    answered,   \* cards whose answer is written in the transcript
    tick,       \* where the running tick stands
    turn,       \* the engine's turn of each run
    guest,      \* another turn of the bot occupies a slot
    gone,       \* the bot was deleted
    clock,
    trouble,    \* edits, cancellations and guests so far
    failures,   \* writes that failed so far
    crashes,    \* restarts so far
    \* history
    made,       \* runs made so far
    starts,     \* times each run's turn was started
    told,       \* times each run was announced as failed
    applied,    \* times each card's request was carried out
    accepts     \* the acceptances of each delivery

env == <<guest, gone, clock>>
history == <<made, starts, told, applied, accepts>>
vars == <<plan, mem, disk, hooks, answered, tick, turn, env, trouble, failures, crashes, history>>

Never == -1
Webhook == 0    \* what a webhook's runs belong to
Runs == 1..MaxRuns
NoRun == [status |-> "none"]
Working == {"running", "waiting"}
Live == {"queued"} \cup Working
Ended == {"completed", "failed", "cancelled", "missed"}

\* A run.  The times are dropped once it has ended: nothing reads them then.
RunType == [status : Live \cup Ended, of : Routines \cup {Webhook}, by : {"schedule", "manual", "webhook"},
            due : 0..MaxTime, began : {Never} \cup 0..MaxTime, deferred : BOOLEAN,
            key : Deliveries \cup {"none"}]

Ids(runs) == {i \in Runs : runs[i] # NoRun}
In(runs, statuses) == {i \in Runs : runs[i].status \in statuses}
OfRoutine(runs, r) == {i \in Ids(runs) : runs[i].of = r}

-----------------------------------------------------------------------------
(* Schedules.                                                              *)

\* The minutes at which a schedule falls due.
Occurrences(schedule) ==
    CASE schedule.kind = "once" -> {Every}
      [] schedule.kind = "interval" -> {t \in 1..EndsAt : t % Every = 0}
      [] schedule.kind = "daily" -> {t \in 1..(MaxTime + Every) : t % Every = 0}

NextOccurrence(schedule, after) ==
    LET later == {t \in Occurrences(schedule) : t > after} IN IF later = {} THEN Never ELSE Min(later)

LatestOccurrence(schedule, at) ==
    LET past == {t \in Occurrences(schedule) : t <= at} IN IF past = {} THEN Never ELSE Max(past)

InitialOccurrence(schedule, now) == IF schedule.kind = "once" THEN Every ELSE NextOccurrence(schedule, now)

-----------------------------------------------------------------------------
(* The file.                                                               *)

\* Mutant: the cap evicts the oldest, ended or not.
PruneOldest(runs) ==
    LET evicted == {i \in Ids(runs) : Cardinality({j \in Ids(runs) : j < i}) < Cardinality(Ids(runs)) - Retain}
    IN [i \in Runs |-> IF i \in evicted THEN NoRun ELSE runs[i]]

\* The history cap: the oldest ended runs are dropped, live ones never.
Prune(runs) ==
    LET ended == In(runs, Ended)
        excess == Cardinality(Ids(runs)) - Retain
        evicted == {i \in ended : Cardinality({j \in ended : j < i}) < excess}
    IN [i \in Runs |-> IF i \in evicted THEN NoRun ELSE runs[i]]

Pruned(m) == [m EXCEPT !.runs = Prune(@)]

Saved(m) == /\ mem' = Pruned(m)
            /\ disk' = Pruned(m)
            /\ UNCHANGED failures

Disturbed == trouble + failures < MaxTrouble /\ trouble' = trouble + 1

WriteFails == trouble + failures < MaxTrouble /\ failures' = failures + 1

\* A plain save() that throws: memory has changed, the file has not.
Unsaved(m) == WriteFails /\ mem' = Pruned(m) /\ UNCHANGED disk

\* commitMutation: memory is put back when the write throws.  It is put back
\* as clones, so a tick that walks the runs goes on with the old objects.
RolledBack == /\ WriteFails
              /\ UNCHANGED <<mem, disk>>
              /\ tick' = IF tick.at = "interrupting" /\ tick.stale = <<>>
                           THEN [tick EXCEPT !.stale = <<mem.runs>>] ELSE tick

\* save() succeeds or throws.
SavedOrNot(m) == Saved(m) \/ Unsaved(m)

Closed(run, status) == [run EXCEPT !.status = status, !.began = Never, !.deferred = FALSE]

EndAll(m, is, status) ==
    [m EXCEPT !.runs = [i \in Runs |-> IF i \in is THEN Closed(@[i], status) ELSE @[i]]]

Ends(m, i, status) == EndAll(m, {i}, status)

NewRun(of, by, due, key) ==
    [status |-> "queued", of |-> of, by |-> by, due |-> due, began |-> Never, deferred |-> FALSE, key |-> key]

Told(is) == told' = [i \in Runs |-> IF i \in is THEN told[i] + 1 ELSE told[i]]

\* Stop the engine's turns of some runs; work they delegated is discarded.
Interrupted(is) ==
    turn' = [i \in Runs |-> IF i \notin is THEN turn[i]
                            ELSE IF turn[i] \in {"live", "asking", "stopping"} THEN "stopping" ELSE "none"]

-----------------------------------------------------------------------------
(* The tick.                                                               *)

Idle == [at |-> "idle", now |-> 0, todo |-> {}, stale |-> <<>>]

\* Requests and events are served between ticks and while one waits.
Free == tick.at \in {"idle", "interrupting", "starting"}

\* A tick that is just starting reads the clock once and walks every run.
Walk == IF tick.at = "idle" THEN [Idle EXCEPT !.now = clock, !.todo = Ids(mem.runs)] ELSE tick

\* The runs the timeout loop looks at, detached ones after a rollback.
Walked == IF tick.stale = <<>> THEN mem.runs ELSE tick.stale[1]

Overdue(i) == /\ Walked[i].status \in Working
              /\ Walked[i].began # Never
              /\ Walk.now - Walked[i].began >= Timeout

\* A run past its limit is failed, announced and its turn interrupted.
TimesOut ==
    /\ tick.at \in {"idle", "interrupting"}
    /\ \E i \in Walk.todo :
         /\ Overdue(i) /\ \A j \in Walk.todo : Overdue(j) => i <= j
         /\ LET failed == IF tick.stale = <<>> THEN Ends(mem, i, "failed") ELSE mem
                walked == IF tick.stale = <<>> THEN <<>> ELSE <<[tick.stale[1] EXCEPT ![i].status = "failed"]>>
            IN \/ /\ Saved(failed) /\ Told({i}) /\ Interrupted({i})
                  /\ tick' = [Walk EXCEPT !.at = "interrupting", !.stale = walked, !.todo = {j \in @ : j > i}]
               \/ /\ Unsaved(failed) /\ tick' = Idle /\ UNCHANGED <<told, turn>>
    /\ UNCHANGED <<plan, hooks, answered, env, trouble, crashes, made, starts, applied, accepts>>

\* What is due at the tick's time, and what becomes of each.
\* Bound: nothing falls due once the run ids are used up.
DueNow == {r \in Routines : /\ mem.routines[r].state = "on" /\ mem.routines[r].next \in 0..Walk.now
                            /\ made + Cardinality(Routines) <= MaxRuns}
Late(r) == Walk.now - mem.routines[r].next > CatchUp
ScheduledFor(r) ==
    IF plan[r].kind = "interval" /\ ~Late(r) THEN LatestOccurrence(plan[r], Walk.now) ELSE mem.routines[r].next
Overlapping(r) == plan[r].kind # "once" /\ OfRoutine(mem.runs, r) \cap In(mem.runs, Live) # {}
ScheduledQueued(r) == \E i \in OfRoutine(mem.runs, r) : mem.runs[i].status = "queued" /\ mem.runs[i].by = "schedule"
GetsARun(r) == ~Overlapping(r) \/ (plan[r].overlap = "queue" /\ ~ScheduledQueued(r))

\* The place a routine's new run takes in the batch.
BatchId(r) == made + Cardinality({q \in DueNow : GetsARun(q) /\ q <= r})

NewRuns == {r \in DueNow : GetsARun(r)}

\* Mutant: a series that is over stays on.
MovedStaysOn(r) ==
    [state |-> IF plan[r].kind = "once" THEN "off" ELSE "on",
     next |-> IF plan[r].kind = "once" THEN Never ELSE NextOccurrence(plan[r], Max({Walk.now, ScheduledFor(r)}))]
Moved(r) ==
    LET next == IF plan[r].kind = "once" THEN Never
                ELSE NextOccurrence(plan[r], Max({Walk.now, ScheduledFor(r)}))
    IN [state |-> IF plan[r].kind # "daily" /\ next = Never THEN "off" ELSE "on", next |-> next]

CaughtUp ==
    [mem EXCEPT
       !.routines = [r \in Routines |-> IF r \in DueNow THEN Moved(r) ELSE @[r]],
       !.runs = [i \in Runs |->
          IF \E r \in NewRuns : BatchId(r) = i
            THEN LET r == CHOOSE q \in NewRuns : BatchId(q) = i
                 IN [NewRun(r, "schedule", ScheduledFor(r), "none") EXCEPT !.status = IF Late(r) THEN "missed" ELSE "queued"]
            ELSE @[i]]]

\* The tick is over when no run of the walk is queued any more.
GoesOn(t, runs) == IF \E i \in t.todo : runs[i].status = "queued" THEN t ELSE Idle

Occupied == Cardinality({i \in Runs : turn[i] \in {"live", "asking", "stopping"}}) + IF guest THEN 1 ELSE 0

\* A queued interval run stands for the newest check that is due.
Aligned(i) ==
    LET run == mem.runs[i]
        latest == IF run.by = "schedule" /\ mem.routines[run.of].state # "gone" /\ plan[run.of].kind = "interval"
                    THEN LatestOccurrence(plan[run.of], Walk.now) ELSE Never
    IN IF latest > run.due THEN [mem EXCEPT !.runs[i].due = latest] ELSE mem

SeriesOver(i) ==
    /\ mem.runs[i].by = "schedule"
    /\ mem.routines[mem.runs[i].of].state # "gone"
    /\ plan[mem.runs[i].of].kind = "interval"
    /\ Walk.now > EndsAt

SameRoutineWorking(i) ==
    /\ mem.runs[i].by = "schedule"
    /\ OfRoutine(mem.runs, mem.runs[i].of) \cap In(mem.runs, Working) # {}

\* A queued run the tick would leave exactly as it is.
StillHeld(i) ==
    /\ ~SeriesOver(i) /\ (SameRoutineWorking(i) \/ (~gone /\ Occupied >= Slots))
    /\ mem.runs[i].deferred /\ Aligned(i) = mem

\* A tick that finds nothing to do is left out.
CatchesUp ==
    /\ tick.at \in {"idle", "interrupting"}
    /\ \A i \in Walk.todo : ~Overdue(i)
    /\ tick.at = "interrupting" \/ DueNow # {} \/ \E i \in In(mem.runs, {"queued"}) : ~StillHeld(i)
    /\ \/ /\ IF DueNow = {} THEN UNCHANGED <<mem, disk, failures>> ELSE Saved(CaughtUp)
          /\ made' = made + Cardinality(NewRuns)
          /\ Told({BatchId(r) : r \in {q \in NewRuns : Late(q)}})
          /\ tick' = GoesOn([Walk EXCEPT !.at = "dispatch", !.todo = Ids(mem'.runs), !.stale = <<>>], mem'.runs)
       \/ /\ DueNow # {} /\ WriteFails
          /\ tick' = Idle
          /\ UNCHANGED <<mem, disk, made, told>>
    /\ UNCHANGED <<plan, hooks, answered, turn, env, trouble, crashes, starts, applied, accepts>>

\* The next queued run of the walk.
Next1 == Min({i \in Walk.todo : mem.runs[i].status = "queued"})
Passed(i) == {j \in Walk.todo : j > i}

\* An interval that ended takes its queued run with it.
Misses(i) ==
    /\ SeriesOver(i)
    /\ \/ Saved(Ends(Aligned(i), i, "missed")) /\ Told({i}) /\ tick' = GoesOn([tick EXCEPT !.todo = Passed(i)], mem'.runs)
       \/ Unsaved(Ends(Aligned(i), i, "missed")) /\ tick' = Idle /\ UNCHANGED told
    /\ UNCHANGED <<turn, starts>>

\* The run waits: for its routine's earlier run, or for a free slot.
Defers(i) ==
    /\ ~SeriesOver(i) /\ (SameRoutineWorking(i) \/ (~gone /\ Occupied >= Slots))
    /\ LET held == [Aligned(i) EXCEPT !.runs[i].deferred = TRUE]
       IN \/ Saved(held) /\ tick' = GoesOn([tick EXCEPT !.todo = Passed(i)], mem'.runs)
          \/ held # mem /\ Unsaved(held) /\ tick' = Idle
    /\ UNCHANGED <<turn, starts, told>>

FindsNoBot(i) ==
    /\ ~SeriesOver(i) /\ ~SameRoutineWorking(i) /\ gone
    /\ \/ Saved(Ends(Aligned(i), i, "failed")) /\ Told({i}) /\ tick' = GoesOn([tick EXCEPT !.todo = Passed(i)], mem'.runs)
       \/ Unsaved(Ends(Aligned(i), i, "failed")) /\ tick' = Idle /\ UNCHANGED told
    /\ UNCHANGED <<turn, starts>>

\* The run is saved as running and then its turn is started.  A start that is
\* refused fails the run; a save that throws leaves it running with no turn.
StartsRun(i) ==
    /\ ~SeriesOver(i) /\ ~SameRoutineWorking(i) /\ ~gone /\ Occupied < Slots
    /\ LET begun == [Aligned(i) EXCEPT !.runs[i].status = "running", !.runs[i].began = clock]
       IN \/ /\ Saved(begun)
             /\ turn' = [turn EXCEPT ![i] = "live"] /\ starts' = [starts EXCEPT ![i] = @ + 1]
             /\ tick' = GoesOn([tick EXCEPT !.at = "starting", !.todo = Passed(i)], mem'.runs)
             /\ UNCHANGED told
          \/ /\ Saved(Ends(begun, i, "failed")) /\ Told({i})
             /\ tick' = GoesOn([tick EXCEPT !.at = "starting", !.todo = Passed(i)], mem'.runs)
             /\ UNCHANGED <<turn, starts>>
          \/ Unsaved(begun) /\ tick' = Idle /\ UNCHANGED <<turn, starts, told>>

Dispatches ==
    /\ tick.at \in {"dispatch", "starting"}
    /\ \E i \in Walk.todo : mem.runs[i].status = "queued"
    /\ Misses(Next1) \/ Defers(Next1) \/ FindsNoBot(Next1) \/ StartsRun(Next1)
    /\ UNCHANGED <<plan, hooks, answered, env, trouble, crashes, made, applied, accepts>>

\* The runs still to start were cancelled meanwhile.
TickEnds ==
    /\ tick.at = "starting" /\ \A i \in tick.todo : mem.runs[i].status # "queued"
    /\ tick' = Idle
    /\ UNCHANGED <<plan, mem, disk, hooks, answered, turn, env, trouble, failures, crashes, history>>

-----------------------------------------------------------------------------
(* Requests.                                                               *)

Exists(r) == mem.routines[r].state # "gone"

\* A new run in memory, with the next id.
WithRun(m, run) == [m EXCEPT !.runs[made + 1] = run]

RunNow ==
    /\ Free /\ made < MaxRuns /\ Exists(Target)
    /\ Disturbed
    /\ \/ /\ Saved(WithRun(mem, NewRun(Target, "manual", 0, "none")))
          /\ made' = made + 1 /\ UNCHANGED tick
       \/ RolledBack /\ UNCHANGED made
    /\ UNCHANGED <<plan, hooks, answered, turn, env, crashes, starts, told, applied, accepts>>

\* Bound: a behaviour has confirmed cards or webhook deliveries, not both.
NoDeliveryYet == \A d \in Deliveries : accepts[d].n = 0
NoCardYet == \A q \in Cards : applied[q] = 0

\* Mutant: the request's receipt is not part of the run's write.
SettlesCardApart(q, committed) ==
    \/ /\ Saved([committed EXCEPT !.receipts = @ \ {q}]) /\ answered' = answered \cup {q} /\ UNCHANGED tick
    \/ /\ WriteFails /\ answered' = answered /\ UNCHANGED tick
       /\ LET m == Pruned([committed EXCEPT !.receipts = @ \ {q}]) IN mem' = m /\ disk' = m

\* "Allow" on a card, or a repeat of it.  The run and the request's receipt
\* are committed together, then the answer is written to the transcript, then
\* the receipt is forgotten; the last two writes may fail.
SettlesCard(q, committed) ==
    \/ /\ Saved([committed EXCEPT !.receipts = @ \ {q}]) /\ answered' = answered \cup {q} /\ UNCHANGED tick
    \/ /\ WriteFails /\ mem' = Pruned(committed) /\ disk' = Pruned(committed)
       /\ answered' \in {answered, answered \cup {q}}
       /\ tick' = IF tick.at = "interrupting" /\ tick.stale = <<>> /\ q \in answered'
                    THEN [tick EXCEPT !.stale = <<Prune(committed.runs)>>] ELSE tick

Confirms(q) ==
    /\ Free /\ q \notin answered
    /\ \/ /\ q \in mem.receipts
          /\ SettlesCard(q, mem) /\ UNCHANGED <<made, applied>>
       \/ /\ q \notin mem.receipts /\ made < MaxRuns /\ Exists(Target) /\ NoDeliveryYet
          /\ \/ /\ SettlesCard(q, [WithRun(mem, NewRun(Target, "manual", 0, "none")) EXCEPT !.receipts = @ \cup {q}])
                /\ made' = made + 1 /\ applied' = [applied EXCEPT ![q] = @ + 1]
             \/ RolledBack /\ UNCHANGED <<answered, made, applied>>
    /\ UNCHANGED <<plan, hooks, turn, env, trouble, crashes, starts, told, accepts>>

ConfirmsAgain(q) ==
    /\ Free /\ q \in answered /\ q \in mem.receipts
    /\ \/ Saved([mem EXCEPT !.receipts = @ \ {q}]) /\ UNCHANGED tick
       \/ RolledBack
    /\ UNCHANGED <<plan, hooks, answered, turn, env, trouble, crashes, history>>

\* A delivery identity the scheduler remembers.
InWindow(d) == mem.seen[d] # Never /\ mem.seen[d] >= clock - RetryWindow
HasLiveRun(d) == \E i \in In(mem.runs, Live) : mem.runs[i].key = d
\* Mutant: a delivery is forgotten with its run.
KnowsItsRun(d) == HasLiveRun(d)
webhookRunReceipt(d) == InWindow(d) \/ HasLiveRun(d)

Duplicate(d) == webhookRunReceipt(d) \/ d \in hooks.mem

\* A webhook delivery becomes a queued run and a receipt in one file, then a
\* known delivery in the other.
Receives(d) ==
    /\ Free /\ made < MaxRuns /\ ~gone /\ ~Duplicate(d) /\ NoCardYet
    /\ Cardinality({i \in In(mem.runs, Live) : mem.runs[i].by = "webhook"}) < MaxPending
    /\ Cardinality({e \in Deliveries : InWindow(e)}) < MaxReceipts
    /\ LET m == [WithRun(mem, NewRun(Webhook, "webhook", 0, d)) EXCEPT
                   !.seen = [e \in Deliveries |-> IF e = d THEN clock ELSE IF InWindow(e) THEN @[e] ELSE Never]]
       IN \/ /\ \/ Saved(m) /\ hooks' = [mem |-> hooks.mem \cup {d}, disk |-> hooks.mem \cup {d}]
                \/ WriteFails /\ mem' = Pruned(m) /\ disk' = Pruned(m) /\ hooks' = [hooks EXCEPT !.mem = @ \cup {d}]
             /\ made' = made + 1 /\ accepts' = [accepts EXCEPT ![d] = [n |-> @.n + 1, at |-> clock]]
          \/ WriteFails /\ UNCHANGED <<mem, disk, hooks, made, accepts>>
    /\ UNCHANGED <<plan, answered, tick, turn, env, trouble, crashes, starts, told, applied>>

QueuedOf(r) == {i \in OfRoutine(mem.runs, r) : mem.runs[i].status = "queued"}

\* Pausing, resuming and removing a routine: committed or rolled back.
Commits(m) == (Saved(m) /\ UNCHANGED tick) \/ RolledBack

Pauses(r) ==
    Commits([EndAll(mem, QueuedOf(r), "cancelled") EXCEPT !.routines[r] = [state |-> "off", next |-> Never]])

Resumes(r) ==
    /\ mem.routines[r].state = "off" /\ ~gone
    /\ ~(plan[r].kind = "interval" /\ InitialOccurrence(plan[r], clock) = Never)
    /\ Commits([mem EXCEPT !.routines[r] = [state |-> "on", next |-> InitialOccurrence(plan[r], clock)]])

Removes(r) ==
    Commits([EndAll(mem, QueuedOf(r), "cancelled") EXCEPT !.routines[r] = [state |-> "gone", next |-> Never]])

Edits == /\ Free /\ Disturbed
         /\ \E r \in Routines : Exists(r) /\ (Pauses(r) \/ Resumes(r) \/ Removes(r))
         /\ UNCHANGED <<plan, hooks, answered, turn, env, crashes, history>>

\* Cancelling is saved first and interrupts the turn only then.
Cancels(i) ==
    /\ Free /\ Disturbed /\ mem.runs[i].status \in Live
    /\ \/ Saved(Ends(mem, i, "cancelled")) /\ Interrupted({i})
       \/ Unsaved(Ends(mem, i, "cancelled")) /\ UNCHANGED turn
    /\ UNCHANGED <<plan, hooks, answered, tick, env, crashes, history>>

\* The bot is deleted: its routines are turned off and its runs cancelled and
\* interrupted before the one save at the end.
DeletesBot ==
    /\ Free /\ ~gone /\ Disturbed
    /\ gone' = TRUE
    /\ LET on == {r \in Routines : mem.routines[r].state = "on"}
           live == In(mem.runs, Live)
       IN /\ SavedOrNot([EndAll(mem, live, "cancelled") EXCEPT
                !.routines = [r \in Routines |-> IF r \in on THEN [state |-> "off", next |-> Never] ELSE @[r]]])
          /\ Interrupted(live)
    /\ UNCHANGED <<plan, hooks, answered, tick, guest, clock, crashes, history>>

-----------------------------------------------------------------------------
(* The engine's turns, and what the scheduler makes of their events.       *)

\* An event reaches the run of its thread only while that is at work.
Hears(i, m) == IF mem.runs[i].status \in Working THEN SavedOrNot(m) ELSE UNCHANGED <<mem, disk, failures>>

FailsRun(i) ==
    IF mem.runs[i].status \in Working
      THEN \/ Saved(Ends(mem, i, "failed")) /\ Told({i})
           \/ Unsaved(Ends(mem, i, "failed")) /\ UNCHANGED told
      ELSE UNCHANGED <<mem, disk, failures, told>>

Evented == UNCHANGED <<plan, hooks, answered, tick, env, trouble, crashes, made, starts, applied, accepts>>

Status(i, status) == [mem EXCEPT !.runs[i].status = status]

\* The turn asks for an approval, and gets it.
Asks(i) == /\ Free /\ turn[i] = "live" /\ turn' = [turn EXCEPT ![i] = "asking"]
           /\ Hears(i, Status(i, "waiting")) /\ Evented /\ UNCHANGED told

Answers(i) == /\ Free /\ turn[i] = "asking" /\ turn' = [turn EXCEPT ![i] = "live"]
              /\ Hears(i, Status(i, "running")) /\ Evented /\ UNCHANGED told

Completes(i) == /\ Free /\ turn[i] = "live" /\ turn' = [turn EXCEPT ![i] = "none"]
                /\ Hears(i, Ends(mem, i, "completed")) /\ Evented /\ UNCHANGED told

\* The turn ends but work it handed to a teammate is still out.
Delegates(i) == /\ Free /\ turn[i] = "live" /\ mem.runs[i].status \in Working
                /\ turn' = [turn EXCEPT ![i] = "away"]
                /\ Hears(i, Status(i, "waiting")) /\ Evented /\ UNCHANGED told

\* The teammate's reply starts a follow-up turn of the run, or cannot.
Returns(i) == /\ Free /\ turn[i] = "away" /\ mem.runs[i].status \in Working /\ Occupied < Slots
              /\ turn' = [turn EXCEPT ![i] = "live"]
              /\ Hears(i, Status(i, "running")) /\ Evented /\ UNCHANGED told

CannotReturn(i) == /\ Free /\ turn[i] = "away" /\ turn' = [turn EXCEPT ![i] = "none"] /\ FailsRun(i) /\ Evented

Breaks(i) == /\ Free /\ turn[i] = "live" /\ turn' = [turn EXCEPT ![i] = "none"] /\ FailsRun(i) /\ Evented

\* An interrupted turn ends as not completed.
Stops(i) == /\ Free /\ turn[i] = "stopping" /\ turn' = [turn EXCEPT ![i] = "none"] /\ FailsRun(i) /\ Evented

-----------------------------------------------------------------------------
(* The world.                                                              *)

Advances == /\ clock < MaxTime /\ clock' = clock + 1 /\ Free
            /\ UNCHANGED <<plan, mem, disk, hooks, answered, tick, turn, guest, gone, trouble, failures, crashes, history>>

GuestStarts == /\ ~guest /\ ~gone /\ Free /\ Occupied < Slots 
               /\ guest' = TRUE /\ Disturbed
               /\ UNCHANGED <<plan, mem, disk, hooks, answered, tick, turn, gone, clock, failures, crashes, history>>

GuestEnds == /\ guest /\ Free /\ guest' = FALSE
             /\ UNCHANGED <<plan, mem, disk, hooks, answered, tick, turn, gone, clock, trouble, failures, crashes, history>>

\* Mutant: a run that waited for a person or a teammate is kept.
TornRunning(runs) == In(runs, {"running"})
Torn(runs) == In(runs, Working)

\* The process dies and starts again.  Runs that were at work are failed and
\* announced; receipts whose card is answered are dropped.  A restart that
\* changes nothing is left out.
Restarts ==
    /\ crashes < MaxCrashes /\ crashes' = crashes + 1
    /\ LET torn == Torn(disk.runs)
           m == [EndAll(disk, torn, "failed") EXCEPT !.receipts = @ \ answered]
       IN mem' = Pruned(m) /\ disk' = Pruned(m) /\ Told(torn)
    /\ hooks' = [hooks EXCEPT !.mem = hooks.disk]
    /\ tick' = Idle /\ turn' = [i \in Runs |-> "none"] /\ guest' = FALSE
    /\ <<mem', hooks', tick', turn', guest'>> # <<mem, hooks, tick, turn, guest>>
    /\ UNCHANGED <<plan, answered, gone, clock, trouble, failures, made, starts, applied, accepts>>

Fresh == [runs |-> [i \in Runs |-> NoRun],
          routines |-> [r \in Routines |-> [state |-> "on", next |-> InitialOccurrence(plan[r], 0)]],
          receipts |-> {}, seen |-> [d \in Deliveries |-> Never]]

Init ==
    /\ plan \in [Routines -> Plans]
    /\ mem = Fresh /\ disk = Fresh
    /\ hooks = [mem |-> {}, disk |-> {}] /\ answered = {}
    /\ tick = Idle /\ turn = [i \in Runs |-> "none"]
    /\ guest = FALSE /\ gone = FALSE /\ clock = 0
    /\ trouble = 0 /\ failures = 0 /\ crashes = 0 /\ made = 0
    /\ starts = [i \in Runs |-> 0] /\ told = [i \in Runs |-> 0]
    /\ applied = [q \in Cards |-> 0] /\ accepts = [d \in Deliveries |-> [n |-> 0, at |-> Never]]

Tick == TimesOut \/ CatchesUp \/ Dispatches \/ TickEnds
TurnEnds(i) == Completes(i) \/ Breaks(i) \/ Stops(i) \/ CannotReturn(i)
TurnGoesOn(i) == Asks(i) \/ Delegates(i) \/ Returns(i)
World == Advances \/ GuestEnds \/ \E i \in Runs : Answers(i)
Asked == RunNow \/ Edits \/ DeletesBot
            \/ (\E q \in Cards : Confirms(q) \/ ConfirmsAgain(q))
            \/ (\E d \in Deliveries : Receives(d))
            \/ (\E i \in Runs : Cancels(i))

Next == \/ Tick \/ Asked \/ World \/ GuestStarts \/ Restarts
        \/ \E i \in Runs : TurnEnds(i) \/ TurnGoesOn(i)

Spec == Init /\ [][Next]_vars

\* The ten-second timer; time, other turns and people who answer; engines that
\* do not ask and delegate for ever without ending a turn.
FairSpec ==
    /\ Spec
    /\ WF_vars(Tick) /\ WF_vars(World)
    /\ SF_vars(\E i \in Runs : TurnEnds(i))

-----------------------------------------------------------------------------
(* What must hold.                                                         *)

StateType == [runs : [Runs -> RunType \cup {NoRun}],
              routines : [Routines -> [state : {"on", "off", "gone"}, next : {Never} \cup Nat]],
              receipts : SUBSET Cards, seen : [Deliveries -> {Never} \cup 0..MaxTime]]

\* The shape of the state; an enabled recurring routine always has a next
\* occurrence (:1444-1457), and the history cap holds but for live runs
\* (:1882-1894).
TypeOK ==
    /\ mem \in StateType /\ disk \in StateType
    /\ plan \in [Routines -> Plans] /\ answered \subseteq Cards
    /\ turn \in [Runs -> {"none", "live", "asking", "away", "stopping"}]
    /\ made \in 0..MaxRuns /\ \A i \in Ids(mem.runs) : i <= made
    /\ \A r \in Routines : (mem.routines[r].state = "on") = (mem.routines[r].next # Never)
    /\ \A f \in {mem, disk} : In(f.runs, Ended) # {} => Cardinality(Ids(f.runs)) <= Max({Retain, Cardinality(In(f.runs, Live))})

\* Each run's turn is started at most once, whatever is retried or restarted
\* (:1542-1548).
StartedOnce == \A i \in Runs : starts[i] <= 1

\* No occurrence of a recurring routine is carried out twice, however late
\* the tick is and however a queued run is moved to a newer occurrence
\* (:1420-1450, :1485-1491).
OccurrenceOnce ==
    \A i, j \in Ids(mem.runs) :
       /\ i # j /\ mem.runs[i].of = mem.runs[j].of /\ mem.runs[i].of \in Routines
       /\ mem.runs[i].by = "schedule" /\ mem.runs[j].by = "schedule"
       /\ plan[mem.runs[i].of].kind # "once"
       => mem.runs[i].due # mem.runs[j].due

\* A confirmed card is carried out once, and an answered one was carried out,
\* across failed writes of either file and restarts (routine-requests.ts
\* :1297-1345, routines.ts:1853-1879).
CardAppliedOnce == \A q \in Cards : applied[q] <= 1 /\ (q \in answered => applied[q] = 1)

\* Nothing is done twice: no run, no occurrence, no confirmed request.
NothingTwice == StartedOnce /\ OccurrenceOnce /\ CardAppliedOnce

\* A run is at work exactly when the engine has a turn of it that nobody
\* stopped, or work it handed out is still expected: no run is stuck, none at
\* work leaves the history, no turn goes on unowned (:1322-1340, :1386-1411,
\* :1881-1894).
WorkHasATurn ==
    \A i \in Runs : (mem.runs[i].status \in Working) = (turn[i] \in {"live", "asking", "away"})

\* A routine's scheduled runs never have two turns at once, even if one waits
\* for an approval or a teammate (:1503-1507).
ScheduledRunsTakeTurns ==
    \A i, j \in Runs : /\ i # j /\ {i, j} \subseteq Ids(mem.runs)
                       /\ mem.runs[i].of = mem.runs[j].of
                       /\ mem.runs[i].by = "schedule" /\ mem.runs[j].by = "schedule"
                       => ~({turn[i], turn[j]} \subseteq {"live", "asking", "away"})

\* Each failed or missed run is announced, once (:1688-1706, :841-859).
FailuresAreTold ==
    \A i \in Runs : told[i] <= 1 /\ (mem.runs[i].status \in {"failed", "missed"} => told[i] = 1)

\* While every write succeeds, what the runs say is what the engine does and
\* what people were told.
RunsAreTrue == failures = 0 => WorkHasATurn /\ ScheduledRunsTakeTurns /\ FailuresAreTold

\* A delivery the sender repeats is queued again only after the retry window
\* and when its run is over, whichever write failed (:1204-1214, :1248-1266,
\* webhooks.ts:453-472); and what the file says has ended stays as it is: no
\* late event, rollback or restart revives it (:1586-1588, :841-852).
RepeatsAndLateEventsAreIgnored ==
    [][/\ \A d \in Deliveries :
            accepts'[d].n > accepts[d].n /\ accepts[d].n > 0
              => clock - accepts[d].at > RetryWindow /\ ~HasLiveRun(d)
       /\ \A i \in Runs : disk.runs[i].status \in Ended => disk'.runs[i] \in {disk.runs[i], NoRun}]_vars

\* Every run ends, given time, people who answer and engines that end their
\* turns: a deferred one is started, a long one timed out, a torn one failed.
\* Not so after a write fails between a run's start and its turn's: it stays
\* at work with no turn, and its routine's later runs wait for it (:1542-1548).
NeverStarted(r) == \E i \in OfRoutine(mem.runs, r) : mem.runs[i].status = "running" /\ turn[i] = "none"
EveryRunEnds ==
    \A i \in Runs : (mem.runs[i].status \in Live)
                     ~> (mem.runs[i].status \in Live => NeverStarted(mem.runs[i].of))
=============================================================================
