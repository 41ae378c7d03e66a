# Verification of Nation Team Chat

This directory holds the TLA+ verification development of the Nation Team Chat server: specifications of
the machinery that coordinates its bots, the TLC configurations that model-check them on small instances,
and the theorems TLAPS proves about them for every instance. `PROJECT.json` lists, for each definition, the
source lines it stands for, and for each run its properties and the code mutants that break them.

Contents: [the system](#the-system) · [inventory](#inventory) · [modules](#modules) · [runs](#runs) ·
[bounds](#bounds) · [fairness](#fairness) · [proofs](#proofs) · [findings](#where-the-code-disagrees) ·
[what is not modelled](#what-is-not-modelled) · [plan](#plan)

## The system

One Node process (`server/index.ts`) serves the web, desktop and mobile clients, keeps a workspace of bots,
threads and rooms in a data directory, and runs *turns* of bots on external agent engines
(`server/drivers/`). Several servers may share one data directory for the journals of cloud computers; the
rest of the directory is leased by one server at a time. Everything inside a server runs on one event loop:
code between two awaits is atomic, and concurrency is what happens across awaits, timers, engine events,
crashes and other processes. Those are the behaviours this project is about.

A bot has threads; a thread runs one turn at a time, a bot at most `maxConcurrentBotThreads` threads at
once; a room runs one turn at a time and blocks its speakers. What a person sends while a thread works waits
in the *composer queue*. A bot that speaks in a room or a thread can hand requests to teammates, which run
as turns of their own and report back (*teammate handoffs*, *async delegations*). *Routines* and *webhooks* start
turns that nobody watches. A bot may own a *cloud computer*, a billable Box at an external provider, and people
pay for what their bots use by transfers that a *payment scan* finds.

## Inventory

The components with the most coordination in them come first. "Model" names the module, or says what the
plan has for it; the reasons for what is left out are under [what is not modelled](#what-is-not-modelled),
and `PROJECT.json` lists all forty components.

### Composer queue: `server/steer-queue.ts`, `chat_followups` of `server/message-db.ts`, routes and turn life cycle in `server/index.ts`

- State: the `queues` map in memory (in insertion order), one durable row per waiting send, the transcript,
  in-flight steers of held queues, the busy phases of each thread, receipts by `sendId`.
- Operations: send (with idempotent retry), direct steer, cancel of one message, hold-and-steer of a queue,
  drain on every event that frees a slot, boot recovery, deletion of a thread.
- Interactions: the turn life cycle calls drains; rooms and delegated work (parking) block them; the
  engine's adapter answers later, perhaps after the turn has settled.
- Hard: state read before an await and used after it; early completions; crash between row, line and turn;
  retries that meet a row in any state; the thread limit.
- Correct when: a send is said and handed over at most once and stays cancelled when cancelled; no
  acknowledged send is lost; no pending row is orphaned; nothing runnable is stranded. Model: `SteerQueue`.

### Teammate handoffs: `server/room-handoffs.ts` and its hooks in `server/index.ts`

- State: the tree of requests in `room-handoffs.json` (status, reported, executions, times), pause
  accounting of each root in memory, nodes whose hook has not returned, internal capabilities of live turns.
- Operations: enqueue under a live turn, the tick (sweep of deadlines, reports, resumes, orphans, budgets,
  starts), settlement of a run, stop of a thread, cancellation of a place, deletions and revoked routes,
  retention, restart.
- Interactions: calls turns of `index.ts` through hooks and is called back by their settlement; posts
  result rows in transcripts; shares the busy state with people's turns.
- Hard: a tick runs in one go, but its publications release follow-up turns, and a crash can come between any
  two of its writes, such as a result row and its flag; deadlines against pauses; late answers after a stop; retention of trees that still have live nodes.
- Correct when: turns never overlap, outcomes are final, results are shown once and before the sender
  resumes, stopped senders start nothing, the hard cap and the minimum runway both hold, every request
  settles and is reported. Model: `RoomHandoffs`.

### Cloud computers: `server/box.ts`, `server/box-create-idempotency.ts`, `server/box-delete-journal.ts`

- State: two journals on disk under a lock file each (the pending create with its idempotency key and Box,
  the fence of each deletion with its operation), an id cache, the provider's truth.
- Operations: provision, its clean-up, delete, inventory with reconciliation; begin, remember, resolve and
  retire of a create; prepare, accept, block, complete and finish of a deletion; the lock protocol.
- Interactions: a provider whose answers are lost, whose listing lags and whose deletions take time or get
  stuck; other servers on the same journals; people who remove a Box at the provider.
- Hard: every call can be lost after it took effect; a crash between two journals; a lock left by a dead
  process, reaped by several candidates at once, with pids that are reused.
- Correct when: a bot never has two billable computers, none is lost from sight, no clean-up deletes what
  the person was given, a fence stands until its Box is gone; the lock excludes, is never taken from the
  living and does not outlast the dead. Models: `CloudBoxes`, `JournalLock`.

### Async delegations: `server/delegations.ts`, `server/peer-approval.ts` and the wakes of `server/index.ts`

- State: queued handoffs per thread (saved), drains under way, parked handoffs, receipts, the watch that
  credits a turn's reply to a handoff, pending wakes and their budget.
- Operations: queue, drain (with a person's card, a target that is busy, a thread that is gone), release and
  retry when a thread becomes idle, expiry, settlement of a delegated turn, wake of the sender, reload.
- Interactions: the turn life cycle of both threads; cards that people answer minutes later.
- Hard: a drain reads state, awaits and goes on; one event drains, wakes and releases in a fixed order; a
  crash between the start of a turn and the removal of its handoff.
- Correct when: no handoff vanishes or is started twice, none is started without authority, an outcome is
  final, a reply is credited to the handoff whose turn gave it, nothing sleeps without a reason. Model:
  `Delegations`.

### Turn dispatch guard and watchdog: `server/turn-dispatch-guard.ts`, `server/turn-watchdog.ts`, `server/index.ts`

- State: claims of turns that are being set up, tombstones of retired turns, the engine's turn bound to each
  thread, early completions, quarantined handshakes, the watchdog's clock and its pause for a card.
- Operations: start, dispatch, acknowledgement, any event, card, completion, stop, stall, release and their
  late twins.
- Interactions: an engine that acknowledges and completes late, early or never.
- Hard: an id is learnt only when the engine answers, so that events of an unknown turn must be told from
  those of an old one; both memories are bounded, in number and in time.
- Correct when: a completion settles its own turn and no other, an old turn is mute, a claim is freed by its
  owner, and a thread whose turn ends or falls silent is free again. Model: `TurnGuard`.

### Routines and webhooks: `server/routines.ts`, `server/routine-requests.ts`, `server/webhooks.ts`

- State: routines, runs, receipts of confirmed cards and identities of deliveries in one file, known
  deliveries in another, answers of cards in the transcript, the engine's turn of each run.
- Operations: the ten-second tick (time limits, what is due, dispatch), run now, pause, resume, remove,
  cancel, a bot's deletion, a card's answer, a delivery, every event of a run's turn, restart.
- Interactions: turns of `index.ts` in the run's own thread; delegations that outlive a run's turn.
- Hard: a tick awaits engines inside its loops; each file is written apart and each write can fail; a
  rolled-back write replaces the objects a tick still walks.
- Correct when: no run, occurrence, card or delivery is carried out twice, the runs say what the engine does,
  failures are told once, every run ends. Model: `Routines`.

### Payment scan: `server/nation-payments.ts`, `server/nation-credits.ts`, `server/routes/nation-credits.ts`

- State: payment requests, purchase rows, the scan's cursor, the scan in progress, pasted hashes.
- Operations: request, paste, the scan chunk by chunk, credit.
- Interactions: a chain that grows and replaces its newest blocks; people who pay late or twice.
- Hard: a pass reads requests, head and logs at different times and saves its cursor past what it saw.
- Correct when: a request is credited once, a transfer credits once, what was credited stays on the chain, no
  payment is left below the cursor. Model: `PaymentScan`.

### Other components with protocols of their own

| Component | State and operations | What is hard, and what should hold |
|---|---|---|
| Channel queue (`server/channel-queue.ts`) | follow-ups of a room on the same durable rows | as the composer queue, with several responders per message |
| Computer claims (`server/turn-resources.ts` and neighbours) | leases of VMs, lazy claims, a person's hold | claims taken on a stale view; release exactly once |
| Credits of model calls (`server/nation-credits.ts`, `spend.ts`) | calls in flight, charges, reconciliation | a crash inside a call blocks its account; calls of one account overlap at a positive balance |
| Backup and restore (`server/workspace-backup.ts`) | a journal of phases | a crash between two renames; restore completes or rolls back |
| Browser clean-up (`server/browser-lifecycle-cleanup.ts`) | a durable two-phase wipe | retries after a crash; never wipes a profile in use |
| Data directory lease (`electron/data-dir-lease.mjs`) | lock file with boot ids and a delegated child | the scheme of `JournalLock` with one more party |
| Delta context, group goals, live updates | what a session has received; rounds; replay buffer | a rewind or a gap resends, never skips |

The remaining components are wrappers, renderers, clients and single-step registries; each is listed in
`PROJECT.json` with its reason. Beside the hazards that properties cover, `PROJECT.json` lists those of the
modelled components that no property covers and the sharpest ones of the components planned next; a note
says of each why it is open.

## Modules

Variables are named after the code's state, actions after its handlers. Each action is a stretch of code
between two awaits, with every call it makes that changes state.

| Module | What it is |
|---|---|
| `SteerQueue` | The composer queue, the turn life cycle around it, its routes and its boot recovery |
| `SendOutbox` | Abstract specification: what the queue promises the person who sends |
| `RoomHandoffs` | The tree of handoff requests, its tick, and the turns, stops and deletions it meets |
| `JournalLock` | The lock file of the two Box journals, one file system call per step |
| `JournalStore` | Abstract specification: a journal to which operations are applied one after the other |
| `CloudBoxes` | The cloud computer of a bot over both journals, against a provider that loses answers |
| `Delegations` | Handoffs between the threads of two bots: drains, cards, parking, expiry, receipts, wakes, reload |
| `TurnGuard` | A thread's turns from claim to settlement, against an engine that answers late, early or never |
| `Routines` | The scheduler's ticks, runs and files, webhook deliveries, confirmation cards and the runs' turns |
| `PaymentScan` | Payment requests, the scan of the chain and pasted hashes |
| `MCSteerQueue`, `MCRoomHandoffs`, `MCJournalLock`, `MCCloudBoxes`, `MCDelegations`, `MCRoutines`, `MCPaymentScan` | Instances for TLC |
| `SteerQueueProofs`, `JournalLockProofs`, `CloudBoxesProofs`, `PaymentScanProofs`, `RoomHandoffsProofs`, `TurnGuardProofs`, `DelegationsProofs`, `RoutinesProofs` | Theorems and their proofs |

**SteerQueue.** `queue` and `ahead` are the `queues` map and its insertion order; `status` is the
`chat_followups` row of a message and `rows` the order of the rows, `text` the user lines of each transcript, `steer` the held queues whose
adapter call is in flight, `turn` the phase of each thread (`early` is a completion that came before the
dispatch was acknowledged). `Post`, `PostTaken` and `PostAnswered` are the send route up to, during and after
a direct steer; `Cancel`, `HoldAndAsk`, `HoldRefused`, `HeldTaken` and `HeldAnswered` are the queue's routes;
`CallAdapter`, `DispatchAcked`, `TurnCompleted` and `SetupEnds` are the life of a turn; `WorkHandedOut` and
`WorkReturned` park a thread; `Crash`, `CrashInDrain` and `CrashInSteer` end the process between any two
durable writes, and `Recover`, `Restore` and `Listen` are the boot. Every event that frees something performs
the drain of the code as part of its own step (`Drained`), in map order and with the capacity rule, and any
of the started turns may be refused.

**RoomHandoffs.** `nodes`, `parent`, `root`, `status`, `reported`, `executions` and the two times are the
saved file; `shown` counts result rows, `executing` the hooks that have not returned, `acc` and `since` the
pauses of each root. `Enqueue` and `EnqueueFirst` are the tool calls, `StopThread` and `CancelPlace` the stop
routes, `Revoke` and `Reinstate` deletions and lost or restored routes. The tick is `TickBegins`, `Sweep`, and
then for each node in turn `Report`, `ReportSaved`, `Resume`, `DropOrphan`, `OverBudget`, `Start`,
`StartUnsaved` or `Pass`. The tick never awaits: while its cursor is out, only the follow-up turns that its
publications release and a `Crash` come between its steps. `Advance` moves the clock.

**JournalLock.** A run of the program goes through `Link`, `Read`, `Elect`, `Confirm`, `Reap`, `Retry`, `Load`,
`Save`, `Release` and `Unlock`, each one system call, and may die before any of them. The reaper files of a
lock are its election chain (`reaper`); a pid may be shared by a dead and a living run. Failing calls are
`ReapFails`, `GiveUp`, `LeaveAlone` and `UnlockFails`.

**CloudBoxes.** `box`, `label`, `made`, `oper` and `old` are the provider's truth, `create` and `del` the two
journals, `act` the request in flight of the two activities, `handed` and `asked` what the person got and
asked to delete. A request is served in one step (`Serve…`) and its answer handled in another (`Handle…`), so
that answers are lost or late, Boxes change meanwhile, and the server can stop in between. Each operation on
a journal is whole here; `JournalLock` shows why it may be.

**Delegations.** `Queue` is the tool call; a drain is `DrainBegins`, then for each handoff `Looks` with one of its
outcomes (`Skip`, `Ignore`, `Drop`, `Expire`, `Ask`, `Deny`, `Grant`, `Refuse`, `Park`, `Dispatch`), `Acknowledge`
after the await, and `DrainEnds`, which begins anew when a drain was asked for meanwhile. Events of turns
(`Completed`, `Stalls`, `SetupFails`) and deletions leave *jobs*, the synchronous rest of the event in the order of
the code (`Retry`, `Release`, `Wake`, `WakeParked`), which run before anything else. `Sweep` is the hourly expiry,
`Crash` the reload. The history variables record starts, tellings and replies.

**TurnGuard.** `Start`, `Dispatch`, `Acknowledged`, `Completed` and `Settlement` are a turn's life; `Stop` and
`Stall` retire it. `watch` is the watchdog's entry: `on` while events are heard, `silent` once nothing was heard for
`stallMs` (`Silence`), `waiting` on a person. `Activity` is any event but a card or a completion: heard, it restarts
the clock (`TurnWatchdog.touch`); unheard, it retires its turn, like the late halves of the other actions. `CardOpens`
and `CardResolved` set and clear the one flag of the wait, for each of several `Cards`. `Evicted` is the bound on tombstones and `Expire` the end of the quarantine. `forgotten` and
`outlived` record the two ways in which the bounds of the code lose a turn.

**Routines.** `mem` and `disk` are the scheduler's memory and file, and every write of the code is a choice: it
succeeds, throws with memory changed (`Unsaved`), or is rolled back (`RolledBack`). A tick is `TimesOut` (which
awaits), `CatchesUp`, `Dispatches` (which awaits when it starts a turn) and `TickEnds`; requests and events come
when it awaits (`Free`). After a rollback the timeout loop goes on over the detached runs, `tick.stale`. `turn` is
the engine's side of each run: `Asks`, `Answers`, `Delegates`, `Returns`, `Completes`, `Breaks`, `Stops`.
`Confirms` and `Receives` cross two files each; `Restarts` keeps what was written.

**PaymentScan.** A pass is `BeginPass` (reads the open requests), `HeadRead`, and for each chunk `LogsRead`,
`Process` for each transfer and `ChunkDone`, which saves the cursor. `Ask` and `Insert` are the two halves of a
request's route, `Paste` and `Verified` those of a pasted hash; `Block` and `Reorg` are the chain.

**Composition.** `SteerQueue` composes the queue with the turn life cycle and the durable rows;
`RoomHandoffs` composes the handoffs with people's turns; `CloudBoxes` composes the box, both journals and the
provider; `Delegations` composes the queue with two bots' turns, approval cards and wakes; `Routines` composes the
scheduler with webhooks, cards and engines; `TurnGuard` is the turn that the others take for granted, in the
detail of its engine's answers. What one module takes from another is nondeterminism: a room turn holds the bot (`group`),
delegated work comes and goes (`coord`), journal operations are atomic, another turn of the bot (`guest`) holds a
slot.

**Abstract specifications.** `SteerQueue` implements `SendOutbox` under the mapping `SendState` when no engine
can be steered: a send is said once, withdrawn, or gone with its thread, and what a transcript shows is never
reordered. With live steering the code does not implement it (see the findings), so that the refinement is
checked where it holds. `JournalLock` implements `JournalStore` with the journal file as the store.

## Runs

| Run | Question | Answer |
|---|---|---|
| `steer_crash` | Without live steering, through retries, capacity waits, deletions and a crash between any two writes: is a send said and handed over at most once, does a cancelled one stay so, is the outbox implemented? | yes: `SaidOnce`, `ImplementsOutbox` |
| `steer_live_steer` | With direct and held steers and a crash: is any row orphaned, any runnable queue stranded, the limit exceeded, an acknowledged send lost, an order changed, and does each word settle? | no; yes: `WordsAreKept`, `CapacityWellUsed`, `EveryWordSettles` |
| `steer_replay` | Does a restart restore only what was never begun? | no (see the finding) |
| `handoffs_tree` | In threads and a room, with stops, deletions, revoked routes and a crash: do turns overlap, outcomes change, results repeat or come after the resume, stopped senders start work? | no: `TurnsNeverOverlap`, `SettledForGood`, `ReportedOnce`, `ResumedWithEveryResult` |
| `handoffs_clock` | Against a running clock: do the hard cap and the minimum runway hold together, and does each request settle and get reported? | yes: `TimeIsKept`, `EverythingSettles` |
| `journal_lock` | With deaths, reused pids and failing calls: is the lock exclusive, never taken from the living, retired after the dead, and the journal serial? | yes: `MutualExclusion`, `HolderKeepsLock`, `DeadLockRetired`, `ImplementsStore` |
| `boxes` | With lost answers, a lagging listing, stuck deletions and a crash: two billable computers, an orphan, a computer deleted that was handed over, a fence that falls early? | never: `OneBillable`, `NoOrphan`, `HandedKeptUnlessAsked`, `FenceUntilGone` |
| `delegations_crash` | With cards, slow turns, a deleted thread, expiry and a crash at any point: does a handoff vanish, start twice or without authority, change its outcome; is a release or a wake missed? | no: `DeliveredOnce`, `RulesAreKept`, `NothingSleepsInVain` |
| `delegations_live` | With refused turns, revoked access and a target that changes its thread: do handoffs move and report? | yes: `HandoffsMove`, and again `RulesAreKept` |
| `turn_guard` | With stops and stalls at any point: can an old turn settle a newer one, or a turn that ends or falls silent hold its thread for ever? | the first only through the two bounds of the code, the second only through the lost answer to a card or the hanging handshake of an early completion: `TurnsAreIsolated`, `EveryTurnEnds` |
| `payments` | With failing scans, crashes, pasted hashes and replaced blocks: is a payment credited twice, withdrawn from under a credit, or left behind? | no, but for requests that come in the middle of a scan: `CreditsAreSound`, `PaymentsAreFound` |
| `routines` | With failed writes, edits, cancellations, repeated cards and deliveries and a restart: is anything carried out twice, do runs lie, does a late event revive a run, does a run never end? | no: `NothingTwice`, `RunsAreTrue`, `RepeatsAndLateEventsAreIgnored`, `EveryRunEnds` |

Most properties are conjunctions of named parts; the parts, with the lines they are about, stand above them in
the modules. For instance `WordsAreKept` says that each pending row waits in exactly one place, that no
acknowledged send is lost, that only a requeued row is handed over twice and that queues keep their order.

`TypeOK` of each module is checked by one run. In `CloudBoxes` it also states what the journals demand of
their own files when they load them: a record that broke it would make every later operation fail.

Deadlock is not checked where the bounds end a behaviour (`CHECK_DEADLOCK FALSE`): the programs are servers
that wait for requests, and what must go on is stated as liveness or as `NothingStranded`.

## Bounds

- *SteerQueue*: two threads of one bot, one of which can be steered and parks, two sends to it and one to the
  other, two requests to steer a held queue (one in `steer_crash` and `steer_replay`), a limit of one thread, three messages, one crash. The thread limit
  makes the threads compete, two sends give a queue an order, the spare message lets a retry make a second
  row. Two requests are what lets two holds of one
  thread overlap. `steer_crash` has no steerable engine.
- *RoomHandoffs*: `handoffs_tree` has a person's thread, a teammate's thread and two seats of a room, three
  nodes (a sender with two requests, or a chain of depth two), one crash, one revoked route and one turn of a
  person; the clock stands still. `handoffs_clock` has two threads, two executions and four units of time, with
  a lifetime of one, a queue window of two and a hard cap of three, so that each bound is the smallest
  somewhere.
- *JournalLock*: four runs, the first and the last with the same pid, one operation each, two generations of
  reapers, one failing call. Two elections of one lock need four runs; the generation limit of the code (128)
  is a constant of the proof.
- *CloudBoxes*: two Boxes and two keys, so that a repeated create shows, three calls, one inventory beside
  them, two lost answers, one crash, two operations per deletion. Boxes and keys are symmetric in the
  specification and in its safety properties, so TLC may permute them.

- *Delegations*: one sending bot with one thread, two handoffs to another bot that has one slot, one wake in the
  budget's window, one crash. Two handoffs make a target busy for the second, meet in one drain and in one
  thread; one wake is enough to spend the budget. In both runs only the target's turns are slow or stall, and one of the two
  handoffs may outlive its day, the one to the active thread in `delegations_crash`, the fresh one in
  `delegations_live`.
- *TurnGuard*: two turns of one thread, one tombstone kept, two cards a turn, one stop a turn. A second turn is
  what an old one can disturb, one tombstone is evicted by the second retirement, and the second card is the one
  that the answer to the first uncovers.
- *Routines*: one routine (an interval that queues, a daily one that skips, a single one that skips), two runs
  ever, three minutes, a history cap of one, two slots, one card or one delivery, one disturbance (an edit, a
  cancellation, a deletion, another turn or a failed write) and one restart. The second run is what overlaps,
  repeats or evicts the first; the third minute comes after a time limit and a missed occurrence.
- *PaymentScan*: two requests, three transfers (one request is paid twice), one pasted hash, four blocks of which the newest
  may be replaced, chunks of two blocks and one chunk a pass, so that a range takes two passes; one scan that
  fails or one crash.

The bounds are constants of the specifications, and the theorems hold for all their values.

## Fairness

`SteerQueue` (`FairSpec`): an adapter answers or times out (`PostAnswered`, `HeldAnswered`, `CallAdapter`,
`DispatchAcked`), the watchdog settles a quiet turn (`TurnCompleted`, `GroupTurnEnds`), delegated work returns
or expires (`WorkReturned`), a boot goes on (`Recover`, `Restore`, `Listen`). Each is a promise continuation or
a timer of the event loop. Nobody is obliged to send, cancel, steer, delete or crash.

`RoomHandoffs` (`FairSpec`): the interval timer begins ticks and a begun tick goes on (weak fairness). A hook
returns, a person's turn settles and time passes between ticks; a tick that begins again and again disables
them for a moment, so these three have strong fairness. A hook always returns because the turn it waits for
is settled by the engine or the watchdog.

`JournalLock` (`FairSpec`): a run that lives makes its next call; the calls are synchronous, so nothing can
stand between them but death.

`Delegations` (`FairSpec`): the event loop runs what it has to do, an engine acknowledges a turn or its setup fails, a
turn completes or is declared stalled and then released, and a card is answered (its timer answers for the
person). The hourly expiry need not come: a handoff must move without it. People need not start turns, change
threads or delete them.

`TurnGuard` (`FairSpec`): the background part of a start and the end of a settlement run, the timers of the
watchdog, of a release and of the quarantine fire, and a card that is shown is answered or times out. The engine
need not acknowledge, complete or say anything at all. What it may not do is talk for ever: `EnginesFallSilent`
assumes that a turn which never completes is silent for `stallMs` in the end and does not resume before the sweep.
The code does not enforce this. It promises the contrary to engines (`turn-watchdog.ts:8`: "a turn may legitimately
run for an hour while events keep flowing", and its test: "activity keeps a turn alive indefinitely"), so without the
assumption `EveryTurnEnds` is false, and TLC shows the turn that chatters. The property speaks of `ThreadBusy`
(`index.ts:1228`), the flag or the claim, and exempts by name what is left: `WaitsForNobody` and `HandshakeHangs`.

`PaymentScan` (`FairSpec`): weak fairness of the scan's next step: the timer begins passes, and a call to the chain
answers or fails. A scan fails finitely often only because the bound on failures is finite.

`Routines` (`FairSpec`): weak fairness of the ten-second tick, and of time, other turns and people who answer. Strong
fairness of the ends of turns: an engine may ask or delegate again and again, which disables its end each time,
but not for ever.

`CloudBoxes` has safety properties only and assumes no fairness.

## Proofs

TLAPS proves the following for every value of the constants. Each module assumes only its own
`ConstantsAssumption` or `BoundsAssumption` (bounds are natural numbers, "no Box" is not a Box, and so on), which TLC evaluates in
the runs of that module.

| Module | Theorem | Statement |
|---|---|---|
| `SteerQueueProofs` | `TypeCorrect`, `WordsKept`, `SlotsWellUsed` | `TypeOK`, `WordsAreKept` and `CapacityWellUsed` are invariants |
| `SteerQueueProofs` | `WordsSaidOnce`, `OutboxImplemented` | with `Steerable = {}`: `SaidOnce` is an invariant, and `Spec => ImplementsOutbox`, the refinement of `SendOutbox` |
| `JournalLockProofs` | `TypeCorrect`, `Exclusion`, `LockIsKept` | `TypeOK`, `MutualExclusion`, `HolderKeepsLock` are invariants |
| `JournalLockProofs` | `Serial` | `Spec => ImplementsStore`: the refinement of `JournalStore` |
| `CloudBoxesProofs` | `TypeCorrect`, `AtMostOneBillable`, `NothingOrphaned`, `HandedIsKept` | `TypeOK`, `OneBillable`, `NoOrphan`, `HandedKeptUnlessAsked` are invariants |
| `CloudBoxesProofs` | `FencesHold` | `Spec => FenceUntilGone` |
| `PaymentScanProofs` | `TypeCorrect`, `CreditsSound` | `TypeOK` and `CreditsAreSound` are invariants |
| `RoomHandoffsProofs` | `TypeCorrect`, `NoOverlap`, `ShownOnce` | `TypeOK`, `TurnsNeverOverlap`, `ReportedOnce` are invariants |
| `RoomHandoffsProofs` | `SettledStays`, `ResumedComplete`, `TimeKept` | `Spec => SettledForGood`, `Spec => ResumedWithEveryResult` and `Spec => TimeIsKept`: the hard cap and the minimum runway |
| `TurnGuardProofs` | `TypeCorrect`, `TurnsIsolated` | `Spec => []TypeOK` and `Spec => TurnsAreIsolated` |
| `DelegationsProofs` | `TypeCorrect`, `HandoffsDelivered`, `NothingSleeps` | `TypeOK`, `DeliveredOnce`, `NothingSleepsInVain` are invariants |
| `DelegationsProofs` | `RulesKept` | `Spec => RulesAreKept` |
| `RoutinesProofs` | `RoutinesTyped`, `NothingDoneTwice`, `RunsSayTheTruth` | `TypeOK`, `NothingTwice`, `RunsAreTrue` are invariants |
| `RoutinesProofs` | `RepeatsIgnored` | `Spec => RepeatsAndLateEventsAreIgnored` |

**SteerQueue.** `TypeOK` is inductive by itself. `WordsAreKept` is not: that a row waits somewhere says nothing of
where it came from or of what its turn will do with it. The invariant `IInv` adds that words wait and run in the
thread they were sent to (`Homed`), in one place (`Once`); that what waits for a live thread has a pending row
and, while the server is up, nothing else has (`Backed`); that rows are never repeated (`RowsFit`); that a held
queue is older than all that came meanwhile (`Ordered`), and during a boot what is back is older than what is not
(`Booting`); that what left the line is on the transcript (`LinesFit`); and that words that wait, or that a turn
is about to hand over, were handed over before only if they went back in line (`HandedFits`). A drain is a
function of the values its caller leaves, so the invariant is a formula `Fits` about values, and one lemma serves
all callers: a drain that follows values that fit leaves values that fit (`DrainFits`, `Carry`). The rest of the
induction moves words: into a queue (`EnqueueFits`), a turn (`StartNowFits`), a steer and back (`FoldedFits`,
`PutBackFits`), off a queue (`OffLine`), to an engine (`HandOver`), and through the three crashes, which forget
everything but the rows (`WipedFits`, `CutFits`). TLC checked the invariant on the instance of `steer_live_steer`
first.

`CapacityWellUsed` needs one fact more: the order in which waiting threads are served is a strict total order of
the threads that wait (`Line`), although it is kept as a set of pairs that queues enter, leave and re-enter. A drain
then starts a prefix of that line: the last one that fires has all others that fire before it, and still fits the
limit (`MostEarlier`); the first one that could start and did not has exactly those before it that fired, and finds the
limit reached (`FewestEarlier`, `EarlierGrows`). A deletion drains before the deleted thread's slot is
known to be free; nothing but that thread can fire in it, because anything else that could was startable before
(`NobodyElseFires`).

`SaidOnce` and the refinement hold where no engine is steered (`Steerable = {}`, a hypothesis of both theorems):
with steering the code breaks them, see the finding of `steer_replay`. `PlainFits` adds that each send has one instance, what is on a
transcript is there once and in its thread, and what is free, pending or cancelled is on none and was never
handed over. All steps but four kinds are then the same step, `Adds`: words that wait, or that a crash
interrupted, go behind what their transcripts show (`PlainMoves`; `AddsCut` covers the drain that a crash cuts in
the middle, `AddsRecover` the repair after it). The others are a new send (`Sent`), a cancellation (`Withdrawn`) and a deletion
(`Dropped`). Each of the four preserves `PlainFits`, and each is one step of the outbox: `Say`, `Accept` or `Say`,
`Withdraw`, `DropThread`; for the first, what a concatenation shows is a concatenation of what its parts show
(`SayingsGrow`).

**JournalLock.** Exclusion alone is not inductive: a reaper that is late could unlink the lock of a later
owner. The invariant `IInv` carries the authority of reapers. A lock that somebody stands to reap was read from
a dead owner (`SeenIsDead`), and the dead stay dead. A reaper of generation *n* has seen that all earlier ones
of the same lock are dead (`EarlierReapersDead`) and is recorded as elected when it goes on (`ReaperElected`);
two elected reapers alive at once would each make the other dead, so there is one (`OneReaper`). That one
reaps only the lock it saw, because only it could have removed that lock (`ReapsWhatItSaw`). Hence nobody
removes the lock of a holder (`NoHolderWhileReaping`), and two holders would have the same token in one file.
`Serial` adds that a holder works on the journal as it is (`ViewIsFile`) and has not applied its operation yet
(`TokenIsNew`), so that a save is one step of the store.

**CloudBoxes.** `OneBillable` is not inductive: what keeps a second create from making a second Box is a
relation between the journal, the provider's memory of keys and the request in flight. The core of the
invariant is `CreateSound`: every Box that still exists is the one that the key in the create journal made. It
holds when a create is served because a call at that place uses the pending key, which the provider has not
forgotten, and the record has no Box yet (`CreatePending`); it holds when a record is dropped because an answer
of absence, or the end of a deletion, stays true while the answer travels (`AbsenceIsFinal`), and because a
refusal comes only for a key that made nothing. `FenceSound` ties a fence to its Box and to the person's wish,
with `CleansOwn` (a call cleans up only what it made itself and has not handed over) and `DeleteAsked` for the
requests in flight. The inventory runs beside all of it: `CallUndisturbed` shows that it changes the record
under a call only by retiring it, `ListUndisturbed` the converse, and `StepFits` puts the two together, so that
each action is proved for the activity that moves. The same induction yields `FencesFall` for each step, which
is `FenceUntilGone`. The stronger invariants were checked by TLC on the instance of `boxes` before the proof.

**PaymentScan.** `CreditsAreSound` says nothing of a scan on its way, so it is not inductive. The invariant adds
three things. A transfer is sent for a request that had been made before (`MinedAfterAsked`), and a ledger row
is of a transfer below every reorganisation (`RowsAreDeep`). A scan looks for every request it may not leave
behind, and all below the start of its range is settled (`PassLooks`): below the cursor by the invariant
itself, below the oldest fresh request because no transfer for it can be that old (`BeginPassSound`, with
`MinOfBlocks`). And what the chunk covers is still to be looked at or settled (`ChunkIsKnown`), which a
reorganisation cannot change because the range is deep (`RangeIsDeep`); so the cursor may move over the chunk
when nothing is left in it (`ChunkDoneSound`). TLC checked this invariant on the instance of `payments` first.

**RoomHandoffs.** `ResumedWithEveryResult` looks at the step that starts a node, but the children were looked at
when it became ready, and requests come in between. So the invariant says what a ready node may have below it
(`ReadyFits`: nothing under a queued node, only settled and reported results under a resumed one), which a new
request keeps because the turn that makes it is running (`RunsFit`) or is a person's and names its own source
(`SourcesFit`), and because ids are never used again (`IdsFit`), also when retention evicts nodes. `NoOverlap`
rests on the question that precedes each start, which must be symmetric (`ClashIsMutual`); `CapHolds` on the
remaining lifetime that a request must find (`AcceptedInTime`) and on pauses that never begin in the future
(`SinceFits`). Seven kinds of step do no more than settle requests, however far a cancellation reaches: they
share `SettlingSound`, so that for all this nothing is proved about the recursion that computes the reach.
`TimeKept` does need it. The second invariant, `TimeInv`, says that requests are made after the request they serve
and in its tree (`Below`, `RootsFit`), and that the lifetime and the cap of a tree, with the pauses counted so far,
leave every unsettled request a runway (`WindowsFit`); pauses of an open tree never shrink (`PausesKept`), and a
request is accepted only with that much time left (`AcceptedInTime`). When a sweep fails a request whose lifetime is
over, everything accepted in the tree has therefore had its runway; a request that still waits for its first start
has nothing below it (`ReadyFits`); and a run that the cascade reaches and that had not had its runway would have
protected the request above it. The last step goes along the recursive functions that compute the cascade and the
protection: `SearchExists` shows, by a least counterexample, that a recursion which asks about lower ranks only is
satisfied by some function, hence by the chosen one, and `SweptUpwards` and `ProtectsSender` are its two uses. The
proof corrected the property: it now exempts a crash in the middle of a sweep, which fails whatever it interrupts,
and which the run did not reach (`handoffs_clock` has no crash). TLC checked `IInv` on both instances, and `TimeInv` with
`RunwayHonoured` on that of `handoffs_tree` and on a larger clock with a crash, before the proofs.

**TurnGuard.** The properties hold until a completion slips through one of the two bounds, so the invariant has
two halves: `Always`, and `Intact`, which holds or `Slipped` does. The heart of `Always` is `LooseAreMute`: a
turn that is alive at the engine but neither claimed nor bound has a tombstone, is in quarantine, or was excused
by a bound. A cancelled claim goes into quarantine in the same step (`CancelledClaimIsHeld`), and a turn that
loses its binding is retired in the same step (`DropBoundFits`). The heart of `Intact` is `HeldHolds`: a turn
that is bound, or alive and never stopped, is the turn of the conversation, and then nothing is in quarantine.
Together they say that a completion that is heard is of the current turn (`HeardIsCurrent`), whose settlement
then frees nobody else (`OwnSettling`). `EarlyIsKept` is what lets an acknowledgement find the outcome that came
before it. A push into a bounded registry keeps each turn once and drops at most the oldest, by name
(`PushFits`), so that `forgotten` misses none. TLC checked the invariant for two turns exhaustively, and for
three in part, before the proof.

**Delegations.** None of the properties is inductive, because each speaks of the loop at rest or of a single step,
and what makes it true is the work the loop still has. The invariant `IInv` says what that work is. `Carried` ties
each drain to the one job that carries it on: whether a thread is drained, what its drain awaits and which job is
pending determine each other, so that no drain is carried twice or by nobody. `Homed` says that a handoff is
queued, parked and drained in the thread it comes from. `ParkedFits` is what keeps a release from being missed: a
parked handoff whose target could take it is still to be examined by its drain, or its drain is pending or asked for
again, or its bot has a retry or a release pending. It holds because a turn can only fall back in a step that leaves
a retry for its bot (`TurnsRise`), and while turns only rise a target that can take a handoff could before
(`Holding`, by counting the bot's threads); a step that takes one job off the loop forgets no other (`RunsOne`,
`DrainJobs`, `HandleJobs`), and a release leaves parked only what the bot cannot take (`ReleaseEdits`). `WakesFit` says
the same of wakes. `OnceFits` says that a queued handoff that was started or settled is the one that its drain is
about to acknowledge, hence whoever takes up, sweeps or drops a handoff takes one that is open (`QueuedIsOpen`); a
crash between the two is exempted by name (`torn`). `AnswersFit` says that what is being acknowledged has an answer or
a turn that will give it. The order in which a sweep, a release or a restart visits what it finds is any order
(`OrderVisitsAll`), and what is left of a queue is computed by a recursive function, about which `WithoutFacts` is
proved by a least counterexample. TLC checked the invariant exhaustively on a small instance (two bots, three
threads, two handoffs, a crash) before the proof.

**Routines.** The invariant `IInv` says of memory and file alike what a snapshot of the scheduler must be
(`Sound`), because a restart takes up the file as it is. A routine falls due next after all its runs
(`DueBefore`); its runs stand for different occurrences and the queued one for the newest (`DueApart`); hence a run
that is queued, or moved to the newest check that is due, takes no occurrence again. The dispatch moves a run at the
tick's time, not at the present one, so `TickFits` says that the clock may have gone on but no next occurrence is
before the tick's time: `CatchesUp` has moved them all (`MovedFits`), and what people turn on meanwhile starts
after the present (`SoundTurned`). A run that was started is nowhere queued, in memory or in the file
(`NotAgain`): that is why a restart starts nothing twice. Memory and file differ in runs and routines only, and what
the file calls ended has ended in memory (`Kept`), so a write never brings it back. A card's receipt or its answer
stands for its being carried out (`CardsFit`), and a delivery is remembered as it was accepted last or lies outside
the window (`DeliveriesFit`). `Truth` holds while no write has failed: then memory is the file, no tick walks
detached runs, and each run fits its turn and its announcements (`TrueOf`). The batch that a tick queues takes the
next ids in the order of the routines, one each (`RanksAreApart`, `BatchFits`). An action edits a snapshot and then
saves it, fails to, or puts it back; what a write leaves behind is proved once for every edit (`WriteFits`,
`MovesFit`, `EndsFits`, `QuietFits`), and the history cap drops only what has ended (`PruneDrops`, `PruneCaps`). The
proof made one property stronger than the runs had stated it: `OccurrenceOnce` no longer exempts runs that were
cancelled. It also uses that no series is over before it starts (`Every <= EndsAt`), which `create` refuses
(`routines.ts:993`). TLC checked the invariant on the instance of `routines` before the proof.

**Only model-checked.** Liveness (`EveryWordSettles`, `EverythingSettles`, `DeadLockRetired`, `HandoffsMove`,
`EveryTurnEnds`, `EveryRunEnds`, `PaymentsAreFound`): the proof system
has no rules for fairness and ENABLED. What recursive definitions
compute for every input (the order in which a drain visits threads) stays with TLC where no least counterexample
over a finite domain will do, as induction over data is beyond the installed provers.

## Where the code disagrees

`steer_replay` (`server/steer-queue.ts:265`) ends with a counterexample: while the adapter takes held words their rows
stay pending, so a crash in that window restores and runs them again, against `steer-queue.ts:10` and
`docs/verification/chat-turns.md:127`.

Seen while modelling. The models take these steps, and the properties say by name what they exempt:

- *Composer queue.* A held queue that the engine accepted, but whose turn settles before the route continues, is
  restored and drained, so its words run twice (`index.ts:17220`, against line 17160); a retry of a held send is
  queued a second time (`index.ts:17026`); overlapping holds can come back in the wrong order
  (`steer-queue.ts:275`; the model records such threads in `crossed`, and `QueuesInOrder` exempts them).
- *Handoffs.* Retention looks at the status of the root only and drops a stopped tree whose teammates still work
  (`room-handoffs.ts:211`, against line 209), and a request enqueued under such a root makes the file unloadable
  (line 55); the abort of one tree's node cancels other trees' requests in the same thread (`index.ts:3300`,
  against line 1278); a sender can be failed for its time although all its results are back
  (`room-handoffs.ts:305`).
- *Cloud computers.* A stop between the naming of a new Box and the journal's resolve leaves a create that no
  later setup resolves (`box.ts:1247`); when naming, reading and deleting all fail, the fence has a name the Box
  does not have, and each retry stops there (`box.ts:1274`); a 4xx answer to a retried create discards a key
  that may have made a Box (`box.ts:1166`).
- *Delegations.* A fresh handoff started into a thread where another handoff's turn runs overwrites its watch
  (`index.ts:6335`, against line 6168); a drain for a parked sibling also starts fresh handoffs of a turn that
  still runs; a later failing turn discards earlier turns' parked handoffs; `targetCanTakeTurn` does not see the
  claim of a turn that completed early; a stalled sender whose engine never answers leaves its fresh handoffs
  undrained; a crash loses the watch and the pending wakes; a wake is dropped when the budget is spent.
- *Turn guard.* One flag pauses the watchdog for all cards of a turn (`turn-watchdog.ts:73`): the answer to the
  first restarts the clock under the second, and after `stallMs` without another event the sweep stops the turn,
  against line 9 and `turn-watchdog.test.ts:47`. It takes a stall limit below the fifteen minutes after which the
  engines' cards time out (`OMB_TURN_STALL_MS` allows one minute, the default is twenty); the room's own deadline
  counts the open requests (`room-turn-timeout.ts:43`). A turn that completes before its dispatch is acknowledged keeps its claim, and so its thread, as
  long as the handshake hangs, and nothing watches it any more (`index.ts:1229`, 4219); a card that is open when Stop
  meets the handshake loses its answer, and a turn that hangs then holds its thread for good; a handshake
  that outlives its thirty seconds, and a tombstone beyond the bound, are nobody's; the completion of a
  stalled turn that was bound is always ignored, against `index.ts:4163`.
- *Routines.* A save that throws at `routines.ts:1545` leaves a run at work that has no turn, and the routine's
  later runs wait for it; one that throws at line 1329 or 1401 leaves the engine's turn uninterrupted; the
  timeout loop (line 1391) goes on over runs that a rollback (line 1869) has detached, which can announce a
  failure falsely or twice, while the comment at line 1469 guards the dispatch loop only; a throwing
  `createTask` (line 1535) ends the tick; ticks asked for during a tick are dropped; a webhook that posts may
  post twice after a crash (`webhooks.ts:496`); a save that fails in the constructor's recovery stops the start.
- *Payments.* A request made and paid while a scan is between its query and the chain's head is passed over by
  the saved cursor (`nation-payments.ts:113`), against line 164; only a pasted hash credits it then.

## What is not modelled

**SteerQueue.** Prompts, attachments, the wording of notices, owner switches, changes of the thread limit and
the continuation after the choice of a computer; the digest and the screenshot before a completed thread is idle. A crash kills the process; what SQLite has committed is kept. A client
does not retry a send by itself after it got its words back (409). The start of a turn is refused or not, for
whatever reason; the microtask that settles a turn is merged with its completion. A crash inside the drain
that follows a restored hold is not a step of its own.

**RoomHandoffs.** Request keys and their deduplication, approval grants, the resolution of a teammate to a
thread; the capacity of a bot is part of its being busy; a room has one conversation. An abort does not tell
failed from cancelled siblings. Memory and disk are one, except for the save of a start, which can fail.

**JournalLock.** The content of journals, which is abstracted to the set of operations applied.

**Delegations.** Rooms as sources, routines' runs, questions that time out into handoffs, engines outside the
server, a bot's deletion, standing grants, saves that fail, the pruning of receipts, the order of threads in a
drain, room turns that block admission, the timer of a card.

**TurnGuard.** `session.exited`, room turns, compaction, approvals given without a person. Time is abstracted to
`silent`, so that a stall can come before a card has timed out, as a short `OMB_TURN_STALL_MS` makes it.

**Routines.** Room goals, weekdays, clock windows and cron, results threads and continuity, the notice of a
long deferral, `markSeen`, cards that create, change or delete a routine or are denied, the settings, pauses,
verification and rate limit of webhooks and the trimming of their deliveries, a crash between the save of a
failure and its announcement.

**PaymentScan.** One token on one chain (each token has its own cursor and requests); hashes that carry another
amount; two $NATION requests whose token amounts coincide after a change of the price; the transfers that the
scan sets aside for good.

**CloudBoxes.** One bot and one server. The provider answers a create with a refusal only if the key made
nothing, and a day, after which it forgets a key, does not pass inside a call. A trial account's second body,
the adoption of Boxes with old names, the replacement of credentials, sleep and wake, screenshots and the
shell are left out.

**The rest of the system.** Components with protocols of their own are planned below. Wrappers around docker,
ssh and browsers, renderers of files and arguments, the clients (web, desktop, Android, iOS), the deployment
and the separate cloud services keep no state whose interleavings the server depends on, or are other
programs; calendar arithmetic and text parsing are data that tests cover. `PROJECT.json` has the reason for
each.

## Plan

1. *Done*: `SteerQueue` with `SendOutbox`, `RoomHandoffs`, `JournalLock` with `JournalStore`, `CloudBoxes`,
   `Delegations`, `TurnGuard`, `Routines`, `PaymentScan`, and the theorems above.
2. `ChannelQueue`: the room counterpart of `SteerQueue` on the same rows; the rows' lemmas are shared.
3. `ComputerClaims`: turn resources, leases, lazy claims and the person's hold, composed.
4. `CreditCalls`: model calls in flight, their charges and the reconciliation after a crash.
5. The restore journal, the browser clean-up and the data directory lease, which reuses the invariant of
   `JournalLock`.

Theorems to prove next: the safety properties of the modules of step 2 to 5 as they are written.
