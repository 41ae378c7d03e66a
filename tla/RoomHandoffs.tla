---------------------------- MODULE RoomHandoffs ----------------------------
(***************************************************************************)
(* The tree of addressed teammate requests of server/room-handoffs.ts: a   *)
(* turn hands work to other bots, in rooms or in threads of their own, ends, *)
(* and is resumed when every result has been reported to it.  The hooks    *)
(* server/index.ts gives the tree (busy, validate, report, run, abort) and *)
(* the routes that stop and delete conversations are modelled with it.     *)
(*                                                                         *)
(* A node is the number of its insertion, so the order of the numbers is   *)
(* the iteration order of the nodes map.  tick() runs in one go: while its *)
(* cursor is out, only the follow-up turns that its publications release   *)
(* and a crash can come between its steps.                                 *)
(***************************************************************************)
EXTENDS Integers, Sequences, FiniteSets, FiniteSetsExt

CONSTANTS Addrs,       \* places where a bot takes turns
          BotOf,       \* the bot of a place
          RoomOf,      \* its room, or NoRoom for a thread of the bot
          NoRoom,
          People,      \* places where people start turns
          MaxNodes,    \* bound on requests ever made
          Depth, Requests, Executions,                \* ROOM_HANDOFF_LIMITS
          Lifetime, MinRunway, QueueWindow, HardCap,  \* in units of time
          KeepMax, KeepMin,                           \* retention of nodes
          MaxTime,     \* bound on the clock
          MaxCrashes,  \* bound on server crashes
          MaxRevokes,  \* bound on routes that are revoked
          MaxTurns     \* bound on turns that people start

ASSUME ConstantsAssumption ==
    /\ \A a \in Addrs : a \in DOMAIN BotOf /\ a \in DOMAIN RoomOf
    /\ People \subseteq Addrs /\ Addrs # {}
    /\ {MaxNodes, Depth, Requests, Executions, MaxTime, MaxCrashes, MaxRevokes, MaxTurns} \subseteq Nat
    /\ {Lifetime, MinRunway, QueueWindow, HardCap, KeepMax, KeepMin} \subseteq Nat \ {0}

Ids == 1..MaxNodes
None == 0                     \* no parent, no node
NotPaused == -1
TerminalStatuses == {"completed", "failed", "cancelled"}
Statuses == {"source", "queued", "running", "waiting", "resume"} \cup TerminalStatuses

VARIABLES
    \* durable: room-handoffs.json
    nodes,       \* ids in the file
    next,        \* the next id
    parent, root, addr, status, reported, executions, createdAt, startedAt,
    \* durable: the transcripts and the registry of bots and rooms
    shown,       \* [Ids -> Nat]: result rows of the node in its parent's conversation
    revoked,     \* places whose route is gone (bot, task, membership, grant)
    deleted,     \* of those, conversations that were deleted
    \* memory
    executing,   \* nodes whose hooks.run has not returned
    had,         \* children the node had when it was started
    acc, since,  \* pause accounting of each root
    live,        \* places where a person's turn is running
    capable,     \* of those, the turns whose internal capability is valid
    gen,         \* the node of that turn, or None
    stage, cursor, \* progress of tick()
    \* environment
    now, crashes, turns

tree == <<nodes, next, parent, root, addr, createdAt>>
clock == <<acc, since>>
people == <<live, capable, gen, turns>>
world == <<now, crashes, revoked, deleted>>
ticking == <<stage, cursor>>
vars == <<tree, status, reported, executions, startedAt, shown, executing, had,
          clock, people, ticking, world>>

-----------------------------------------------------------------------------
Terminal(st, n) == st[n] \in TerminalStatuses
Active == {n \in nodes : ~Terminal(status, n)}
Direct(a) == RoomOf[a] = NoRoom
Children(n) == {c \in nodes : parent[c] = n}
HasParent(n) == parent[n] \in nodes

\* A node and the nodes above it.
Path(n) ==
    LET up[m \in 0..MaxNodes] == IF m \notin nodes THEN {} ELSE {m} \cup up[parent[m]]
    IN up[n]

\* Work for another member of the room its parent speaks in.
Assignment(p, a) == ~Direct(a) /\ RoomOf[a] = RoomOf[addr[p]]
IsAssignment(n) == parent[n] # None /\ Assignment(parent[n], addr[n])

\* Turns never overlap in a thread or in a room; a bot that speaks in a room
\* takes no direct turn, and one that is busy anywhere does not speak.
Occupied == live \cup {addr[n] : n \in executing}
Clash(a, b) ==
    \/ a = b
    \/ ~Direct(a) /\ (RoomOf[a] = RoomOf[b] \/ BotOf[a] = BotOf[b])
    \/ ~Direct(b) /\ BotOf[a] = BotOf[b]

\* Mutant: a bot may speak in a room while it is busy elsewhere.
BusyHere(a) == \E b \in Occupied : a = b \/ (~Direct(a) /\ RoomOf[a] = RoomOf[b])

Busy(a) == \E b \in Occupied : Clash(a, b)

\* The route of a node is checked again before every dispatch.
Problem(n) == addr[n] \in revoked \/ (HasParent(n) /\ addr[parent[n]] \in revoked)

-----------------------------------------------------------------------------
(* The lifetime clock. *)

\* trackExecutionPauses: the clock of a tree stops while a node of it runs.
Tracked(st) ==
    LET runs(r) == \E n \in nodes : root[n] = r /\ st[n] = "running"
        open(r) == r \in nodes /\ \E n \in nodes : root[n] = r /\ ~Terminal(st, n)
    IN [acc   |-> [r \in Ids |-> IF ~open(r) THEN 0
                                 ELSE IF since[r] # NotPaused /\ ~runs(r)
                                      THEN acc[r] + now - since[r] ELSE acc[r]],
        since |-> [r \in Ids |-> IF ~runs(r) \/ ~open(r) THEN NotPaused
                                 ELSE IF since[r] = NotPaused THEN now ELSE since[r]]]

TrackPauses(st) == acc' = Tracked(st).acc /\ since' = Tracked(st).since

Paused(r) == acc[r] + (IF since[r] = NotPaused THEN 0 ELSE now - since[r])
Age(r) == Max({0, now - createdAt[r] - Paused(r)})
HardCapped(n) == now >= createdAt[root[n]] + HardCap

Deadline(n) ==
    LET anchor  == IF status[n] = "running" THEN startedAt[n] ELSE createdAt[n]
        ceiling == IF status[n] = "queued" THEN anchor + QueueWindow
                   ELSE createdAt[root[n]] + Lifetime + Paused(root[n])
    IN Min({Max({ceiling, anchor + MinRunway}), createdAt[root[n]] + HardCap})

\* A descendant is running inside its own runway.
ProtectsRunner(n) ==
    LET protects[m \in Ids] ==
          \E c \in Children(m) \cap Active :
              (status[c] = "running" /\ now <= Deadline(c)) \/ protects[c]
    IN protects[n]

\* The execution that decides on the results of the children is still due.
OwesFollowUp(n) ==
    LET owes[m \in Ids] ==
          \/ status[m] = "resume"
          \/ /\ status[m] = "waiting"
             /\ \/ Children(m) # {} /\ Children(m) \cap Active = {}
                \/ \E c \in Children(m) : owes[c] \/ status[c] = "queued"
    IN owes[n]

\* Mutant: running descendants do not hold back the expiry of an ancestor.
ExpiredAnyway(n) == HardCapped(n) \/ (now > Deadline(n) /\ ~OwesFollowUp(n))

\* Mutant: a running node is left to its run.
ExpiredIdle(n) ==
    /\ status[n] # "running"
    /\ HardCapped(n) \/ (now > Deadline(n) /\ ~ProtectsRunner(n) /\ ~OwesFollowUp(n))

Expired(n) ==
    HardCapped(n) \/ (now > Deadline(n) /\ ~ProtectsRunner(n) /\ ~OwesFollowUp(n))

-----------------------------------------------------------------------------
(* Cancellation. *)

\* cancelTree reaches the unsettled nodes below n through unsettled nodes.
Swept(n) ==
    LET under[m \in 0..MaxNodes] ==
          m # None /\ (m = n \/ (m \in Active /\ under[parent[m]]))
    IN {m \in Active : under[m]}

\* Stopping a thread stops the nodes that wait there and drops their queued
\* children; children already at work are left alone.
StoppedAt(places) == {n \in Active : Direct(addr[n]) /\ addr[n] \in places}

Dropped(stopped) == {c \in Active : parent[c] \in stopped /\ status[c] = "queued"}

\* A running node that is cancelled is aborted, and the abort of a direct turn
\* presses Stop in its thread (interruptDirectThread).
Aborted(swept) == {addr[n] : n \in {m \in swept \cap executing : Direct(addr[m])}}

\* The statuses after the nodes of swept are cancelled.
Cancelled(swept, how) ==
    LET stopped == StoppedAt(Aborted(swept)) \ swept
    IN [n \in Ids |-> IF n \in swept THEN how
                      ELSE IF n \in stopped \cup Dropped(stopped) THEN "cancelled"
                      ELSE status[n]]

Cancel(swept, how) ==
    /\ status' = Cancelled(swept, how)
    /\ TrackPauses(status')

-----------------------------------------------------------------------------
Init ==
    /\ nodes = {} /\ next = 1
    /\ parent = [n \in Ids |-> None]
    /\ root = [n \in Ids |-> None]
    /\ addr = [n \in Ids |-> CHOOSE a \in Addrs : TRUE]
    /\ status = [n \in Ids |-> "source"]
    /\ reported = [n \in Ids |-> FALSE]
    /\ executions = [n \in Ids |-> 0]
    /\ createdAt = [n \in Ids |-> 0]
    /\ startedAt = [n \in Ids |-> 0]
    /\ shown = [n \in Ids |-> 0]
    /\ revoked = {} /\ deleted = {}
    /\ executing = {}
    /\ had = [n \in Ids |-> 0]
    /\ acc = [n \in Ids |-> 0]
    /\ since = [n \in Ids |-> NotPaused]
    /\ live = {} /\ capable = {}
    /\ gen = [a \in Addrs |-> None]
    /\ stage = "idle" /\ cursor = 0
    /\ now = 0 /\ crashes = 0 /\ turns = 0

-----------------------------------------------------------------------------
(* Turns of people, and what they hand out. *)

TurnStarts(a) ==
    /\ a \in People /\ ~Busy(a) /\ a \notin revoked /\ turns < MaxTurns
    /\ live' = live \cup {a}
    /\ capable' = capable \cup {a}
    /\ gen' = [gen EXCEPT ![a] = None]
    /\ turns' = turns + 1
    /\ UNCHANGED <<tree, status, reported, executions, startedAt, shown, executing, had,
                   clock, ticking, world>>

\* Mutant: the capability outlives its turn.
TurnSettlesCapable(a) ==
    /\ stage = "idle" /\ a \in live
    /\ live' = live \ {a}
    /\ status' = IF gen[a] \in nodes /\ status[gen[a]] = "source"
                 THEN [status EXCEPT ![gen[a]] = "waiting"] ELSE status
    /\ gen' = [gen EXCEPT ![a] = None]
    /\ UNCHANGED <<tree, reported, executions, startedAt, shown, executing, had,
                   clock, capable, turns, ticking, world>>

\* sourceSettled: whatever its outcome, the turn now waits for its teammates.
TurnSettles(a) ==
    /\ stage = "idle" /\ a \in live
    /\ live' = live \ {a}
    /\ capable' = capable \ {a}
    /\ status' = IF gen[a] \in nodes /\ status[gen[a]] = "source"
                 THEN [status EXCEPT ![gen[a]] = "waiting"] ELSE status
    /\ gen' = [gen EXCEPT ![a] = None]
    /\ UNCHANGED <<tree, reported, executions, startedAt, shown, executing, had,
                   clock, turns, ticking, world>>

\* Requests that would return to an ancestor or that exceed a limit.
Refused(path, p, a, r) ==
    LET kindWork(n) == n \in path /\ ~IsAssignment(n) IN
    \/ \E n \in path : /\ BotOf[addr[n]] = BotOf[a]
                       /\ Direct(addr[n]) \/ Direct(a) \/ RoomOf[addr[n]] = RoomOf[a]
    \/ /\ ~Assignment(p, a)
       /\ \/ ~Direct(a) /\ \E n \in path : RoomOf[addr[n]] = RoomOf[a]
          \/ Cardinality({n \in path : kindWork(n)}) > Depth
    \/ Cardinality({n \in nodes : root[n] = r /\ parent[n] # None}) >= Requests
    \/ Min({Lifetime - Age(r), createdAt[r] + HardCap - now}) < MinRunway

\* Retention: the oldest settled trees go until fewer than KeepMin nodes stay.
\* A tree counts as settled when its root is.
Evicted ==
    LET old == {r \in nodes : parent[r] = None /\ Terminal(status, r)}
        treesOf(rs) == {n \in nodes : root[n] \in rs}
        gone(r) == Cardinality(nodes \ treesOf({q \in old : q < r})) >= KeepMin
    IN IF Cardinality(nodes) >= KeepMax THEN treesOf({r \in old : gone(r)}) ELSE {}

\* A second child is refused when one with the same address has completed,
\* unless the sender asks for rework.
Repeats(p, a) == \E c \in Children(p) : addr[c] = a /\ status[c] = "completed"

\* The nodes that a request under p adds: itself, behind a fresh source node.
Added(p, a, n) ==
    /\ next' = n + 1
    /\ nodes' = (nodes \ Evicted) \cup {n}
    /\ parent' = [parent EXCEPT ![n] = p]
    /\ root' = [root EXCEPT ![n] = root[p]]
    /\ addr' = [addr EXCEPT ![n] = a]
    /\ status' = [status EXCEPT ![n] = "queued"]
    /\ createdAt' = [createdAt EXCEPT ![n] = now]
    /\ UNCHANGED <<reported, gen>>

\* coordinate_bots of a running node, or of a turn that already handed out work.
Enqueue(p, a, rework) ==
    /\ stage = "idle" /\ next <= MaxNodes /\ p \in nodes
    /\ \/ p \in executing /\ status[p] = "running"
       \/ addr[p] \in capable /\ gen[addr[p]] = p
    /\ ~Refused(Path(p), p, a, root[p])
    /\ rework \/ ~Repeats(p, a)
    /\ Cardinality(nodes \ Evicted) < KeepMax
    /\ {a, addr[p]} \cap revoked = {}
    /\ Added(p, a, next)
    /\ UNCHANGED <<executions, startedAt, shown, executing, had, clock,
                   live, capable, turns, ticking, world>>

\* The first coordinate_bots of a person's turn at b makes the source node too.
EnqueueFirst(b, a) ==
    LET p == next  n == next + 1 IN
    /\ stage = "idle" /\ n <= MaxNodes
    /\ b \in capable /\ gen[b] \notin nodes
    /\ BotOf[a] = BotOf[b] => ~Direct(a) /\ ~Direct(b) /\ RoomOf[a] # RoomOf[b]
    /\ Cardinality(nodes \ Evicted) < KeepMax
    /\ {a, b} \cap revoked = {}
    /\ Depth > 0 /\ Requests > 0 /\ Min({Lifetime, HardCap}) >= MinRunway
    /\ next' = n + 1
    /\ nodes' = (nodes \ Evicted) \cup {p, n}
    /\ parent' = [parent EXCEPT ![n] = p]
    /\ root' = [root EXCEPT ![p] = p, ![n] = p]
    /\ addr' = [addr EXCEPT ![p] = b, ![n] = a]
    /\ status' = [status EXCEPT ![n] = "queued"]
    /\ createdAt' = [createdAt EXCEPT ![p] = now, ![n] = now]
    /\ reported' = [reported EXCEPT ![p] = TRUE]
    /\ gen' = [gen EXCEPT ![b] = p]
    /\ UNCHANGED <<executions, startedAt, shown, executing, had, clock,
                   live, capable, turns, ticking, world>>

-----------------------------------------------------------------------------
(* What people stop. *)

\* Stop in a thread: stopAwaitingDirect, and its own turn is interrupted.
StopThread(a) ==
    LET stopped == StoppedAt({a}) IN
    /\ stage = "idle" /\ Direct(a) /\ (a \in Occupied \/ stopped # {})
    /\ status' = [n \in Ids |-> IF n \in stopped \cup Dropped(stopped) THEN "cancelled" ELSE status[n]]
    /\ TrackPauses(status')
    /\ capable' = capable \ {a}
    /\ UNCHANGED <<tree, reported, executions, startedAt, shown, executing, had,
                   live, gen, turns, ticking, world>>

\* Stop in a room, and the deletion of a thread: whole trees are cancelled.
CancelPlace(a) ==
    LET here == {n \in Active : IF Direct(a) THEN addr[n] = a
                                ELSE RoomOf[addr[n]] = RoomOf[a]} IN
    /\ stage = "idle" /\ here # {}
    /\ Direct(a) => a \notin Occupied
    /\ Cancel(UNION {Swept(n) : n \in here}, "cancelled")
    /\ revoked' = IF Direct(a) THEN revoked \cup {a} ELSE revoked
    /\ deleted' = IF Direct(a) THEN deleted \cup {a} ELSE deleted
    /\ capable' = {b \in capable : Direct(a) \/ RoomOf[b] # RoomOf[a]}
    /\ UNCHANGED <<tree, reported, executions, startedAt, shown, executing, had,
                   live, gen, turns, ticking, now, crashes>>

\* A bot is deleted, leaves the room, or stops being an allowed peer.
Revoke(a) ==
    /\ stage = "idle" /\ a \notin revoked /\ Cardinality(revoked) < MaxRevokes
    /\ revoked' = revoked \cup {a}
    /\ UNCHANGED <<tree, status, reported, executions, startedAt, shown, executing, had,
                   clock, people, ticking, now, crashes, deleted>>

\* It is shown again, rejoins or is allowed again.
Reinstate(a) ==
    /\ stage = "idle" /\ a \in revoked \ deleted
    /\ revoked' = revoked \ {a}
    /\ UNCHANGED <<tree, status, reported, executions, startedAt, shown, executing, had,
                   clock, people, ticking, now, crashes, deleted>>

-----------------------------------------------------------------------------
(* The answer of hooks.run. *)

\* Mutant: the answer is recorded even on a node that was cancelled meanwhile.
RunReturnsLate(n, ok) ==
    /\ stage = "idle" /\ n \in executing
    /\ executing' = executing \ {n}
    /\ had' = [had EXCEPT ![n] = 0]
    /\ status' = [status EXCEPT ![n] = IF Cardinality(Children(n)) > had[n] THEN "waiting"
                                       ELSE IF ok THEN "completed" ELSE "failed"]
    /\ TrackPauses(status')
    /\ UNCHANGED <<tree, reported, executions, startedAt, shown, people, ticking, world>>

RunReturns(n, ok) ==
    /\ stage = "idle" /\ n \in executing
    /\ executing' = executing \ {n}
    /\ had' = [had EXCEPT ![n] = 0]
    /\ IF Terminal(status, n)
       THEN UNCHANGED <<status, clock>>
       ELSE /\ status' = [status EXCEPT ![n] =
                            IF Cardinality(Children(n)) > had[n] THEN "waiting"
                            ELSE IF ok THEN "completed" ELSE "failed"]
            /\ TrackPauses(status')
    /\ UNCHANGED <<tree, reported, executions, startedAt, shown, people, ticking, world>>

-----------------------------------------------------------------------------
(* tick(): from the last node to the first, nodes whose route is gone or    *)
(* whose time is up are failed; then, from the first to the last, results   *)
(* are reported, parents resumed and work started.                          *)

TickBegins ==
    /\ stage = "idle" /\ nodes # {}
    /\ TrackPauses(status)
    /\ stage' = "sweep" /\ cursor' = Max(nodes)
    /\ UNCHANGED <<tree, status, reported, executions, startedAt, shown, executing, had,
                   people, world>>

SweepOn ==
    LET left == {m \in nodes : m < cursor} IN
    IF left = {} THEN stage' = "visit" /\ cursor' = Min(nodes)
    ELSE stage' = "sweep" /\ cursor' = Max(left)

VisitOn ==
    LET left == {m \in nodes : m > cursor} IN
    IF left = {} THEN stage' = "idle" /\ cursor' = 0
    ELSE stage' = "visit" /\ cursor' = Min(left)

\* A node whose root is not in the map stops the whole tick with an error.
Sweep ==
    LET n == cursor IN
    /\ stage = "sweep"
    /\ IF n \in Active /\ root[n] \notin nodes
       THEN stage' = "idle" /\ cursor' = 0 /\ UNCHANGED <<status, clock>>
       ELSE /\ SweepOn
            /\ IF n \in Active /\ (Problem(n) \/ Expired(n))
               THEN Cancel(Swept(n), "failed")
               ELSE UNCHANGED <<status, clock>>
    /\ UNCHANGED <<tree, reported, executions, startedAt, shown, executing, had, people, world>>

\* Mutant: the report does not look for a row it has already left.
ReportsAgain(n) ==
    ~(IsAssignment(n) /\ status[n] = "completed") /\ addr[parent[n]] \notin deleted

\* The conversation of the parent gets the result once, and only while it
\* exists; same-room answers are in it already.
Reports(n) ==
    /\ ~(IsAssignment(n) /\ status[n] = "completed")
    /\ addr[parent[n]] \notin deleted
    /\ shown[n] = 0

Report ==
    LET n == cursor IN
    /\ stage = "visit" /\ HasParent(n) /\ Terminal(status, n) /\ ~reported[n]
    /\ shown' = IF Reports(n) THEN [shown EXCEPT ![n] = @ + 1] ELSE shown
    /\ stage' = "reported"
    /\ UNCHANGED <<tree, status, reported, executions, startedAt, executing, had,
                   clock, people, cursor, world>>

ReportSaved ==
    /\ stage = "reported"
    /\ reported' = [reported EXCEPT ![cursor] = TRUE]
    /\ VisitOn
    /\ UNCHANGED <<tree, status, executions, startedAt, shown, executing, had,
                   clock, people, world>>

\* Mutant: a parent is resumed before its results are in its conversation.
ReturnedUnreported(n) == Children(n) # {} /\ Children(n) \cap Active = {}

Returned(n) ==
    Children(n) # {} /\ \A c \in Children(n) : Terminal(status, c) /\ reported[c]

\* The node becomes ready and is looked at again at once.
Resume ==
    LET n == cursor IN
    /\ stage = "visit" /\ status[n] = "waiting" /\ Returned(n)
    /\ status' = [status EXCEPT ![n] = "resume"]
    /\ UNCHANGED <<tree, reported, executions, startedAt, shown, executing, had,
                   clock, people, ticking, world>>

\* The parent still speaks in the same thread or room.
HeldByParent(n) ==
    /\ HasParent(n) /\ status[parent[n]] \in {"source", "running"}
    /\ \/ addr[parent[n]] = addr[n]
       \/ ~Direct(addr[n]) /\ RoomOf[addr[n]] = RoomOf[addr[parent[n]]]

Orphaned(n) == HasParent(n) /\ Terminal(status, parent[n]) /\ status[n] = "queued"

Ready(n) == status[n] \in {"queued", "resume"} /\ ~HeldByParent(n)

DropOrphan ==
    LET n == cursor IN
    /\ stage = "visit" /\ Ready(n) /\ Orphaned(n)
    /\ Cancel(Swept(n), "cancelled")
    /\ VisitOn
    /\ UNCHANGED <<tree, reported, executions, startedAt, shown, executing, had, people, world>>

Spent(n) == executions[root[n]] >= Executions

OverBudget ==
    LET n == cursor IN
    /\ stage = "visit" /\ Ready(n) /\ ~Orphaned(n) /\ ~Busy(addr[n]) /\ Spent(n)
    /\ Cancel(Swept(n), "failed")
    /\ VisitOn
    /\ UNCHANGED <<tree, reported, executions, startedAt, shown, executing, had, people, world>>

\* The claim that precedes the publication of a start.
Claim(n) ==
    /\ status' = [status EXCEPT ![n] = "running"]
    /\ startedAt' = [startedAt EXCEPT ![n] = now]
    /\ executions' = [executions EXCEPT ![root[n]] = @ + 1]
    /\ since' = [since EXCEPT ![root[n]] = IF @ = NotPaused THEN now ELSE @]
    /\ UNCHANGED acc

Start ==
    LET n == cursor IN
    /\ stage = "visit" /\ Ready(n) /\ ~Orphaned(n) /\ ~Busy(addr[n]) /\ ~Spent(n)
    /\ Claim(n)
    /\ executing' = executing \cup {n}
    /\ had' = [had EXCEPT ![n] = Cardinality(Children(n))]
    /\ VisitOn
    /\ UNCHANGED <<tree, reported, shown, people, world>>

\* The publication fails (a full disk): the tick is over and hooks.run was
\* never called, but the node is marked running.
StartUnsaved ==
    LET n == cursor IN
    /\ stage = "visit" /\ Ready(n) /\ ~Orphaned(n) /\ ~Busy(addr[n]) /\ ~Spent(n)
    /\ Claim(n)
    /\ stage' = "idle" /\ cursor' = 0
    /\ UNCHANGED <<tree, reported, shown, executing, had, people, world>>

\* Nothing to do for this node now.
Pass ==
    LET n == cursor IN
    /\ stage = "visit"
    /\ ~(HasParent(n) /\ Terminal(status, n) /\ ~reported[n])
    /\ ~(status[n] = "waiting" /\ Returned(n))
    /\ Ready(n) => ~Orphaned(n) /\ Busy(addr[n])
    /\ VisitOn
    /\ UNCHANGED <<tree, status, reported, executions, startedAt, shown, executing, had,
                   clock, people, world>>

-----------------------------------------------------------------------------
(* Time and crashes. *)

\* tick() runs every 250 ms, far more often than a unit of this clock, which
\* starts with the first request.
Advance ==
    /\ stage = "idle" /\ now < MaxTime /\ nodes # {}
    /\ \A n \in Active : root[n] \in nodes => ~Expired(n)
    /\ now' = now + 1
    /\ UNCHANGED <<tree, status, reported, executions, startedAt, shown, executing, had,
                   clock, people, ticking, crashes, revoked, deleted>>

\* Interrupted work is failed, never run again; pauses start afresh.
Crash ==
    /\ crashes < MaxCrashes
    /\ crashes' = crashes + 1
    /\ status' = [n \in Ids |-> IF n \in Active THEN "failed" ELSE status[n]]
    /\ executing' = {}
    /\ acc' = [n \in Ids |-> 0] /\ since' = [n \in Ids |-> NotPaused]
    /\ live' = {} /\ capable' = {}
    /\ stage' = "idle" /\ cursor' = 0
    /\ had' = [n \in Ids |-> 0] /\ gen' = [a \in Addrs |-> None]
    /\ UNCHANGED <<tree, reported, executions, startedAt, shown, turns, now, revoked, deleted>>

-----------------------------------------------------------------------------
TickStep == Sweep \/ Report \/ ReportSaved \/ Resume \/ DropOrphan \/ OverBudget
              \/ Start \/ StartUnsaved \/ Pass

Next ==
    \/ \E a \in Addrs : TurnStarts(a)
    \/ \E a \in Addrs : TurnSettles(a)
    \/ \E p \in Ids, a \in Addrs, rework \in BOOLEAN : Enqueue(p, a, rework)
    \/ \E a, b \in Addrs : EnqueueFirst(b, a)
    \/ \E a \in Addrs : StopThread(a)
    \/ \E a \in Addrs : CancelPlace(a)
    \/ \E a \in Addrs : Revoke(a)
    \/ \E a \in Addrs : Reinstate(a)
    \/ \E n \in Ids, ok \in BOOLEAN : RunReturns(n, ok)
    \/ TickBegins
    \/ Sweep
    \/ Report
    \/ ReportSaved
    \/ Resume
    \/ DropOrphan
    \/ OverBudget
    \/ Start
    \/ StartUnsaved
    \/ Pass
    \/ Advance
    \/ Crash

Spec == Init /\ [][Next]_vars

(***************************************************************************)
(* The timer fires, a tick ends, a run answers (adapters time out), a      *)
(* person's turn ends and time passes.  The last three are strong: they    *)
(* come between two ticks, and ticks keep coming.                          *)
(***************************************************************************)
Fairness ==
    /\ WF_vars(TickBegins)
    /\ WF_vars(TickStep)
    /\ \A n \in Ids : SF_vars(\E ok \in BOOLEAN : RunReturns(n, ok))
    /\ \A a \in Addrs : SF_vars(TurnSettles(a))
    /\ SF_vars(Advance)

FairSpec == Spec /\ Fairness

-----------------------------------------------------------------------------
(* Properties *)

TypeOK ==
    /\ nodes \subseteq Ids /\ next \in 1..(MaxNodes + 1)
    /\ parent \in [Ids -> 0..MaxNodes] /\ root \in [Ids -> 0..MaxNodes]
    /\ addr \in [Ids -> Addrs]
    /\ status \in [Ids -> Statuses]
    /\ reported \in [Ids -> BOOLEAN]
    /\ executions \in [Ids -> Nat] /\ shown \in [Ids -> Nat]
    /\ createdAt \in [Ids -> Nat] /\ startedAt \in [Ids -> Nat]
    /\ deleted \subseteq revoked /\ revoked \subseteq Addrs
    /\ executing \subseteq Ids /\ had \in [Ids -> Nat]
    /\ acc \in [Ids -> Nat] /\ since \in [Ids -> Nat \cup {NotPaused}]
    /\ capable \subseteq live /\ live \subseteq Addrs
    /\ gen \in [Addrs -> 0..MaxNodes]
    /\ stage \in {"idle", "sweep", "visit", "reported"}
    /\ cursor \in 0..MaxNodes
    /\ now \in Nat /\ crashes \in Nat /\ turns \in Nat

\* A settled request stays settled as it is: no late answer of its run, no
\* second cancellation and no restart changes its outcome; and work that was
\* still queued when its sender settled is never started.
SettledForGood ==
    [][\A n \in nodes :
          /\ Terminal(status, n) => status'[n] = status[n]
          /\ status[n] = "queued" /\ status'[n] = "running" /\ HasParent(n) =>
                ~Terminal(status, parent[n])]_vars

\* A parent is resumed only when each of its children has settled and been
\* reported, however the children's own subtrees were cut.
ResumedWithEveryResult ==
    [][\A n \in nodes :
          status[n] # "running" /\ status'[n] = "running" =>
             \A c \in Children(n) : Terminal(status, c) /\ reported[c]]_vars

\* A conversation shows the result of a request at most once, whatever crashes
\* between the row and the flag that says it was reported.
ReportedOnce == \A n \in Ids : shown[n] <= 1

\* Turns never overlap: not in a thread, not in a room, not with a bot that
\* speaks in a room, whichever of ticks and people start them.
TurnsNeverOverlap ==
    /\ \A n, m \in executing : n # m => ~Clash(addr[n], addr[m])
    /\ \A n \in executing, a \in live : ~Clash(addr[n], a)

\* An unsettled request is not past the hard cap of its tree, even one whose
\* start was never carried out.
HardCapHolds ==
    \A n \in Active : root[n] \in nodes => now <= createdAt[root[n]] + HardCap

\* Time never runs out on a request before its minimum runway: a sweep that
\* fails nodes for their time, ancestors included, only reaches nodes accepted
\* a runway ago and, short of the hard cap, started a runway ago.  A crash in
\* the middle of a sweep fails what it interrupts, however young.
RunwayHonoured ==
    [][stage = "sweep" /\ crashes' = crashes /\ (\A n \in Active : ~Problem(n)) =>
         \A n \in Active : status'[n] = "failed" =>
            /\ now - createdAt[n] >= MinRunway
            /\ status[n] = "running" =>
                  now - startedAt[n] >= MinRunway \/ HardCapped(n)]_vars

\* A request has its time: no more than the tree's cap, no less than a runway.
TimeIsKept == []HardCapHolds /\ RunwayHonoured

\* Requests that have not settled or whose result has not been reported.
Outstanding == {n \in nodes : ~Terminal(status, n) \/ ~reported[n]}

\* Every request settles and its result is reported: a tree that people stop
\* feeding empties, even if a run was claimed and never started, a sender was
\* stopped or a conversation stays busy.
EverythingSettles == Outstanding # {} ~> Outstanding = {}
=============================================================================
