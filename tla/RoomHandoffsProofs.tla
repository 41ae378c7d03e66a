------------------------- MODULE RoomHandoffsProofs -------------------------
(* Proofs that turns of handoffs never overlap, that a settled request stays *)
(* settled, that a sender is resumed with every result, that a result is     *)
(* shown once and that no request outlives the hard cap or is cut before its *)
(* minimum runway, for any teams, rooms, trees, limits, clocks, crashes and  *)
(* revoked routes.                                                           *)
EXTENDS RoomHandoffs, TLAPS, WellFoundedInduction, FiniteSetTheorems

-----------------------------------------------------------------------------
(* The inductive invariant. *)

\* A tick works on a node of the file.
CursorFits == stage # "idle" => cursor \in nodes

\* Ids are not used again: whatever names a node names one made before, and
\* an id that is still to come is as Init left it.
IdsFit ==
    /\ \A n \in nodes : n < next /\ parent[n] < next /\ root[n] < next
    /\ \A n \in executing : n < next
    /\ \A a \in Addrs : gen[a] < next
    /\ \A n \in Ids : n >= next => status[n] = "source" /\ parent[n] = None

SinceFits == \A r \in Ids : since[r] <= now

\* A run that has not answered is of a node that runs or was settled meanwhile.
RunsFit == \A n \in executing : status[n] = "running" \/ Terminal(status, n)

\* The turn of a person hands out work for its own source node only.
SourcesFit ==
    \A a \in Addrs : gen[a] \in nodes =>
        addr[gen[a]] = a /\ (status[gen[a]] = "source" \/ Terminal(status, gen[a]))

\* A node that may be started has no result to come.
ReadyFits ==
    \A n \in nodes :
        /\ status[n] = "queued" => \A c \in nodes : parent[c] # n
        /\ status[n] = "resume" => \A c \in nodes : parent[c] = n => Terminal(status, c) /\ reported[c]

IInv ==
    /\ TypeOK /\ CursorFits /\ IdsFit /\ SinceFits /\ RunsFit /\ SourcesFit /\ ReadyFits
    /\ TurnsNeverOverlap /\ ReportedOnce /\ HardCapHolds

-----------------------------------------------------------------------------
(* Lemmas about the operators. *)

LEMMA Constants ==
    /\ Addrs # {} /\ People \subseteq Addrs
    /\ MaxNodes \in Nat /\ Lifetime \in Nat /\ MinRunway \in Nat /\ HardCap \in Nat
    /\ MinRunway >= 1 /\ HardCap >= 1
BY ConstantsAssumption

\* A non-empty set of nodes has a first and a last one.
LEMMA LeastOf ==
    ASSUME NEW S, S \subseteq Nat, S # {}
    PROVE  \E m \in S : \A n \in S : m <= n
<1>1. \E m \in S : \A n \in S : ~ (<<n, m>> \in OpToRel(<, Nat))
    BY NatLessThanWellFounded, WFMin
<1>2. \A m, n \in Nat : n < m => <<n, m>> \in OpToRel(<, Nat)
    BY DEF OpToRel
<1>3. PICK m \in S : \A n \in S : ~ (<<n, m>> \in OpToRel(<, Nat))
    BY <1>1
<1>4. ASSUME NEW n \in S PROVE m <= n
    <2>1. ~ (n < m)
        BY <1>2, <1>3
    <2> QED
        BY <2>1
<1> QED
    BY <1>4

LEMMA MinOfNodes ==
    ASSUME NEW S, S \subseteq Nat, S # {}
    PROVE  Min(S) \in S
BY LeastOf DEF Min

LEMMA MaxOfNodes ==
    ASSUME NEW S, S \subseteq Ids, S # {}
    PROVE  Max(S) \in S
<1> USE Constants DEF Ids
<1> DEFINE Mirror == {MaxNodes - n : n \in S}
<1>1. Mirror \subseteq Nat /\ Mirror # {}
    <2>1. \A n \in S : n \in Nat /\ n <= MaxNodes
        OBVIOUS
    <2>2. \A n \in S : MaxNodes - n \in Nat
        BY <2>1
    <2> QED
        BY <2>2
<1> HIDE DEF Mirror
<1>2. PICK m \in Mirror : \A n \in Mirror : m <= n
    BY <1>1, LeastOf
<1>3. PICK top \in S : m = MaxNodes - top
    BY DEF Mirror
<1>4. \A n \in S : MaxNodes - top <= MaxNodes - n
    BY <1>2, <1>3 DEF Mirror
<1>5. \A n \in S : top >= n
    BY <1>4
<1> QED
    BY <1>3, <1>5 DEF Max

\* The accounts of pauses stay accounts, whatever the statuses become.
LEMMA PausesFit ==
    ASSUME TypeOK, SinceFits, NEW st, TrackPauses(st)
    PROVE  /\ acc' \in [Ids -> Nat] /\ since' \in [Ids -> Nat \cup {NotPaused}]
           /\ \A r \in Ids : since'[r] <= now
<1>0. /\ acc \in [Ids -> Nat] /\ since \in [Ids -> Nat \cup {NotPaused}] /\ now \in Nat
      /\ \A r \in Ids : since[r] <= now
    BY DEF TypeOK, SinceFits
<1> DEFINE runs(r) == \E n \in nodes : root[n] = r /\ st[n] = "running"
           open(r) == r \in nodes /\ \E n \in nodes : root[n] = r /\ ~Terminal(st, n)
<1>1. /\ acc' = [r \in Ids |-> IF ~open(r) THEN 0
                               ELSE IF since[r] # NotPaused /\ ~runs(r)
                                    THEN acc[r] + now - since[r] ELSE acc[r]]
      /\ since' = [r \in Ids |-> IF ~runs(r) \/ ~open(r) THEN NotPaused
                                 ELSE IF since[r] = NotPaused THEN now ELSE since[r]]
    BY DEF TrackPauses, Tracked
<1> HIDE DEF runs, open
<1>2. ASSUME NEW r \in Ids PROVE acc'[r] \in Nat
    <2>1. CASE since[r] = NotPaused
        BY <2>1, <1>0, <1>1
    <2>2. CASE since[r] # NotPaused
        <3>1. since[r] \in Nat /\ since[r] <= now
            BY <2>2, <1>0
        <3>2. acc[r] + now - since[r] \in Nat
            BY <3>1, <1>0
        <3> QED
            BY <3>2, <1>0, <1>1
    <2> QED
        BY <2>1, <2>2
<1>3. ASSUME NEW r \in Ids PROVE since'[r] \in Nat \cup {NotPaused} /\ since'[r] <= now
    BY <1>0, <1>1 DEF NotPaused
<1> QED
    BY <1>1, <1>2, <1>3

\* A step of the tick goes on to a node of the file, or ends.
LEMMA MovesOn ==
    ASSUME TypeOK, nodes' = nodes, nodes # {}, SweepOn \/ VisitOn
    PROVE  /\ stage' \in {"idle", "sweep", "visit", "reported"} /\ cursor' \in 0..MaxNodes
           /\ CursorFits'
<1> USE Constants
<1>0. nodes \subseteq Ids /\ nodes \subseteq Nat /\ Ids \subseteq 0..MaxNodes
    BY DEF TypeOK, Ids
<1>1. CASE SweepOn
    <2> DEFINE left == {m \in nodes : m < cursor}
    <2>1. CASE left = {}
        <3>1. stage' = "visit" /\ cursor' = Min(nodes)
            BY <1>1, <2>1 DEF SweepOn
        <3>2. Min(nodes) \in nodes
            BY <1>0, MinOfNodes
        <3> QED
            BY <3>1, <3>2, <1>0 DEF CursorFits
    <2>2. CASE left # {}
        <3>1. stage' = "sweep" /\ cursor' = Max(left)
            BY <1>1, <2>2 DEF SweepOn
        <3>2. Max(left) \in left
            BY <1>0, <2>2, MaxOfNodes
        <3> QED
            BY <3>1, <3>2, <1>0 DEF CursorFits
    <2> QED
        BY <2>1, <2>2
<1>2. CASE VisitOn
    <2> DEFINE left == {m \in nodes : m > cursor}
    <2>1. CASE left = {}
        BY <1>2, <2>1 DEF VisitOn, CursorFits
    <2>2. CASE left # {}
        <3>1. stage' = "visit" /\ cursor' = Min(left)
            BY <1>2, <2>2 DEF VisitOn
        <3>2. Min(left) \in left
            BY <1>0, <2>2, MinOfNodes
        <3> QED
            BY <3>1, <3>2, <1>0 DEF CursorFits
    <2> QED
        BY <2>1, <2>2
<1> QED
    BY <1>1, <1>2

LEMMA ChildrenAreCounted ==
    ASSUME nodes \subseteq Ids, NEW n
    PROVE  Cardinality(Children(n)) \in Nat
<1>1. IsFiniteSet(Ids)
    BY Constants, FS_Interval DEF Ids
<1>2. Children(n) \subseteq Ids
    BY DEF Children
<1> QED
    BY <1>1, <1>2, FS_Subset, FS_CardinalityType

LEMMA ClashIsMutual ==
    ASSUME NEW a \in Addrs, NEW b \in Addrs, Clash(a, b)
    PROVE  Clash(b, a)
BY DEF Clash, Direct

-----------------------------------------------------------------------------
(* Steps that do no more than settle requests. *)

SettlesOnly ==
    \A n \in Ids : status'[n] = status[n] \/ (n \in Active /\ status'[n] \in TerminalStatuses)

LEMMA CancelSettles ==
    ASSUME TypeOK, NEW swept, swept \subseteq Active, NEW how \in TerminalStatuses,
           status' = Cancelled(swept, how)
    PROVE  status' \in [Ids -> Statuses] /\ SettlesOnly
<1> DEFINE stopped == StoppedAt(Aborted(swept)) \ swept
<1>1. stopped \subseteq Active /\ Dropped(stopped) \subseteq Active
    BY DEF StoppedAt, Dropped
<1>2. status' = [n \in Ids |-> IF n \in swept THEN how
                              ELSE IF n \in stopped \cup Dropped(stopped) THEN "cancelled"
                              ELSE status[n]]
    BY DEF Cancelled
<1> HIDE DEF stopped
<1> QED
    BY <1>1, <1>2 DEF TypeOK, SettlesOnly, TerminalStatuses, Statuses

LEMMA StopSettles ==
    ASSUME TypeOK, NEW stopped, stopped \subseteq Active,
           status' = [n \in Ids |-> IF n \in stopped \cup Dropped(stopped) THEN "cancelled" ELSE status[n]]
    PROVE  status' \in [Ids -> Statuses] /\ SettlesOnly
BY DEF TypeOK, SettlesOnly, Dropped, TerminalStatuses, Statuses

LEMMA SweptAreActive == \A n : Swept(n) \subseteq Active
BY DEF Swept

\* The parts of the invariant about ids, runs, sources and results.
NodesFit == IdsFit /\ RunsFit /\ SourcesFit /\ ReadyFits

LEMMA SettlingSound ==
    ASSUME IInv, SettlesOnly, UNCHANGED tree, executing' \subseteq executing,
           \A n \in Ids : reported[n] => reported'[n],
           \A a \in Addrs : gen'[a] = gen[a] \/ gen'[a] = None
    PROVE  NodesFit' /\ (now' = now => HardCapHolds')
<1> USE DEF IInv, TypeOK, tree
<1>1. /\ nodes \subseteq Ids /\ executing \subseteq Ids /\ next \in Nat /\ None \notin Ids /\ None < next
      /\ UNCHANGED <<nodes, next, parent, root, addr, createdAt>>
    BY Constants DEF Ids, None
<1>2. \A n \in Ids : Terminal(status, n) => status'[n] = status[n]
    BY DEF SettlesOnly, Active, Terminal
<1>3. \A n \in Ids : status'[n] = status[n] \/ Terminal(status', n)
    BY DEF SettlesOnly, Terminal
<1>4. IdsFit'
    <2>1. \A n \in Ids : n >= next => n \notin nodes
        BY <1>1 DEF IdsFit, Ids
    <2>2. \A n \in Ids : n >= next => status'[n] = status[n]
        BY <2>1 DEF SettlesOnly, Active
    <2> QED
        BY <1>1, <2>2 DEF IdsFit
<1>5. RunsFit'
    BY <1>1, <1>2, <1>3 DEF RunsFit, Terminal
<1>6. SourcesFit'
    BY <1>1, <1>2, <1>3 DEF SourcesFit, Terminal
<1>7. ReadyFits'
    <2>1. ASSUME NEW n \in nodes, status'[n] \in {"queued", "resume"}
          PROVE  status'[n] = status[n]
        BY <1>1, <1>3, <2>1 DEF Terminal, TerminalStatuses
    <2> QED
        BY <1>1, <1>2, <1>3, <2>1 DEF ReadyFits, Terminal
<1>8. ASSUME now' = now PROVE HardCapHolds'
    <2>1. \A n \in nodes : ~Terminal(status', n) => ~Terminal(status, n)
        BY <1>1, <1>2 DEF Terminal
    <2> QED
        BY <1>1, <1>8, <2>1 DEF HardCapHolds, Active
<1> QED
    BY <1>4, <1>5, <1>6, <1>7, <1>8 DEF NodesFit

LEMMA OverlapKept ==
    ASSUME TurnsNeverOverlap, executing' \subseteq executing, live' \subseteq live, addr' = addr
    PROVE  TurnsNeverOverlap'
BY DEF TurnsNeverOverlap, Clash, Direct

LEMMA NothingSettles == status' = status => SettlesOnly
BY DEF SettlesOnly

-----------------------------------------------------------------------------
(* Turns of people. *)

LEMMA TurnStartsSound == ASSUME IInv, NEW a \in Addrs, TurnStarts(a) PROVE IInv'
<1>1. /\ ~Busy(a) /\ live' = live \cup {a} /\ capable' = capable \cup {a}
      /\ gen' = [gen EXCEPT ![a] = None] /\ turns' = turns + 1
      /\ UNCHANGED <<tree, status, reported, executions, startedAt, shown, executing, had,
                     clock, ticking, world>>
    BY DEF TurnStarts
<1>2. TypeOK'
    BY <1>1, Constants DEF IInv, TypeOK, tree, clock, ticking, world, None
<1>3. /\ SettlesOnly /\ executing' \subseteq executing /\ now' = now
      /\ \A n \in Ids : reported[n] => reported'[n]
      /\ \A b \in Addrs : gen'[b] = gen[b] \/ gen'[b] = None
    BY <1>1, NothingSettles DEF IInv, TypeOK, world
<1>4. NodesFit' /\ HardCapHolds'
    BY <1>1, <1>3, SettlingSound
<1>5. TurnsNeverOverlap'
    <2>1. \A n \in executing : addr[n] \in Addrs /\ ~Clash(a, addr[n])
        BY <1>1 DEF IInv, TypeOK, Busy, Occupied
    <2>2. \A n \in executing : ~Clash(addr[n], a)
        BY <2>1, ClashIsMutual
    <2> QED
        BY <1>1, <2>2 DEF IInv, TurnsNeverOverlap, Clash, Direct, tree
<1>6. (CursorFits /\ SinceFits /\ ReportedOnce)'
    BY <1>1 DEF IInv, CursorFits, SinceFits, ReportedOnce, tree, clock, ticking, world
<1> QED
    BY <1>2, <1>4, <1>5, <1>6 DEF IInv, NodesFit

\* Only the source node of the turn waits from now on.
LEMMA TurnSettlesSound == ASSUME IInv, NEW a \in Addrs, TurnSettles(a) PROVE IInv'
<1> DEFINE p == gen[a]
<1>1. /\ live' = live \ {a} /\ capable' = capable \ {a} /\ gen' = [gen EXCEPT ![a] = None]
      /\ status' = IF p \in nodes /\ status[p] = "source" THEN [status EXCEPT ![p] = "waiting"] ELSE status
      /\ UNCHANGED <<tree, reported, executions, startedAt, shown, executing, had, clock, turns, ticking, world>>
    BY DEF TurnSettles
<1>2. TypeOK'
    BY <1>1, Constants DEF IInv, TypeOK, tree, clock, ticking, world, None, Statuses
<1>3. (CursorFits /\ SinceFits /\ ReportedOnce)'
    BY <1>1 DEF IInv, CursorFits, SinceFits, ReportedOnce, tree, clock, ticking, world
<1>4. TurnsNeverOverlap'
    BY <1>1, OverlapKept DEF IInv, tree
<1>5. CASE p \in nodes /\ status[p] = "source"
    <2>1. /\ p \in Ids /\ p \in nodes /\ p < next /\ status[p] = "source" /\ None \notin Ids
          /\ status' = [status EXCEPT ![p] = "waiting"] /\ status \in [Ids -> Statuses]
          /\ nodes \subseteq Ids /\ executing \subseteq Ids /\ next \in Nat
          /\ UNCHANGED <<nodes, next, parent, root, addr, createdAt, executing, reported, now>>
        BY <1>1, <1>5 DEF IInv, TypeOK, IdsFit, Ids, None, tree, world
    <2>2. \A n \in Ids : status'[n] = IF n = p THEN "waiting" ELSE status[n]
        BY <2>1
    <2>3. /\ ~Terminal(status, p) /\ ~Terminal(status', p)
          /\ \A n \in Ids : n # p => Terminal(status', n) = Terminal(status, n)
        BY <2>1, <2>2 DEF Terminal, TerminalStatuses
    <2>4. IdsFit'
        BY <1>1, <2>1, <2>2, Constants DEF IInv, TypeOK, IdsFit, None
    <2>5. RunsFit'
        BY <2>1, <2>2, <2>3 DEF IInv, RunsFit
    <2>6. SourcesFit'
        <3>1. gen \in [Addrs -> 0..MaxNodes] /\ a \in Addrs /\ None \notin nodes /\ SourcesFit
            BY <2>1 DEF IInv, TypeOK
        <3> SUFFICES ASSUME NEW b \in Addrs, gen'[b] \in nodes
                     PROVE  addr[gen'[b]] = b /\ (status'[gen'[b]] = "source" \/ Terminal(status', gen'[b]))
            BY <2>1 DEF SourcesFit
        <3>2. b # a /\ gen'[b] = gen[b]
            BY <1>1, <3>1
        <3>3. gen[b] # p /\ gen[b] \in Ids
            BY <2>1, <3>1, <3>2 DEF SourcesFit
        <3>4. addr[gen[b]] = b /\ (status[gen[b]] = "source" \/ Terminal(status, gen[b]))
            BY <3>1, <3>2 DEF SourcesFit
        <3>5. status'[gen[b]] = status[gen[b]] /\ Terminal(status', gen[b]) = Terminal(status, gen[b])
            BY <2>2, <2>3, <3>3
        <3> QED
            BY <3>2, <3>4, <3>5
    <2>7. ReadyFits'
        <3> SUFFICES ASSUME NEW n \in nodes
                     PROVE  /\ status'[n] = "queued" => \A c \in nodes : parent[c] # n
                            /\ status'[n] = "resume" =>
                                  \A c \in nodes : parent[c] = n => Terminal(status', c) /\ reported[c]
            BY <2>1 DEF ReadyFits
        <3>1. n \in Ids /\ (status'[n] = "queued" => status[n] = "queued")
              /\ (status'[n] = "resume" => status[n] = "resume")
            BY <2>1, <2>2
        <3>2. /\ status[n] = "queued" => \A c \in nodes : parent[c] # n
              /\ status[n] = "resume" => \A c \in nodes : parent[c] = n => Terminal(status, c) /\ reported[c]
            BY DEF IInv, ReadyFits
        <3>3. \A c \in nodes : Terminal(status, c) => Terminal(status', c)
            BY <2>1, <2>3
        <3> QED
            BY <3>1, <3>2, <3>3
    <2>8. HardCapHolds'
        BY <2>1, <2>3 DEF IInv, HardCapHolds, Active
    <2> QED
        BY <1>2, <1>3, <1>4, <2>4, <2>5, <2>6, <2>7, <2>8 DEF IInv
<1>6. CASE ~(p \in nodes /\ status[p] = "source")
    <2>1. /\ SettlesOnly /\ executing' \subseteq executing /\ now' = now
          /\ \A n \in Ids : reported[n] => reported'[n]
          /\ \A b \in Addrs : gen'[b] = gen[b] \/ gen'[b] = None
        BY <1>1, <1>6, NothingSettles DEF IInv, TypeOK, world
    <2>2. NodesFit' /\ HardCapHolds'
        BY <1>1, <2>1, SettlingSound
    <2> QED
        BY <1>2, <1>3, <1>4, <2>2 DEF IInv, NodesFit
<1> QED
    BY <1>5, <1>6

-----------------------------------------------------------------------------
(* What people stop. *)

LEMMA StopThreadSound == ASSUME IInv, NEW a \in Addrs, StopThread(a) PROVE IInv'
<1>1. /\ status' = [n \in Ids |-> IF n \in StoppedAt({a}) \cup Dropped(StoppedAt({a})) THEN "cancelled"
                                  ELSE status[n]]
      /\ TrackPauses(status') /\ capable' = capable \ {a}
      /\ UNCHANGED <<tree, reported, executions, startedAt, shown, executing, had,
                     live, gen, turns, ticking, world>>
    BY DEF StopThread
<1>2. StoppedAt({a}) \subseteq Active
    BY DEF StoppedAt
<1>3. status' \in [Ids -> Statuses] /\ SettlesOnly
    BY <1>1, <1>2, StopSettles DEF IInv
<1>4. /\ acc' \in [Ids -> Nat] /\ since' \in [Ids -> Nat \cup {NotPaused}]
      /\ \A r \in Ids : since'[r] <= now
    BY <1>1, PausesFit DEF IInv
<1>5. TypeOK'
    BY <1>1, <1>3, <1>4 DEF IInv, TypeOK, tree, ticking, world
<1>6. NodesFit' /\ HardCapHolds' /\ TurnsNeverOverlap'
    BY <1>1, <1>3, SettlingSound, OverlapKept DEF IInv, tree, world
<1>7. (CursorFits /\ SinceFits /\ ReportedOnce)'
    BY <1>1, <1>4 DEF IInv, CursorFits, SinceFits, ReportedOnce, tree, ticking, world
<1> QED
    BY <1>5, <1>6, <1>7 DEF IInv, NodesFit

LEMMA CancelPlaceSound == ASSUME IInv, NEW a \in Addrs, CancelPlace(a) PROVE IInv'
<1> DEFINE here == {n \in Active : IF Direct(a) THEN addr[n] = a ELSE RoomOf[addr[n]] = RoomOf[a]}
           swept == UNION {Swept(n) : n \in here}
<1>1. /\ Cancel(swept, "cancelled")
      /\ revoked' = IF Direct(a) THEN revoked \cup {a} ELSE revoked
      /\ deleted' = IF Direct(a) THEN deleted \cup {a} ELSE deleted
      /\ capable' = {b \in capable : Direct(a) \/ RoomOf[b] # RoomOf[a]}
      /\ UNCHANGED <<tree, reported, executions, startedAt, shown, executing, had,
                     live, gen, turns, ticking, now, crashes>>
    BY DEF CancelPlace
<1>2. swept \subseteq Active
    BY SweptAreActive
<1> HIDE DEF swept
<1>3. status' \in [Ids -> Statuses] /\ SettlesOnly
    BY <1>1, <1>2, CancelSettles DEF IInv, Cancel, TerminalStatuses
<1>4. /\ acc' \in [Ids -> Nat] /\ since' \in [Ids -> Nat \cup {NotPaused}]
      /\ \A r \in Ids : since'[r] <= now
    BY <1>1, PausesFit DEF IInv, Cancel
<1>5. TypeOK'
    BY <1>1, <1>3, <1>4 DEF IInv, TypeOK, tree, ticking
<1>6. NodesFit' /\ HardCapHolds' /\ TurnsNeverOverlap'
    BY <1>1, <1>3, SettlingSound, OverlapKept DEF IInv, tree
<1>7. (CursorFits /\ SinceFits /\ ReportedOnce)'
    BY <1>1, <1>4 DEF IInv, CursorFits, SinceFits, ReportedOnce, tree, ticking
<1> QED
    BY <1>5, <1>6, <1>7 DEF IInv, NodesFit

LEMMA RoutesSound ==
    ASSUME IInv, NEW a \in Addrs, Revoke(a) \/ Reinstate(a)
    PROVE  IInv'
<1>1. /\ revoked' = revoked \cup {a} \/ (revoked' = revoked \ {a} /\ a \notin deleted)
      /\ UNCHANGED <<tree, status, reported, executions, startedAt, shown, executing, had,
                     clock, people, ticking, now, crashes, deleted>>
    BY DEF Revoke, Reinstate
<1>2. TypeOK'
    BY <1>1 DEF IInv, TypeOK, tree, clock, people, ticking
<1>3. NodesFit' /\ HardCapHolds' /\ TurnsNeverOverlap'
    BY <1>1, NothingSettles, SettlingSound, OverlapKept DEF IInv, tree, people
<1>4. (CursorFits /\ SinceFits /\ ReportedOnce)'
    BY <1>1 DEF IInv, CursorFits, SinceFits, ReportedOnce, tree, clock, ticking
<1> QED
    BY <1>2, <1>3, <1>4 DEF IInv, NodesFit

-----------------------------------------------------------------------------
(* Requests. *)

LEMMA MinIsOne ==
    ASSUME NEW x \in Int, NEW y \in Int
    PROVE  (Min({x, y}) = x \/ Min({x, y}) = y) /\ Min({x, y}) <= x /\ Min({x, y}) <= y
<1>1. CASE x <= y
    <2>1. x \in {x, y} /\ \A z \in {x, y} : x <= z
        BY <1>1
    <2> QED
        BY <2>1 DEF Min
<1>2. CASE y <= x
    <2>1. y \in {x, y} /\ \A z \in {x, y} : y <= z
        BY <1>2
    <2> QED
        BY <2>1 DEF Min
<1> QED
    BY <1>1, <1>2

LEMMA MaxCovers ==
    ASSUME NEW x \in Int, NEW y \in Int
    PROVE  Max({x, y}) \in Int /\ Max({x, y}) >= x /\ Max({x, y}) >= y
<1>1. CASE x >= y
    <2>1. x \in {x, y} /\ \A z \in {x, y} : x >= z
        BY <1>1
    <2> QED
        BY <2>1 DEF Max
<1>2. CASE y >= x
    <2>1. y \in {x, y} /\ \A z \in {x, y} : y >= z
        BY <1>2
    <2> QED
        BY <2>1 DEF Max
<1> QED
    BY <1>1, <1>2

\* A pause is no time, or some.
LEMMA PausedIsTime == ASSUME TypeOK, SinceFits, NEW r \in Ids PROVE Paused(r) \in Nat
<1>1. acc[r] \in Nat /\ since[r] \in Nat \cup {NotPaused} /\ since[r] <= now /\ now \in Nat
    BY DEF TypeOK, SinceFits
<1> QED
    BY <1>1 DEF Paused

\* A request is accepted only while a runway fits before both ends of its tree.
LEMMA AcceptedInTime ==
    ASSUME TypeOK, SinceFits, NEW path, NEW p, NEW a, NEW r \in Ids, ~Refused(path, p, a, r)
    PROVE  /\ now <= createdAt[r] + HardCap
           /\ now + MinRunway <= createdAt[r] + HardCap
           /\ now + MinRunway <= createdAt[r] + Lifetime + Paused(r)
<1> DEFINE age == now - createdAt[r] - Paused(r)
<1>1. ~(Min({Lifetime - Age(r), createdAt[r] + HardCap - now}) < MinRunway)
    BY DEF Refused
<1>2. /\ now \in Nat /\ createdAt[r] \in Nat /\ Paused(r) \in Nat
      /\ MinRunway \in Nat /\ HardCap \in Nat /\ Lifetime \in Nat
    BY Constants, PausedIsTime DEF TypeOK
<1>3. Age(r) \in Int /\ Age(r) >= age
    <2>1. age \in Int /\ 0 \in Int
        BY <1>2
    <2>2. Age(r) = Max({0, age})
        BY DEF Age
    <2> HIDE DEF age
    <2> QED
        BY <2>1, <2>2, MaxCovers
<1>4. /\ Lifetime - Age(r) \in Int /\ createdAt[r] + HardCap - now \in Int
    BY <1>2, <1>3
<1>5. /\ Lifetime - Age(r) >= MinRunway
      /\ createdAt[r] + HardCap - now >= MinRunway
    <2> DEFINE x == Lifetime - Age(r)
               y == createdAt[r] + HardCap - now
    <2>1. x \in Int /\ y \in Int
        BY <1>4
    <2>2. ~(Min({x, y}) < MinRunway)
        BY <1>1
    <2> HIDE DEF x, y
    <2>3. (Min({x, y}) = x \/ Min({x, y}) = y) /\ Min({x, y}) <= x /\ Min({x, y}) <= y
        BY <2>1, MinIsOne
    <2>4. x >= MinRunway /\ y >= MinRunway
        BY <1>2, <2>1, <2>2, <2>3
    <2> QED
        BY <2>4 DEF x, y
<1> QED
    BY <1>2, <1>3, <1>5

LEMMA EnqueueSound ==
    ASSUME IInv, NEW p \in Ids, NEW a \in Addrs, NEW rework \in BOOLEAN, Enqueue(p, a, rework)
    PROVE  IInv'
<1> DEFINE n == next
<1>1. /\ n <= MaxNodes /\ p \in nodes
      /\ (p \in executing /\ status[p] = "running") \/ gen[addr[p]] = p
      /\ ~Refused(Path(p), p, a, root[p])
      /\ Added(p, a, n)
      /\ UNCHANGED <<executions, startedAt, shown, executing, had, clock,
                     live, capable, turns, ticking, world>>
    BY DEF Enqueue
<1>2. /\ next' = n + 1
      /\ nodes' \subseteq nodes \cup {n}
      /\ parent' = [parent EXCEPT ![n] = p]
      /\ root' = [root EXCEPT ![n] = root[p]]
      /\ addr' = [addr EXCEPT ![n] = a]
      /\ status' = [status EXCEPT ![n] = "queued"]
      /\ createdAt' = [createdAt EXCEPT ![n] = now]
      /\ UNCHANGED <<reported, gen>>
    BY <1>1 DEF Added
<1>3. /\ n \in Ids /\ n \in Nat /\ MaxNodes \in Nat /\ p < n /\ p \in Nat /\ root[p] < n
      /\ nodes \subseteq Ids /\ executing \subseteq Ids /\ None \notin Ids
      /\ parent \in [Ids -> 0..MaxNodes] /\ root \in [Ids -> 0..MaxNodes] /\ addr \in [Ids -> Addrs]
      /\ status \in [Ids -> Statuses] /\ createdAt \in [Ids -> Nat] /\ gen \in [Addrs -> 0..MaxNodes]
    <2>1. /\ nodes \subseteq Ids /\ executing \subseteq Ids
          /\ parent \in [Ids -> 0..MaxNodes] /\ root \in [Ids -> 0..MaxNodes] /\ addr \in [Ids -> Addrs]
          /\ status \in [Ids -> Statuses] /\ createdAt \in [Ids -> Nat] /\ gen \in [Addrs -> 0..MaxNodes]
          /\ next \in 1..(MaxNodes + 1) /\ MaxNodes \in Nat
        BY Constants DEF IInv, TypeOK
    <2>2. n \in Ids /\ n \in Nat /\ p \in Nat /\ None \notin Ids
        BY <1>1, <2>1 DEF Ids, None
    <2>3. p < n /\ root[p] < n
        BY <1>1 DEF IInv, IdsFit
    <2> QED
        BY <2>1, <2>2, <2>3
<1>4. \A m \in Ids : m # n => /\ parent'[m] = parent[m] /\ root'[m] = root[m] /\ addr'[m] = addr[m]
                              /\ status'[m] = status[m] /\ createdAt'[m] = createdAt[m]
    BY <1>2, <1>3
<1>5. /\ parent'[n] = p /\ root'[n] = root[p] /\ addr'[n] = a /\ status'[n] = "queued" /\ createdAt'[n] = now
    BY <1>2, <1>3
<1>6. \A m \in nodes \cup executing : m # n /\ m \in Ids
    BY <1>3 DEF IInv, IdsFit, Ids
<1>7. TypeOK'
    <2>1. nodes' \subseteq Ids /\ next' \in 1..(MaxNodes + 1)
        BY <1>1, <1>2, <1>3
    <2>2. /\ parent' \in [Ids -> 0..MaxNodes] /\ root' \in [Ids -> 0..MaxNodes]
          /\ addr' \in [Ids -> Addrs] /\ status' \in [Ids -> Statuses] /\ createdAt' \in [Ids -> Nat]
        <3>1. p \in 0..MaxNodes /\ root[p] \in 0..MaxNodes /\ now \in Nat /\ "queued" \in Statuses
            BY <1>3 DEF IInv, TypeOK, Statuses, Ids
        <3> QED
            BY <1>2, <1>3, <3>1
    <2> QED
        BY <1>1, <1>2, <2>1, <2>2 DEF IInv, TypeOK, clock, ticking, world
<1>8. CursorFits'
    BY <1>1 DEF IInv, Enqueue, CursorFits, ticking
<1>9. IdsFit'
    <2>1. ASSUME NEW m \in nodes'
          PROVE  m < n + 1 /\ parent'[m] < n + 1 /\ root'[m] < n + 1
        <3>1. CASE m = n
            BY <3>1, <1>3, <1>5
        <3>2. CASE m # n
            <4>1. m \in nodes /\ m \in Ids
                BY <3>2, <1>2, <1>6
            <4>2. m < n /\ parent[m] < n /\ root[m] < n /\ m \in Nat /\ parent[m] \in Nat /\ root[m] \in Nat
                BY <4>1, <1>3 DEF IInv, IdsFit, Ids
            <4> QED
                BY <3>2, <4>1, <4>2, <1>3, <1>4
        <3> QED
            BY <3>1, <3>2
    <2>2. /\ \A m \in executing : m < n + 1
          /\ \A b \in Addrs : gen[b] < n + 1
        <3>1. /\ \A m \in executing : m < n /\ m \in Nat
              /\ \A b \in Addrs : gen[b] < n /\ gen[b] \in Nat
            BY <1>3 DEF IInv, IdsFit, Ids
        <3> QED
            BY <3>1, <1>3
    <2>3. ASSUME NEW m \in Ids, m >= n + 1
          PROVE  status'[m] = "source" /\ parent'[m] = None
        <3>1. m >= n /\ m # n
            BY <1>3, <2>3 DEF Ids
        <3> QED
            BY <3>1, <1>4 DEF IInv, IdsFit
    <2> QED
        BY <1>1, <1>2, <2>1, <2>2, <2>3 DEF IdsFit
<1>10. SinceFits' /\ ReportedOnce'
    BY <1>1 DEF IInv, SinceFits, ReportedOnce, clock, world
<1>11. RunsFit'
    BY <1>1, <1>4, <1>6 DEF IInv, RunsFit, Terminal
<1>12. SourcesFit'
    <2> SUFFICES ASSUME NEW b \in Addrs, gen[b] \in nodes'
                 PROVE  addr'[gen[b]] = b /\ (status'[gen[b]] = "source" \/ Terminal(status', gen[b]))
        BY <1>2 DEF SourcesFit
    <2>1. gen[b] # n
        BY <1>3 DEF IInv, IdsFit
    <2>2. gen[b] \in nodes /\ gen[b] \in Ids
        BY <2>1, <1>2, <1>3
    <2> QED
        BY <2>1, <2>2, <1>4 DEF IInv, SourcesFit, Terminal
<1>13. ReadyFits'
    <2>1. status[p] \notin {"queued", "resume"}
        <3>1. addr[p] \in Addrs
            BY <1>3
        <3> QED
            BY <1>1, <3>1 DEF IInv, SourcesFit, Terminal, TerminalStatuses
    <2> SUFFICES ASSUME NEW m \in nodes', NEW c \in nodes', parent'[c] = m
                 PROVE  /\ status'[m] # "queued"
                        /\ status'[m] = "resume" => Terminal(status', c) /\ reported[c]
        BY <1>2 DEF ReadyFits
    <2>2. CASE c = n
        <3>1. m = p /\ m # n /\ m \in Ids
            BY <2>2, <1>3, <1>5
        <3> QED
            BY <3>1, <2>1, <1>4
    <2>3. CASE c # n
        <3>1. c \in nodes /\ c \in Ids /\ parent[c] = m /\ parent[c] < n
            BY <2>3, <1>2, <1>4, <1>6 DEF IInv, IdsFit
        <3>2. m \in nodes /\ m # n /\ m \in Ids
            BY <3>1, <1>2, <1>3
        <3> QED
            BY <2>3, <3>1, <3>2, <1>4 DEF IInv, ReadyFits, Terminal
    <2> QED
        BY <2>2, <2>3
<1>14. TurnsNeverOverlap'
    BY <1>1, <1>4, <1>6 DEF IInv, TurnsNeverOverlap, Clash, Direct
<1>15. HardCapHolds'
    <2> SUFFICES ASSUME NEW m \in nodes', ~Terminal(status', m), root'[m] \in nodes'
                 PROVE  now <= createdAt'[root'[m]] + HardCap
        BY <1>1 DEF HardCapHolds, Active, world
    <2>1. CASE m = n
        <3>1. root'[m] = root[p] /\ root[p] # n /\ root[p] \in nodes /\ root[p] \in Ids
            BY <2>1, <1>2, <1>3, <1>5
        <3> QED
            BY <3>1, <1>1, <1>4, AcceptedInTime DEF IInv
    <2>2. CASE m # n
        <3>1. m \in nodes /\ m \in Ids /\ ~Terminal(status, m)
            BY <2>2, <1>2, <1>4, <1>6 DEF Terminal
        <3>2. root'[m] = root[m] /\ root[m] < n
            BY <2>2, <3>1, <1>4 DEF IInv, IdsFit
        <3>3. root[m] # n /\ root[m] \in nodes /\ root[m] \in Ids
            BY <3>2, <1>2, <1>3
        <3> QED
            BY <3>1, <3>2, <3>3, <1>4 DEF IInv, HardCapHolds, Active
    <2> QED
        BY <2>1, <2>2
<1> QED
    BY <1>7, <1>8, <1>9, <1>10, <1>11, <1>12, <1>13, <1>14, <1>15 DEF IInv

LEMMA EnqueueFirstSound ==
    ASSUME IInv, NEW b \in Addrs, NEW a \in Addrs, EnqueueFirst(b, a)
    PROVE  IInv'
<1> DEFINE p == next
           n == next + 1
<1>1. /\ n <= MaxNodes
      /\ next' = n + 1
      /\ nodes' \subseteq nodes \cup {p, n}
      /\ parent' = [parent EXCEPT ![n] = p]
      /\ root' = [root EXCEPT ![p] = p, ![n] = p]
      /\ addr' = [addr EXCEPT ![p] = b, ![n] = a]
      /\ status' = [status EXCEPT ![n] = "queued"]
      /\ createdAt' = [createdAt EXCEPT ![p] = now, ![n] = now]
      /\ reported' = [reported EXCEPT ![p] = TRUE]
      /\ gen' = [gen EXCEPT ![b] = p]
      /\ UNCHANGED <<executions, startedAt, shown, executing, had, clock,
                     live, capable, turns, ticking, world>>
    BY DEF EnqueueFirst
<1>2. /\ nodes \subseteq Ids /\ executing \subseteq Ids
      /\ parent \in [Ids -> 0..MaxNodes] /\ root \in [Ids -> 0..MaxNodes] /\ addr \in [Ids -> Addrs]
      /\ status \in [Ids -> Statuses] /\ createdAt \in [Ids -> Nat] /\ gen \in [Addrs -> 0..MaxNodes]
      /\ reported \in [Ids -> BOOLEAN] /\ now \in Nat
      /\ next \in 1..(MaxNodes + 1) /\ MaxNodes \in Nat /\ HardCap \in Nat
    BY Constants DEF IInv, TypeOK
<1>3. p \in Ids /\ n \in Ids /\ p \in Nat /\ n \in Nat /\ p # n /\ p < n /\ None \notin Ids
    BY <1>1, <1>2 DEF Ids, None
<1>4. \A m \in Ids : m # n /\ m # p =>
          /\ parent'[m] = parent[m] /\ root'[m] = root[m] /\ addr'[m] = addr[m]
          /\ status'[m] = status[m] /\ createdAt'[m] = createdAt[m] /\ reported'[m] = reported[m]
    BY <1>1, <1>2
<1>5. /\ parent'[n] = p /\ root'[n] = p /\ addr'[n] = a /\ status'[n] = "queued" /\ createdAt'[n] = now
      /\ parent'[p] = None /\ root'[p] = p /\ addr'[p] = b /\ status'[p] = "source" /\ createdAt'[p] = now
    BY <1>1, <1>2, <1>3 DEF IInv, IdsFit
<1>6. \A m \in nodes \cup executing : m < p /\ m # n /\ m # p /\ m \in Ids
    BY <1>2, <1>3 DEF IInv, IdsFit, Ids
<1>7. TypeOK'
    <2>1. nodes' \subseteq Ids /\ next' \in 1..(MaxNodes + 1)
        BY <1>1, <1>2, <1>3
    <2>2. p \in 0..MaxNodes /\ "queued" \in Statuses
        BY <1>2, <1>3 DEF Statuses, Ids
    <2>3. /\ parent' \in [Ids -> 0..MaxNodes] /\ root' \in [Ids -> 0..MaxNodes]
          /\ addr' \in [Ids -> Addrs] /\ status' \in [Ids -> Statuses] /\ createdAt' \in [Ids -> Nat]
        BY <1>1, <1>2, <2>2
    <2>4. gen' \in [Addrs -> 0..MaxNodes] /\ reported' \in [Ids -> BOOLEAN]
        BY <1>1, <1>2, <2>2
    <2> QED
        BY <1>1, <2>1, <2>3, <2>4 DEF IInv, TypeOK, clock, ticking, world
<1>8. CursorFits'
    BY <1>1 DEF IInv, EnqueueFirst, CursorFits, ticking
<1>9. IdsFit'
    <2>1. ASSUME NEW m \in nodes'
          PROVE  m < n + 1 /\ parent'[m] < n + 1 /\ root'[m] < n + 1
        <3>1. CASE m = n \/ m = p
            BY <3>1, <1>3, <1>5 DEF None
        <3>2. CASE m # n /\ m # p
            <4>1. m \in nodes /\ m \in Ids
                BY <3>2, <1>1, <1>6
            <4>2. m < p /\ parent[m] < p /\ root[m] < p /\ m \in Nat /\ parent[m] \in Nat /\ root[m] \in Nat
                BY <4>1, <1>2 DEF IInv, IdsFit, Ids
            <4> QED
                BY <3>2, <4>1, <4>2, <1>3, <1>4
        <3> QED
            BY <3>1, <3>2
    <2>2. ASSUME NEW m \in executing PROVE m < n + 1
        BY <1>3, <1>6 DEF Ids
    <2>3. ASSUME NEW c \in Addrs PROVE gen'[c] < n + 1
        <3>1. gen[c] < p /\ gen[c] \in Nat
            BY <1>2 DEF IInv, IdsFit
        <3>2. gen'[c] = IF c = b THEN p ELSE gen[c]
            BY <1>1, <1>2
        <3> QED
            BY <3>1, <3>2, <1>3
    <2>4. ASSUME NEW m \in Ids, m >= n + 1
          PROVE  status'[m] = "source" /\ parent'[m] = None
        <3>1. m >= p /\ m # n /\ m # p
            BY <1>3, <2>4 DEF Ids
        <3> QED
            BY <3>1, <1>4 DEF IInv, IdsFit
    <2> QED
        BY <1>1, <2>1, <2>2, <2>3, <2>4 DEF IdsFit
<1>10. SinceFits' /\ ReportedOnce'
    BY <1>1 DEF IInv, SinceFits, ReportedOnce, clock, world
<1>11. RunsFit'
    BY <1>1, <1>4, <1>6 DEF IInv, RunsFit, Terminal
<1>12. SourcesFit'
    <2> SUFFICES ASSUME NEW c \in Addrs, gen'[c] \in nodes'
                 PROVE  addr'[gen'[c]] = c /\ (status'[gen'[c]] = "source" \/ Terminal(status', gen'[c]))
        BY DEF SourcesFit
    <2>1. CASE c = b
        <3>1. gen'[c] = p
            BY <1>1, <1>2, <2>1
        <3> QED
            BY <2>1, <3>1, <1>5
    <2>2. CASE c # b
        <3>1. gen'[c] = gen[c] /\ gen[c] < p /\ gen[c] \in Nat
            BY <1>1, <1>2, <2>2 DEF IInv, IdsFit
        <3>2. gen[c] # n /\ gen[c] # p
            BY <3>1, <1>3
        <3>3. gen[c] \in nodes /\ gen[c] \in Ids
            BY <3>1, <3>2, <1>1, <1>2
        <3> QED
            BY <3>1, <3>2, <3>3, <1>4 DEF IInv, SourcesFit, Terminal
    <2> QED
        BY <2>1, <2>2
<1>13. ReadyFits'
    <2> SUFFICES ASSUME NEW m \in nodes', NEW c \in nodes', parent'[c] = m
                 PROVE  /\ status'[m] # "queued"
                        /\ status'[m] = "resume" => Terminal(status', c) /\ reported'[c]
        BY DEF ReadyFits
    <2>1. m \in Ids /\ c \in Ids
        BY <1>7 DEF TypeOK
    <2>2. CASE c = n
        BY <2>2, <1>5
    <2>3. CASE c = p
        BY <2>1, <2>3, <1>3, <1>5
    <2>4. CASE c # n /\ c # p
        <3>1. c \in nodes /\ parent[c] = m /\ parent[c] < p
            BY <2>1, <2>4, <1>1, <1>4 DEF IInv, IdsFit
        <3>2. m \in nodes /\ m # n /\ m # p
            BY <3>1, <1>1, <1>3
        <3> QED
            BY <2>1, <2>4, <3>1, <3>2, <1>4 DEF IInv, ReadyFits, Terminal
    <2> QED
        BY <2>2, <2>3, <2>4
<1>14. TurnsNeverOverlap'
    <2>1. \A m \in executing : addr'[m] = addr[m]
        BY <1>4, <1>6
    <2>2. executing' = executing /\ live' = live
        BY <1>1
    <2> QED
        BY <2>1, <2>2 DEF IInv, TurnsNeverOverlap, Clash, Direct
<1>15. HardCapHolds'
    <2> SUFFICES ASSUME NEW m \in nodes', ~Terminal(status', m), root'[m] \in nodes'
                 PROVE  now <= createdAt'[root'[m]] + HardCap
        BY <1>1 DEF HardCapHolds, Active, world
    <2>1. CASE m = n \/ m = p
        BY <2>1, <1>2, <1>5
    <2>2. CASE m # n /\ m # p
        <3>1. m \in nodes /\ m \in Ids /\ ~Terminal(status, m)
            BY <2>2, <1>1, <1>4, <1>6 DEF Terminal
        <3>2. root'[m] = root[m] /\ root[m] < p
            BY <2>2, <3>1, <1>4 DEF IInv, IdsFit
        <3>3. root[m] # n /\ root[m] # p /\ root[m] \in nodes /\ root[m] \in Ids
            BY <3>2, <1>1, <1>2, <1>3
        <3> QED
            BY <3>1, <3>2, <3>3, <1>4 DEF IInv, HardCapHolds, Active
    <2> QED
        BY <2>1, <2>2
<1> QED
    BY <1>7, <1>8, <1>9, <1>10, <1>11, <1>12, <1>13, <1>14, <1>15 DEF IInv

-----------------------------------------------------------------------------
(* Answers of runs. *)

\* One node goes on or settles; a node is ready only with every result.
LEMMA OneMoves ==
    ASSUME IInv, NEW n \in Ids, NEW s \in Statuses \ {"source", "queued"},
           n < next, status[n] \in {"queued", "running", "waiting", "resume"},
           status' = [status EXCEPT ![n] = s],
           s = "resume" => \A c \in nodes : parent[c] = n => Terminal(status, c) /\ reported[c],
           executing' \subseteq executing \cup {n},
           n \in executing' => s = "running" \/ s \in TerminalStatuses,
           UNCHANGED <<tree, reported, gen, now>>
    PROVE  NodesFit' /\ HardCapHolds'
<1>1. /\ nodes \subseteq Ids /\ executing \subseteq Ids /\ status \in [Ids -> Statuses] /\ next \in Nat
      /\ gen \in [Addrs -> 0..MaxNodes] /\ None \notin Ids
      /\ UNCHANGED <<nodes, next, parent, root, addr, createdAt, reported, gen, now>>
    <2>1. /\ nodes \subseteq Ids /\ executing \subseteq Ids /\ status \in [Ids -> Statuses]
          /\ gen \in [Addrs -> 0..MaxNodes] /\ next \in 1..(MaxNodes + 1)
        BY DEF IInv, TypeOK
    <2>2. next \in Nat /\ None \notin Ids
        BY <2>1, Constants DEF Ids, None
    <2> QED
        BY <2>1, <2>2 DEF tree
<1>2. \A m \in Ids : status'[m] = IF m = n THEN s ELSE status[m]
    BY <1>1
<1>3. /\ ~Terminal(status, n)
      /\ \A m \in Ids : Terminal(status, m) => m # n /\ Terminal(status', m)
      /\ \A m \in Ids : ~Terminal(status', m) => ~Terminal(status, m)
    BY <1>2 DEF Terminal, TerminalStatuses
<1>4. IdsFit'
    <2>1. \A m \in Ids : m >= next => m # n
        BY <1>1 DEF Ids
    <2> QED
        BY <1>1, <1>2, <2>1 DEF IInv, IdsFit
<1>5. RunsFit'
    BY <1>1, <1>2, <1>3 DEF IInv, RunsFit, Terminal
<1>6. SourcesFit'
    <2> SUFFICES ASSUME NEW b \in Addrs, gen[b] \in nodes
                 PROVE  addr[gen[b]] = b /\ (status'[gen[b]] = "source" \/ Terminal(status', gen[b]))
        BY <1>1 DEF SourcesFit
    <2>1. addr[gen[b]] = b /\ (status[gen[b]] = "source" \/ Terminal(status, gen[b])) /\ gen[b] \in Ids
        BY <1>1 DEF IInv, SourcesFit
    <2> QED
        BY <2>1, <1>2, <1>3
<1>7. ReadyFits'
    <2> SUFFICES ASSUME NEW m \in nodes
                 PROVE  /\ status'[m] = "queued" => \A c \in nodes : parent[c] # m
                        /\ status'[m] = "resume" =>
                              \A c \in nodes : parent[c] = m => Terminal(status', c) /\ reported[c]
        BY <1>1 DEF ReadyFits
    <2>1. CASE m = n
        BY <2>1, <1>1, <1>2, <1>3
    <2>2. CASE m # n
        BY <2>2, <1>1, <1>2, <1>3 DEF IInv, ReadyFits
    <2> QED
        BY <2>1, <2>2
<1>8. HardCapHolds'
    <2>1. \A m \in Active' : m \in Active
        BY <1>1, <1>3 DEF Active
    <2> QED
        BY <1>1, <2>1 DEF IInv, HardCapHolds
<1> QED
    BY <1>4, <1>5, <1>6, <1>7, <1>8 DEF NodesFit

LEMMA RunReturnsSound ==
    ASSUME IInv, NEW n \in Ids, NEW ok \in BOOLEAN, RunReturns(n, ok)
    PROVE  IInv'
<1>1. /\ n \in executing /\ executing' = executing \ {n} /\ had' = [had EXCEPT ![n] = 0]
      /\ UNCHANGED <<tree, reported, executions, startedAt, shown, people, ticking, world>>
    BY DEF RunReturns
<1>2. TurnsNeverOverlap'
    BY <1>1, OverlapKept DEF IInv, tree, people
<1>3. (CursorFits /\ ReportedOnce)'
    BY <1>1 DEF IInv, CursorFits, ReportedOnce, tree, ticking
<1>4. had' \in [Ids -> Nat] /\ executing' \subseteq Ids
    BY <1>1 DEF IInv, TypeOK
<1>5. CASE Terminal(status, n)
    <2>1. UNCHANGED <<status, clock>>
        BY <1>5 DEF RunReturns
    <2>2. TypeOK'
        BY <1>1, <1>4, <2>1 DEF IInv, TypeOK, tree, clock, people, ticking, world
    <2>3. NodesFit' /\ HardCapHolds'
        BY <1>1, <2>1, NothingSettles, SettlingSound DEF people, world
    <2>4. SinceFits'
        BY <1>1, <2>1 DEF IInv, SinceFits, clock, world
    <2> QED
        BY <1>2, <1>3, <2>2, <2>3, <2>4 DEF IInv, NodesFit
<1>6. CASE ~Terminal(status, n)
    <2> DEFINE s == IF Cardinality(Children(n)) > had[n] THEN "waiting"
                    ELSE IF ok THEN "completed" ELSE "failed"
    <2>1. status' = [status EXCEPT ![n] = s] /\ TrackPauses(status')
        BY <1>6 DEF RunReturns
    <2>2. s \in Statuses \ {"source", "queued"} /\ s # "resume"
        BY DEF Statuses, TerminalStatuses
    <2> HIDE DEF s
    <2>3. status[n] = "running" /\ n < next
        BY <1>1, <1>6 DEF IInv, RunsFit, IdsFit
    <2>4. NodesFit' /\ HardCapHolds'
        BY <1>1, <2>1, <2>2, <2>3, OneMoves DEF people, world
    <2>5. /\ acc' \in [Ids -> Nat] /\ since' \in [Ids -> Nat \cup {NotPaused}]
          /\ \A r \in Ids : since'[r] <= now
        BY <2>1, PausesFit DEF IInv
    <2>6. status' \in [Ids -> Statuses]
        BY <2>1, <2>2 DEF IInv, TypeOK
    <2>7. TypeOK' /\ SinceFits'
        BY <1>1, <1>4, <2>5, <2>6 DEF IInv, TypeOK, SinceFits, tree, people, ticking, world
    <2> QED
        BY <1>2, <1>3, <2>4, <2>7 DEF IInv, NodesFit
<1> QED
    BY <1>5, <1>6

-----------------------------------------------------------------------------
(* The tick. *)

LEMMA TickBeginsSound == ASSUME IInv, TickBegins PROVE IInv'
<1>1. /\ nodes # {} /\ TrackPauses(status) /\ stage' = "sweep" /\ cursor' = Max(nodes)
      /\ UNCHANGED <<tree, status, reported, executions, startedAt, shown, executing, had, people, world>>
    BY DEF TickBegins
<1>2. cursor' \in nodes /\ cursor' \in 0..MaxNodes
    <2>1. nodes \subseteq Ids /\ Ids \subseteq 0..MaxNodes
        BY Constants DEF IInv, TypeOK, Ids
    <2>2. Max(nodes) \in nodes
        BY <1>1, <2>1, MaxOfNodes
    <2> QED
        BY <1>1, <2>1, <2>2
<1>3. /\ acc' \in [Ids -> Nat] /\ since' \in [Ids -> Nat \cup {NotPaused}]
      /\ \A r \in Ids : since'[r] <= now
    BY <1>1, PausesFit DEF IInv
<1>4. TypeOK'
    BY <1>1, <1>2, <1>3 DEF IInv, TypeOK, tree, people, world
<1>5. NodesFit' /\ HardCapHolds' /\ TurnsNeverOverlap'
    BY <1>1, NothingSettles, SettlingSound, OverlapKept DEF IInv, tree, people, world
<1>6. (CursorFits /\ SinceFits /\ ReportedOnce)'
    BY <1>1, <1>2, <1>3 DEF IInv, CursorFits, SinceFits, ReportedOnce, tree, world
<1> QED
    BY <1>4, <1>5, <1>6 DEF IInv, NodesFit

\* A step of the tick that cancels.
LEMMA CancelAndMove ==
    ASSUME IInv, NEW n, NEW how \in TerminalStatuses, Cancel(Swept(n), how),
           nodes # {}, SweepOn \/ VisitOn,
           UNCHANGED <<tree, reported, executions, startedAt, shown, executing, had, people, world>>
    PROVE  IInv'
<1>1. status' \in [Ids -> Statuses] /\ SettlesOnly
    BY SweptAreActive, CancelSettles DEF IInv, Cancel
<1>2. /\ acc' \in [Ids -> Nat] /\ since' \in [Ids -> Nat \cup {NotPaused}]
      /\ \A r \in Ids : since'[r] <= now
    BY PausesFit DEF IInv, Cancel
<1>3. /\ stage' \in {"idle", "sweep", "visit", "reported"} /\ cursor' \in 0..MaxNodes
      /\ CursorFits'
    BY MovesOn DEF IInv, tree
<1>4. TypeOK'
    BY <1>1, <1>2, <1>3 DEF IInv, TypeOK, tree, people, world
<1>5. NodesFit' /\ HardCapHolds' /\ TurnsNeverOverlap'
    BY <1>1, SettlingSound, OverlapKept DEF IInv, tree, people, world
<1>6. (SinceFits /\ ReportedOnce)'
    BY <1>2 DEF IInv, SinceFits, ReportedOnce, world
<1> QED
    BY <1>3, <1>4, <1>5, <1>6 DEF IInv, NodesFit

\* A step of the tick that changes nothing else, or gives the tick up.
LEMMA OnlyMove ==
    ASSUME IInv, (nodes # {} /\ (SweepOn \/ VisitOn)) \/ (stage' = "idle" /\ cursor' = 0),
           reported' \in [Ids -> BOOLEAN], \A n \in Ids : reported[n] => reported'[n],
           UNCHANGED <<tree, status, executions, startedAt, shown, executing, had, clock, people, world>>
    PROVE  IInv'
<1>1. /\ stage' \in {"idle", "sweep", "visit", "reported"} /\ cursor' \in 0..MaxNodes
      /\ CursorFits'
    <2>1. CASE nodes # {} /\ (SweepOn \/ VisitOn)
        BY <2>1, MovesOn DEF IInv, tree
    <2>2. CASE stage' = "idle" /\ cursor' = 0
        BY <2>2, Constants DEF CursorFits
    <2> QED
        BY <2>1, <2>2
<1>2. TypeOK'
    BY <1>1 DEF IInv, TypeOK, tree, clock, people, world
<1>3. NodesFit' /\ HardCapHolds' /\ TurnsNeverOverlap'
    BY NothingSettles, SettlingSound, OverlapKept DEF IInv, tree, people, world
<1>4. (SinceFits /\ ReportedOnce)'
    BY DEF IInv, SinceFits, ReportedOnce, clock, world
<1> QED
    BY <1>1, <1>2, <1>3, <1>4 DEF IInv, NodesFit

LEMMA SweepSound == ASSUME IInv, Sweep PROVE IInv'
<1> DEFINE n == cursor
<1>0. /\ stage = "sweep" /\ nodes # {}
      /\ UNCHANGED <<tree, reported, executions, startedAt, shown, executing, had, people, world>>
    BY DEF Sweep, IInv, CursorFits
<1>1. CASE n \in Active /\ root[n] \notin nodes
    <2>1. stage' = "idle" /\ cursor' = 0 /\ UNCHANGED <<status, clock>>
        BY <1>1 DEF Sweep
    <2> QED
        BY <1>0, <2>1, OnlyMove DEF IInv, TypeOK
<1>2. CASE ~(n \in Active /\ root[n] \notin nodes)
    <2>1. SweepOn
        BY <1>2 DEF Sweep
    <2>2. CASE n \in Active /\ (Problem(n) \/ Expired(n))
        <3>1. Cancel(Swept(n), "failed")
            BY <1>2, <2>2 DEF Sweep
        <3> QED
            BY <1>0, <2>1, <3>1, CancelAndMove DEF TerminalStatuses
    <2>3. CASE ~(n \in Active /\ (Problem(n) \/ Expired(n)))
        <3>1. UNCHANGED <<status, clock>>
            BY <1>2, <2>3 DEF Sweep
        <3> QED
            BY <1>0, <2>1, <3>1, OnlyMove DEF IInv, TypeOK
    <2> QED
        BY <2>2, <2>3
<1> QED
    BY <1>1, <1>2

LEMMA ReportSound == ASSUME IInv, Report PROVE IInv'
<1> DEFINE n == cursor
<1>1. /\ stage = "visit" /\ stage' = "reported"
      /\ shown' = IF Reports(n) THEN [shown EXCEPT ![n] = @ + 1] ELSE shown
      /\ UNCHANGED <<tree, status, reported, executions, startedAt, executing, had,
                     clock, people, cursor, world>>
    BY DEF Report
<1>2. n \in Ids /\ n \in nodes /\ shown \in [Ids -> Nat]
    BY <1>1 DEF IInv, CursorFits, TypeOK
<1>3. shown' \in [Ids -> Nat] /\ ReportedOnce'
    BY <1>1, <1>2 DEF IInv, ReportedOnce, Reports
<1>4. TypeOK'
    BY <1>1, <1>3 DEF IInv, TypeOK, tree, clock, people, world
<1>5. NodesFit' /\ HardCapHolds' /\ TurnsNeverOverlap'
    BY <1>1, NothingSettles, SettlingSound, OverlapKept DEF IInv, tree, people, world
<1>6. (CursorFits /\ SinceFits)'
    BY <1>1, <1>2 DEF IInv, CursorFits, SinceFits, tree, clock, world
<1> QED
    BY <1>3, <1>4, <1>5, <1>6 DEF IInv, NodesFit

LEMMA ReportSavedSound == ASSUME IInv, ReportSaved PROVE IInv'
<1>1. /\ stage = "reported" /\ VisitOn /\ reported' = [reported EXCEPT ![cursor] = TRUE]
      /\ UNCHANGED <<tree, status, executions, startedAt, shown, executing, had, clock, people, world>>
    BY DEF ReportSaved
<1>2. nodes # {} /\ reported \in [Ids -> BOOLEAN]
    BY <1>1 DEF IInv, CursorFits, TypeOK
<1>3. reported' \in [Ids -> BOOLEAN] /\ \A n \in Ids : reported[n] => reported'[n]
    BY <1>1, <1>2
<1> QED
    BY <1>1, <1>2, <1>3, OnlyMove

LEMMA PassSound == ASSUME IInv, Pass PROVE IInv'
<1>1. /\ stage = "visit" /\ VisitOn
      /\ UNCHANGED <<tree, status, reported, executions, startedAt, shown, executing, had, clock, people, world>>
    BY DEF Pass
<1>2. nodes # {} /\ reported \in [Ids -> BOOLEAN]
    BY <1>1 DEF IInv, CursorFits, TypeOK
<1> QED
    BY <1>1, <1>2, OnlyMove

LEMMA DropsSound == ASSUME IInv, DropOrphan \/ OverBudget PROVE IInv'
<1>1. /\ stage = "visit" /\ VisitOn
      /\ Cancel(Swept(cursor), "cancelled") \/ Cancel(Swept(cursor), "failed")
      /\ UNCHANGED <<tree, reported, executions, startedAt, shown, executing, had, people, world>>
    BY DEF DropOrphan, OverBudget
<1>2. nodes # {} /\ {"cancelled", "failed"} \subseteq TerminalStatuses
    BY <1>1 DEF IInv, CursorFits, TerminalStatuses
<1> QED
    BY <1>1, <1>2, CancelAndMove

LEMMA ResumeSound == ASSUME IInv, Resume PROVE IInv'
<1> DEFINE n == cursor
<1>1. /\ stage = "visit" /\ status[n] = "waiting" /\ Returned(n)
      /\ status' = [status EXCEPT ![n] = "resume"]
      /\ UNCHANGED <<tree, reported, executions, startedAt, shown, executing, had,
                     clock, people, ticking, world>>
    BY DEF Resume
<1>2. n \in nodes /\ n \in Ids /\ n < next
    BY <1>1 DEF IInv, CursorFits, TypeOK, IdsFit
<1>3. \A c \in nodes : parent[c] = n => Terminal(status, c) /\ reported[c]
    BY <1>1 DEF Returned, Children
<1>4. n \notin executing'
    BY <1>1 DEF IInv, RunsFit, Terminal, TerminalStatuses
<1>5. "resume" \in Statuses \ {"source", "queued"}
    BY DEF Statuses
<1>6. NodesFit' /\ HardCapHolds'
    BY <1>1, <1>2, <1>3, <1>4, <1>5, OneMoves DEF people, world
<1>7. TypeOK'
    BY <1>1, <1>5 DEF IInv, TypeOK, tree, clock, people, ticking, world
<1>8. TurnsNeverOverlap'
    BY <1>1, OverlapKept DEF IInv, tree, people
<1>9. (CursorFits /\ SinceFits /\ ReportedOnce)'
    BY <1>1 DEF IInv, CursorFits, SinceFits, ReportedOnce, tree, clock, ticking, world
<1> QED
    BY <1>6, <1>7, <1>8, <1>9 DEF IInv, NodesFit

\* A start claims its node where nobody else speaks.
LEMMA ClaimSound ==
    ASSUME IInv, NEW n \in nodes, Ready(n), ~Busy(addr[n]), Claim(n),
           executing' = executing \/ executing' = executing \cup {n},
           had' = had \/ had' = [had EXCEPT ![n] = Cardinality(Children(n))],
           (nodes # {} /\ (SweepOn \/ VisitOn)) \/ (stage' = "idle" /\ cursor' = 0),
           UNCHANGED <<tree, reported, shown, people, world>>
    PROVE  IInv'
<1>1. /\ status' = [status EXCEPT ![n] = "running"]
      /\ startedAt' = [startedAt EXCEPT ![n] = now]
      /\ executions' = [executions EXCEPT ![root[n]] = @ + 1]
      /\ since' = [since EXCEPT ![root[n]] = IF @ = NotPaused THEN now ELSE @]
      /\ acc' = acc
      /\ status[n] \in {"queued", "resume"}
    BY DEF Claim, Ready
<1>2. n \in Ids /\ n < next /\ "running" \in Statuses \ {"source", "queued"}
    BY DEF IInv, TypeOK, IdsFit, Statuses
<1>3. NodesFit' /\ HardCapHolds'
    BY <1>1, <1>2, OneMoves DEF people, world
<1>4. /\ stage' \in {"idle", "sweep", "visit", "reported"} /\ cursor' \in 0..MaxNodes
      /\ CursorFits'
    <2>1. CASE nodes # {} /\ (SweepOn \/ VisitOn)
        BY <2>1, MovesOn DEF IInv, tree
    <2>2. CASE stage' = "idle" /\ cursor' = 0
        BY <2>2, Constants DEF CursorFits
    <2> QED
        BY <2>1, <2>2
<1>5. /\ status' \in [Ids -> Statuses] /\ startedAt' \in [Ids -> Nat]
    BY <1>1, <1>2 DEF IInv, TypeOK
<1>6. executions' \in [Ids -> Nat]
    <2>1. executions \in [Ids -> Nat]
        BY DEF IInv, TypeOK
    <2>2. executions' = [r \in Ids |-> IF r = root[n] THEN executions[r] + 1 ELSE executions[r]]
        BY <1>1, <2>1
    <2> QED
        BY <2>1, <2>2
<1>7. /\ since' \in [Ids -> Nat \cup {NotPaused}] /\ SinceFits'
    <2>1. /\ since \in [Ids -> Nat \cup {NotPaused}] /\ now \in Nat /\ now' = now
          /\ \A r \in Ids : since[r] <= now
        BY DEF IInv, TypeOK, SinceFits, world
    <2>2. since' = [r \in Ids |-> IF r = root[n] /\ since[r] = NotPaused THEN now ELSE since[r]]
        BY <1>1, <2>1
    <2> QED
        BY <2>1, <2>2 DEF SinceFits
<1>8. had' \in [Ids -> Nat] /\ executing' \subseteq Ids
    <2>1. Cardinality(Children(n)) \in Nat
        BY ChildrenAreCounted DEF IInv, TypeOK
    <2> QED
        BY <1>2, <2>1 DEF IInv, TypeOK
<1>9. TypeOK'
    BY <1>1, <1>4, <1>5, <1>6, <1>7, <1>8 DEF IInv, TypeOK, tree, people, world
<1>10. TurnsNeverOverlap'
    <2>1. /\ addr \in [Ids -> Addrs] /\ executing \subseteq Ids /\ live \subseteq Addrs
        BY DEF IInv, TypeOK
    <2>2. /\ \A m \in executing : ~Clash(addr[n], addr[m])
          /\ \A a \in live : ~Clash(addr[n], a)
        BY DEF Busy, Occupied
    <2>3. \A m \in executing : ~Clash(addr[m], addr[n])
        BY <1>2, <2>1, <2>2, ClashIsMutual
    <2>4. executing' \subseteq executing \cup {n} /\ live' = live /\ addr' = addr
        BY DEF people, tree
    <2> QED
        BY <2>2, <2>3, <2>4 DEF IInv, TurnsNeverOverlap, Clash, Direct
<1>11. ReportedOnce'
    BY DEF IInv, ReportedOnce
<1> QED
    BY <1>3, <1>4, <1>7, <1>9, <1>10, <1>11 DEF IInv, NodesFit

LEMMA StartsSound == ASSUME IInv, Start \/ StartUnsaved PROVE IInv'
<1>1. cursor \in nodes
    BY DEF Start, StartUnsaved, IInv, CursorFits
<1>2. CASE Start
    BY <1>1, <1>2, ClaimSound DEF Start
<1>3. CASE StartUnsaved
    BY <1>1, <1>3, ClaimSound DEF StartUnsaved
<1> QED
    BY <1>2, <1>3

-----------------------------------------------------------------------------
(* Time and crashes. *)

\* Time passes only when the sweep has failed what was past its cap.
LEMMA AdvanceSound == ASSUME IInv, Advance PROVE IInv'
<1>1. /\ \A n \in Active : root[n] \in nodes => ~Expired(n)
      /\ now' = now + 1
      /\ UNCHANGED <<tree, status, reported, executions, startedAt, shown, executing, had,
                     clock, people, ticking, crashes, revoked, deleted>>
    BY DEF Advance
<1>2. now \in Nat /\ HardCap \in Nat /\ createdAt \in [Ids -> Nat] /\ nodes \subseteq Ids
    BY Constants DEF IInv, TypeOK
<1>3. TypeOK'
    BY <1>1, <1>2 DEF IInv, TypeOK, tree, clock, people, ticking
<1>4. NodesFit'
    BY <1>1, NothingSettles, SettlingSound DEF tree, people
<1>5. HardCapHolds'
    <2>1. ASSUME NEW n \in Active, root[n] \in nodes
          PROVE  now + 1 <= createdAt[root[n]] + HardCap
        <3>1. ~(now >= createdAt[root[n]] + HardCap)
            BY <1>1, <2>1 DEF Expired, HardCapped
        <3>2. createdAt[root[n]] \in Nat
            BY <1>2, <2>1
        <3> QED
            BY <1>2, <3>1, <3>2
    <2> QED
        BY <1>1, <2>1 DEF HardCapHolds, Active, Terminal, tree
<1>6. SinceFits'
    BY <1>1, <1>2 DEF IInv, TypeOK, SinceFits, clock, NotPaused
<1>7. (CursorFits /\ ReportedOnce /\ TurnsNeverOverlap)'
    BY <1>1, OverlapKept DEF IInv, CursorFits, ReportedOnce, tree, people, ticking
<1> QED
    BY <1>3, <1>4, <1>5, <1>6, <1>7 DEF IInv, NodesFit

LEMMA CrashSound == ASSUME IInv, Crash PROVE IInv'
<1>1. /\ crashes' = crashes + 1
      /\ status' = [n \in Ids |-> IF n \in Active THEN "failed" ELSE status[n]]
      /\ executing' = {}
      /\ acc' = [n \in Ids |-> 0] /\ since' = [n \in Ids |-> NotPaused]
      /\ live' = {} /\ capable' = {}
      /\ stage' = "idle" /\ cursor' = 0
      /\ had' = [n \in Ids |-> 0] /\ gen' = [a \in Addrs |-> None]
      /\ UNCHANGED <<tree, reported, executions, startedAt, shown, turns, now, revoked, deleted>>
    BY DEF Crash
<1>2. SettlesOnly /\ status' \in [Ids -> Statuses]
    BY <1>1 DEF IInv, TypeOK, SettlesOnly, TerminalStatuses, Statuses
<1>3. TypeOK'
    BY <1>1, <1>2, Constants DEF IInv, TypeOK, tree, None
<1>4. NodesFit' /\ HardCapHolds'
    BY <1>1, <1>2, SettlingSound
<1>5. (CursorFits /\ SinceFits /\ ReportedOnce /\ TurnsNeverOverlap)'
    BY <1>1 DEF IInv, TypeOK, CursorFits, SinceFits, ReportedOnce, TurnsNeverOverlap, NotPaused
<1> QED
    BY <1>3, <1>4, <1>5 DEF IInv, NodesFit

LEMMA StutterSound == ASSUME IInv, UNCHANGED vars PROVE IInv'
<1>1. NodesFit' /\ HardCapHolds'
    BY NothingSettles, SettlingSound DEF IInv, vars, people, world
<1>2. TypeOK'
    BY DEF IInv, TypeOK, vars, tree, clock, people, ticking, world
<1>3. (CursorFits /\ SinceFits /\ ReportedOnce /\ TurnsNeverOverlap)'
    BY OverlapKept DEF IInv, CursorFits, SinceFits, ReportedOnce, vars, tree, clock, people, ticking, world
<1> QED
    BY <1>1, <1>2, <1>3 DEF IInv, NodesFit

-----------------------------------------------------------------------------
(* The invariant. *)

LEMMA InitSound == Init => IInv
<1> SUFFICES ASSUME Init PROVE IInv
    OBVIOUS
<1>1. addr \in [Ids -> Addrs]
    BY Constants DEF Init
<1>2. TypeOK
    BY <1>1, Constants DEF Init, TypeOK, Statuses, None, NotPaused
<1>3. CursorFits /\ IdsFit /\ SinceFits /\ RunsFit /\ SourcesFit /\ ReadyFits
    BY DEF Init, CursorFits, IdsFit, SinceFits, RunsFit, SourcesFit, ReadyFits, None, NotPaused
<1>4. TurnsNeverOverlap /\ ReportedOnce /\ HardCapHolds
    BY DEF Init, TurnsNeverOverlap, ReportedOnce, HardCapHolds, Active
<1> QED
    BY <1>2, <1>3, <1>4 DEF IInv

LEMMA StepSound == IInv /\ [Next]_vars => IInv'
<1> SUFFICES ASSUME IInv, [Next]_vars PROVE IInv'
    OBVIOUS
<1>1. CASE \E a \in Addrs : TurnStarts(a)
    BY <1>1, TurnStartsSound
<1>2. CASE \E a \in Addrs : TurnSettles(a)
    BY <1>2, TurnSettlesSound
<1>3. CASE \E p \in Ids, a \in Addrs, rework \in BOOLEAN : Enqueue(p, a, rework)
    BY <1>3, EnqueueSound
<1>4. CASE \E a, b \in Addrs : EnqueueFirst(b, a)
    BY <1>4, EnqueueFirstSound
<1>5. CASE \E a \in Addrs : StopThread(a)
    BY <1>5, StopThreadSound
<1>6. CASE \E a \in Addrs : CancelPlace(a)
    BY <1>6, CancelPlaceSound
<1>7. CASE \E a \in Addrs : Revoke(a) \/ Reinstate(a)
    BY <1>7, RoutesSound
<1>8. CASE \E n \in Ids, ok \in BOOLEAN : RunReturns(n, ok)
    BY <1>8, RunReturnsSound
<1>9. CASE TickBegins \/ Sweep \/ Report \/ ReportSaved \/ Resume
    BY <1>9, TickBeginsSound, SweepSound, ReportSound, ReportSavedSound, ResumeSound
<1>10. CASE DropOrphan \/ OverBudget \/ Start \/ StartUnsaved \/ Pass
    BY <1>10, DropsSound, StartsSound, PassSound
<1>11. CASE Advance \/ Crash
    BY <1>11, AdvanceSound, CrashSound
<1>12. CASE UNCHANGED vars
    BY <1>12, StutterSound
<1> QED
    BY <1>1, <1>2, <1>3, <1>4, <1>5, <1>6, <1>7, <1>8, <1>9, <1>10, <1>11, <1>12 DEF Next

LEMMA Invariant == Spec => []IInv
BY InitSound, StepSound, PTL DEF Spec

-----------------------------------------------------------------------------
(* What a step does to one request. *)

SettledStep ==
    \A n \in nodes :
        /\ Terminal(status, n) => status'[n] = status[n]
        /\ status[n] = "queued" /\ status'[n] = "running" /\ HasParent(n) => ~Terminal(status, parent[n])

ResumedStep ==
    \A n \in nodes :
        status[n] # "running" /\ status'[n] = "running" =>
            \A c \in Children(n) : Terminal(status, c) /\ reported[c]

LEMMA SettlingSteps == ASSUME TypeOK, SettlesOnly PROVE SettledStep /\ ResumedStep
<1>1. \A n \in nodes : status'[n] = status[n] \/ (~Terminal(status, n) /\ Terminal(status', n))
    BY DEF TypeOK, SettlesOnly, Active, Terminal
<1>2. \A n : Terminal(status', n) => status'[n] # "running"
    BY DEF Terminal, TerminalStatuses
<1> QED
    BY <1>1, <1>2 DEF SettledStep, ResumedStep

\* A step that moves one node, which does not start.
LEMMA MovingSteps ==
    ASSUME TypeOK, NEW n, NEW s, s # "running", n \in nodes => ~Terminal(status, n),
           status' = [status EXCEPT ![n] = s]
    PROVE  SettledStep /\ ResumedStep
<1>1. \A m \in nodes : status'[m] = IF m = n THEN s ELSE status[m]
    BY DEF TypeOK
<1> QED
    BY <1>1 DEF SettledStep, ResumedStep

LEMMA StartSteps ==
    ASSUME IInv, NEW n \in nodes, Ready(n), ~Orphaned(n), Claim(n)
    PROVE  SettledStep /\ ResumedStep
<1>1. \A m \in nodes : status'[m] = IF m = n THEN "running" ELSE status[m]
    BY DEF IInv, TypeOK, Claim
<1>2. status[n] \in {"queued", "resume"} /\ ~Terminal(status, n)
    BY DEF Ready, Terminal, TerminalStatuses
<1>3. \A c \in Children(n) : Terminal(status, c) /\ reported[c]
    BY <1>2 DEF IInv, ReadyFits, Children
<1>4. status[n] = "queued" /\ HasParent(n) => ~Terminal(status, parent[n])
    BY DEF Orphaned
<1> QED
    BY <1>1, <1>2, <1>3, <1>4 DEF SettledStep, ResumedStep

LEMMA Steps == IInv /\ [Next]_vars => SettledStep /\ ResumedStep
<1> SUFFICES ASSUME IInv, [Next]_vars PROVE SettledStep /\ ResumedStep
    OBVIOUS
<1>0. TypeOK
    BY DEF IInv
<1>1. ASSUME status' = status PROVE SettledStep /\ ResumedStep
    BY <1>0, <1>1, NothingSettles, SettlingSteps
<1>2. ASSUME NEW swept, swept \subseteq Active, NEW how \in TerminalStatuses, Cancel(swept, how)
      PROVE  SettledStep /\ ResumedStep
    BY <1>0, <1>2, CancelSettles, SettlingSteps DEF Cancel
<1>3. CASE \E a \in Addrs : TurnStarts(a) \/ Revoke(a) \/ Reinstate(a)
    BY <1>1, <1>3 DEF TurnStarts, Revoke, Reinstate
<1>4. ASSUME NEW a \in Addrs, TurnSettles(a) PROVE SettledStep /\ ResumedStep
    <2>1. \/ status' = status
          \/ status[gen[a]] = "source" /\ status' = [status EXCEPT ![gen[a]] = "waiting"]
        BY <1>4 DEF TurnSettles
    <2>2. status[gen[a]] = "source" => ~Terminal(status, gen[a])
        BY DEF Terminal, TerminalStatuses
    <2> QED
        BY <1>0, <1>1, <2>1, <2>2, MovingSteps
<1>5. \A m : m \in Nat /\ m >= next => (m \in nodes => ~Terminal(status, m))
    BY DEF IInv, IdsFit, TypeOK
<1>6. CASE \E p \in Ids, a \in Addrs, rework \in BOOLEAN : Enqueue(p, a, rework)
    <2>1. status' = [status EXCEPT ![next] = "queued"]
        BY <1>6 DEF Enqueue, Added
    <2>2. next \in nodes => ~Terminal(status, next)
        BY <1>0, <1>5, Constants DEF TypeOK
    <2> QED
        BY <1>0, <2>1, <2>2, MovingSteps
<1>7. CASE \E a, b \in Addrs : EnqueueFirst(b, a)
    <2>1. status' = [status EXCEPT ![next + 1] = "queued"]
        BY <1>7 DEF EnqueueFirst
    <2>2. next + 1 \in nodes => ~Terminal(status, next + 1)
        BY <1>0, <1>5, Constants DEF TypeOK
    <2> QED
        BY <1>0, <2>1, <2>2, MovingSteps
<1>8. ASSUME NEW a \in Addrs, StopThread(a) PROVE SettledStep /\ ResumedStep
    <2>1. StoppedAt({a}) \subseteq Active
        BY DEF StoppedAt
    <2> QED
        BY <1>0, <1>8, <2>1, StopSettles, SettlingSteps DEF StopThread
<1>9. ASSUME NEW a \in Addrs, CancelPlace(a) PROVE SettledStep /\ ResumedStep
    <2> DEFINE here == {n \in Active : IF Direct(a) THEN addr[n] = a ELSE RoomOf[addr[n]] = RoomOf[a]}
    <2>1. UNION {Swept(n) : n \in here} \subseteq Active
        BY SweptAreActive
    <2>2. Cancel(UNION {Swept(n) : n \in here}, "cancelled")
        BY <1>9 DEF CancelPlace
    <2> QED
        BY <1>2, <2>1, <2>2 DEF TerminalStatuses
<1>10. ASSUME NEW n \in Ids, NEW ok \in BOOLEAN, RunReturns(n, ok) PROVE SettledStep /\ ResumedStep
    <2> DEFINE s == IF Cardinality(Children(n)) > had[n] THEN "waiting"
                    ELSE IF ok THEN "completed" ELSE "failed"
    <2>1. status' = status \/ (~Terminal(status, n) /\ status' = [status EXCEPT ![n] = s])
        BY <1>10 DEF RunReturns
    <2> QED
        BY <1>0, <1>1, <2>1, MovingSteps
<1>11. CASE Sweep
    <2>1. status' = status \/ Cancel(Swept(cursor), "failed")
        BY <1>11 DEF Sweep
    <2> QED
        BY <1>1, <1>2, <2>1, SweptAreActive DEF TerminalStatuses
<1>12. CASE Resume
    <2>1. status[cursor] = "waiting" /\ status' = [status EXCEPT ![cursor] = "resume"]
        BY <1>12 DEF Resume
    <2> QED
        BY <1>0, <2>1, MovingSteps DEF Terminal, TerminalStatuses
<1>13. CASE DropOrphan \/ OverBudget
    <2>1. Cancel(Swept(cursor), "cancelled") \/ Cancel(Swept(cursor), "failed")
        BY <1>13 DEF DropOrphan, OverBudget
    <2> QED
        BY <1>2, <2>1, SweptAreActive DEF TerminalStatuses
<1>14. CASE Start \/ StartUnsaved
    <2>1. cursor \in nodes
        BY <1>14 DEF Start, StartUnsaved, IInv, CursorFits
    <2> QED
        BY <1>14, <2>1, StartSteps DEF Start, StartUnsaved
<1>15. CASE TickBegins \/ Report \/ ReportSaved \/ Pass \/ Advance \/ UNCHANGED vars
    BY <1>1, <1>15 DEF TickBegins, Report, ReportSaved, Pass, Advance, vars
<1>16. CASE Crash
    <2>1. SettlesOnly
        BY <1>0, <1>16 DEF Crash, TypeOK, SettlesOnly, TerminalStatuses
    <2> QED
        BY <1>0, <2>1, SettlingSteps
<1> QED
    BY <1>3, <1>4, <1>6, <1>7, <1>8, <1>9, <1>10, <1>11, <1>12, <1>13, <1>14, <1>15, <1>16 DEF Next

-----------------------------------------------------------------------------
(* What the recursive searches of the tree find. *)

\* A request is made after the request it serves.
Below == \A m \in Ids : parent[m] < m

\* The answer H[m][f] of a search at m looks at the answers f of lower ranks only.
AsksBelow(D, H, rank) ==
    \A m \in D : \A f, g \in [D -> BOOLEAN] :
        (\A c \in D : rank[c] < rank[m] => f[c] = g[c]) => H[m][f] = H[m][g]

\* There are answers that fit one another.
Answered(D, H) == \E f \in [D -> BOOLEAN] : \A m \in D : f[m] = H[m][f]

\* A search that asks about lower ranks only has answers, so that the recursive
\* function which defines it computes them.
LEMMA SearchExists ==
    ASSUME NEW D, NEW rank \in [D -> Nat], NEW bound \in Nat, \A m \in D : rank[m] <= bound,
           NEW H \in [D -> [[D -> BOOLEAN] -> BOOLEAN]], AsksBelow(D, H, rank)
    PROVE  Answered(D, H)
<1> USE DEF AsksBelow
<1> DEFINE Fits(f, k) == f \in [D -> BOOLEAN] /\ \A m \in D : rank[m] < k => f[m] = H[m][f]
<1>1. \E f : Fits(f, 0)
    <2>1. \A m \in D : ~(rank[m] < 0)
        OBVIOUS
    <2>2. [m \in D |-> TRUE] \in [D -> BOOLEAN]
        OBVIOUS
    <2>3. Fits([m \in D |-> TRUE], 0)
        BY <2>1, <2>2
    <2> QED
        BY <2>3
<1>2. ASSUME NEW k \in Nat, NEW f, Fits(f, k) PROVE \E g : Fits(g, k + 1)
    <2> DEFINE g == [m \in D |-> IF rank[m] = k THEN H[m][f] ELSE f[m]]
    <2>1. g \in [D -> BOOLEAN]
        BY <1>2
    <2>2. ASSUME NEW m \in D, rank[m] < k + 1 PROVE g[m] = H[m][g]
        <3>1. \A c \in D : rank[c] < rank[m] => g[c] = f[c]
            BY <2>2
        <3>2. H[m][g] = H[m][f]
            <4> HIDE DEF g
            <4> QED
                BY <1>2, <2>1, <3>1
        <3>3. CASE rank[m] = k
            BY <3>2, <3>3
        <3>4. CASE rank[m] # k
            <4>0. rank[m] \in Nat
                OBVIOUS
            <4>1. \A r \in Nat : r < k + 1 /\ r # k => r < k
                OBVIOUS
            <4>2. rank[m] < k
                BY <2>2, <3>4, <4>0, <4>1, Zenon
            <4>3. g[m] = f[m]
                BY <3>4
            <4> QED
                BY <1>2, <3>2, <4>2, <4>3
        <3> QED
            BY <3>3, <3>4
    <2> HIDE DEF g
    <2>3. Fits(g, k + 1)
        BY <2>1, <2>2
    <2> QED
        BY <2>3
<1>3. \A k \in Nat : \E f : Fits(f, k)
    <2> HIDE DEF Fits
    <2> DEFINE Bad == {k \in Nat : ~\E f : Fits(f, k)}
    <2> SUFFICES ASSUME Bad # {} PROVE FALSE
        OBVIOUS
    <2>1. PICK k \in Bad : \A j \in Bad : k <= j
        BY LeastOf
    <2>2. k \in Nat /\ ~\E f : Fits(f, k)
        BY <2>1
    <2>3. k # 0
        BY <1>1, <2>2
    <2>4. k - 1 \in Nat /\ ~(k <= k - 1)
        BY <2>2, <2>3
    <2>5. PICK f : Fits(f, k - 1)
        BY <2>1, <2>4
    <2>6. \E g : Fits(g, (k - 1) + 1)
        BY <1>2, <2>4, <2>5
    <2>7. (k - 1) + 1 = k
        BY <2>2
    <2> QED
        BY <2>2, <2>6, <2>7
<1>4. PICK f : Fits(f, bound + 1)
    <2> HIDE DEF Fits
    <2>1. bound + 1 \in Nat
        OBVIOUS
    <2> QED
        BY <1>3, <2>1
<1>5. \A m \in D : rank[m] < bound + 1
    OBVIOUS
<1> QED
    BY <1>4, <1>5 DEF Answered

\* A runner inside its runway, or what protects one, protects its sender.
LEMMA ProtectsSender ==
    ASSUME TypeOK, Below, NEW n \in Ids, NEW c \in Active, parent[c] = n,
           (status[c] = "running" /\ now <= Deadline(c)) \/ ProtectsRunner(c)
    PROVE  ProtectsRunner(n)
<1> DEFINE Runs(x) == status[x] = "running" /\ now <= Deadline(x)
           Step(f, m) == \E x \in Children(m) \cap Active : Runs(x) \/ f[x]
           protects[m \in Ids] == \E x \in Children(m) \cap Active : Runs(x) \/ protects[x]
           H == [m \in Ids |-> [f \in [Ids -> BOOLEAN] |-> Step(f, m)]]
           rank == [m \in Ids |-> MaxNodes - m]
<1>1. \A m : ProtectsRunner(m) = protects[m]
    BY DEF ProtectsRunner
<1> HIDE DEF protects, Runs
<1>2. MaxNodes \in Nat /\ nodes \subseteq Ids
    BY Constants DEF TypeOK
<1>3. rank \in [Ids -> Nat] /\ \A m \in Ids : rank[m] <= MaxNodes
    BY <1>2 DEF Ids
<1>4. H \in [Ids -> [[Ids -> BOOLEAN] -> BOOLEAN]]
    OBVIOUS
<1>5. ASSUME NEW m \in Ids, NEW f \in [Ids -> BOOLEAN], NEW g \in [Ids -> BOOLEAN],
             \A x \in Ids : rank[x] < rank[m] => f[x] = g[x]
      PROVE  H[m][f] = H[m][g]
    <2>1. ASSUME NEW x \in Children(m) \cap Active PROVE f[x] = g[x]
        <3>1. x \in Ids /\ m < x
            BY <1>2 DEF Children, Below
        <3>2. rank[x] < rank[m]
            BY <1>2, <3>1 DEF Ids
        <3> QED
            BY <1>5, <3>1, <3>2
    <2>2. Step(f, m) = Step(g, m)
        BY <2>1
    <2> HIDE DEF Step
    <2>3. H[m][f] = Step(f, m) /\ H[m][g] = Step(g, m)
        OBVIOUS
    <2> QED
        BY <2>2, <2>3
<1>6. PICK f \in [Ids -> BOOLEAN] : \A m \in Ids : f[m] = H[m][f]
    <2> HIDE DEF H, rank
    <2>1. AsksBelow(Ids, H, rank)
        BY <1>5 DEF AsksBelow
    <2>2. MaxNodes \in Nat /\ rank \in [Ids -> Nat] /\ \A m \in Ids : rank[m] <= MaxNodes
        BY <1>2, <1>3
    <2>3. H \in [Ids -> [[Ids -> BOOLEAN] -> BOOLEAN]]
        BY <1>4
    <2>4. Answered(Ids, H)
        BY <2>1, <2>2, <2>3, SearchExists
    <2> QED
        BY <2>4 DEF Answered
<1>7. f = [m \in Ids |-> \E x \in Children(m) \cap Active : Runs(x) \/ f[x]]
    <2>1. \A m \in Ids : f[m] = Step(f, m)
        BY <1>6
    <2> QED
        BY <2>1
<1>8. protects = [m \in Ids |-> \E x \in Children(m) \cap Active : Runs(x) \/ protects[x]]
    BY <1>7 DEF protects
<1>9. c \in Children(n) \cap Active
    BY DEF Children, Active
<1>10. Runs(c) \/ protects[c]
    BY <1>1 DEF Runs
<1>11. protects[n]
    BY <1>8, <1>9, <1>10
<1> QED
    BY <1>1, <1>11

\* The sweep goes from n to the unsettled requests below it.
LEMMA SweptUpwards ==
    ASSUME TypeOK, Below, NEW n \in Active, NEW m \in Swept(n), m # n
    PROVE  m \in Active /\ parent[m] \in Swept(n)
<1> DEFINE D == 0..MaxNodes
           Step(f, x) == x # None /\ (x = n \/ (x \in Active /\ f[parent[x]]))
           under[x \in 0..MaxNodes] == x # None /\ (x = n \/ (x \in Active /\ under[parent[x]]))
           H == [x \in D |-> [f \in [D -> BOOLEAN] |-> Step(f, x)]]
           rank == [x \in D |-> x]
<1>1. Swept(n) = {x \in Active : under[x]}
    BY DEF Swept
<1> HIDE DEF under
<1>2. MaxNodes \in Nat /\ nodes \subseteq Ids /\ Ids \subseteq D /\ parent \in [Ids -> D] /\ Active \subseteq Ids
    <2>1. MaxNodes \in Nat /\ nodes \subseteq Ids /\ parent \in [Ids -> D]
        BY Constants DEF TypeOK
    <2>2. Ids \subseteq D
        BY <2>1 DEF Ids
    <2> QED
        BY <2>1, <2>2 DEF Active
<1>3. rank \in [D -> Nat] /\ \A x \in D : rank[x] <= MaxNodes
    BY <1>2
<1>4. H \in [D -> [[D -> BOOLEAN] -> BOOLEAN]]
    OBVIOUS
<1>5. ASSUME NEW x \in D, NEW f \in [D -> BOOLEAN], NEW g \in [D -> BOOLEAN],
             \A y \in D : rank[y] < rank[x] => f[y] = g[y]
      PROVE  H[x][f] = H[x][g]
    <2>1. ASSUME x \in Active PROVE f[parent[x]] = g[parent[x]]
        <3>1. x \in Ids /\ parent[x] \in D /\ parent[x] < x
            BY <1>2, <2>1 DEF Below
        <3> QED
            BY <1>5, <3>1
    <2>2. Step(f, x) = Step(g, x)
        BY <2>1
    <2> HIDE DEF Step
    <2>3. H[x][f] = Step(f, x) /\ H[x][g] = Step(g, x)
        OBVIOUS
    <2> QED
        BY <2>2, <2>3
<1>6. PICK f \in [D -> BOOLEAN] : \A x \in D : f[x] = H[x][f]
    <2> HIDE DEF H, rank, D
    <2>1. AsksBelow(D, H, rank)
        BY <1>5 DEF AsksBelow
    <2>2. MaxNodes \in Nat /\ rank \in [D -> Nat] /\ \A x \in D : rank[x] <= MaxNodes
        BY <1>2, <1>3
    <2>3. H \in [D -> [[D -> BOOLEAN] -> BOOLEAN]]
        BY <1>4
    <2>4. Answered(D, H)
        BY <2>1, <2>2, <2>3, SearchExists
    <2> QED
        BY <2>4 DEF Answered
<1>7. f = [x \in 0..MaxNodes |-> x # None /\ (x = n \/ (x \in Active /\ f[parent[x]]))]
    <2>1. \A x \in D : f[x] = Step(f, x)
        BY <1>6
    <2> QED
        BY <2>1
<1>8. under = [x \in 0..MaxNodes |-> x # None /\ (x = n \/ (x \in Active /\ under[parent[x]]))]
    BY <1>7 DEF under
<1>9. m \in Active /\ m \in D /\ under[m]
    BY <1>1, <1>2
<1>10. under[parent[m]]
    BY <1>8, <1>9
<1>11. parent[m] \in D
    BY <1>2, <1>9
<1>12. parent[m] \in Active
    BY <1>8, <1>10, <1>11
<1> QED
    BY <1>1, <1>9, <1>10, <1>12

-----------------------------------------------------------------------------
(* The time of a request. *)

\* A request shares the tree of the one it serves.
RootsFit == \A c \in nodes : parent[c] \in nodes => root[c] = root[parent[c]]

\* The lifetime and the cap of a tree leave each unsettled request a runway.
WindowsFit ==
    \A m \in Active : root[m] \in nodes =>
        /\ createdAt[m] + MinRunway <= createdAt[root[m]] + HardCap
        /\ createdAt[m] + MinRunway <= createdAt[root[m]] + Lifetime + Paused(root[m])

TimeInv == Below /\ RootsFit /\ WindowsFit

\* A request past its deadline, short of the cap, has had its runway; if it no
\* longer waits for its first start, the lifetime of its tree is over.
LEMMA PastDeadline ==
    ASSUME TypeOK, SinceFits, NEW n \in Ids, root[n] \in Ids, ~HardCapped(n),
           now > Deadline(n) \/ ~(now <= Deadline(n))
    PROVE  /\ status[n] = "running" => now > startedAt[n] + MinRunway
           /\ status[n] = "queued" => now > createdAt[n] + MinRunway
           /\ status[n] # "queued" => now > createdAt[root[n]] + Lifetime + Paused(root[n])
<1> DEFINE anchor == IF status[n] = "running" THEN startedAt[n] ELSE createdAt[n]
           ceiling == IF status[n] = "queued" THEN anchor + QueueWindow
                      ELSE createdAt[root[n]] + Lifetime + Paused(root[n])
           cap == createdAt[root[n]] + HardCap
<1>1. /\ startedAt[n] \in Nat /\ createdAt[n] \in Nat /\ createdAt[root[n]] \in Nat /\ now \in Nat
      /\ Lifetime \in Nat /\ MinRunway \in Nat /\ HardCap \in Nat /\ QueueWindow \in Nat
    BY Constants, ConstantsAssumption DEF TypeOK
<1>2. Paused(root[n]) \in Nat
    BY PausedIsTime
<1>3. anchor \in Int /\ ceiling \in Int /\ cap \in Int /\ anchor + MinRunway \in Int
    BY <1>1, <1>2
<1>4. Deadline(n) = Min({Max({ceiling, anchor + MinRunway}), cap})
    BY DEF Deadline
<1>5. now < cap
    BY <1>1 DEF HardCapped
<1> HIDE DEF anchor, ceiling, cap
<1>6. /\ Max({ceiling, anchor + MinRunway}) \in Int
      /\ Max({ceiling, anchor + MinRunway}) >= ceiling
      /\ Max({ceiling, anchor + MinRunway}) >= anchor + MinRunway
    BY <1>3, MaxCovers
<1>7. Deadline(n) = Max({ceiling, anchor + MinRunway}) \/ Deadline(n) = cap
    BY <1>3, <1>4, <1>6, MinIsOne
<1>8. now > ceiling /\ now > anchor + MinRunway
    BY <1>1, <1>3, <1>5, <1>6, <1>7
<1> QED
    BY <1>8 DEF anchor, ceiling

\* What a sweep fails for its time has had its runway.
RunwayStep ==
    stage = "sweep" /\ crashes' = crashes /\ (\A n \in Active : ~Problem(n)) =>
        \A n \in Active : status'[n] = "failed" =>
            /\ now - createdAt[n] >= MinRunway
            /\ status[n] = "running" => now - startedAt[n] >= MinRunway \/ HardCapped(n)

\* The cascade of an expired request meets requests of its tree only, and no
\* runner inside its runway, which would have protected the expired one.
LEMMA SweptHadTime ==
    ASSUME IInv, TimeInv, NEW n \in Active, root[n] \in nodes, Expired(n), NEW m \in Swept(n)
    PROVE  /\ now - createdAt[m] >= MinRunway
           /\ status[m] = "running" => now - startedAt[m] >= MinRunway \/ HardCapped(m)
<1>1. /\ TypeOK /\ SinceFits /\ Below /\ RootsFit /\ WindowsFit
      /\ nodes \subseteq Ids /\ Active \subseteq nodes /\ n \in Ids /\ root[n] \in Ids
    BY DEF IInv, TimeInv, TypeOK, Active
<1> DEFINE Fits(x) == x \in Active /\ root[x] = root[n] /\ (~ProtectsRunner(n) => ~ProtectsRunner(x))
<1>2. \A x \in Swept(n) : Fits(x)
    <2> DEFINE Bad == {x \in Swept(n) : ~Fits(x)}
    <2> SUFFICES ASSUME Bad # {} PROVE FALSE
        OBVIOUS
    <2>0. Swept(n) \subseteq Active /\ Bad \subseteq Ids
        BY <1>1, SweptAreActive
    <2>1. Swept(n) \subseteq Active /\ Bad \subseteq Nat
        BY <2>0 DEF Ids
    <2>2. PICK x \in Bad : \A y \in Bad : x <= y
        BY <2>1, LeastOf
    <2>3. x \in Swept(n) /\ x \in Ids /\ ~Fits(x)
        BY <1>1, <2>1, <2>2
    <2>4. x # n
        BY <2>3
    <2>5. x \in Active /\ parent[x] \in Swept(n)
        BY <1>1, <2>3, <2>4, SweptUpwards
    <2>6. parent[x] \in Ids /\ parent[x] < x
        BY <1>1, <2>1, <2>3, <2>5 DEF Below
    <2>7. parent[x] \notin Bad
        BY <2>2, <2>6, <2>3 DEF Ids
    <2>8. Fits(parent[x])
        BY <2>5, <2>7
    <2>9. root[x] = root[n]
        BY <1>1, <2>5, <2>8 DEF RootsFit
    <2>10. ~ProtectsRunner(n) => ~ProtectsRunner(x)
        BY <1>1, <2>5, <2>6, <2>8, ProtectsSender
    <2> QED
        BY <2>3, <2>5, <2>9, <2>10
<1>3. m \in Active /\ m \in Ids /\ root[m] = root[n]
    BY <1>1, <1>2
<1>4. /\ createdAt[m] \in Nat /\ createdAt[root[m]] \in Nat /\ startedAt[m] \in Nat /\ now \in Nat
      /\ MinRunway \in Nat /\ Lifetime \in Nat /\ HardCap \in Nat /\ Paused(root[m]) \in Nat
    BY <1>1, <1>3, Constants, PausedIsTime DEF TypeOK
<1>5. /\ createdAt[m] + MinRunway <= createdAt[root[m]] + HardCap
      /\ createdAt[m] + MinRunway <= createdAt[root[m]] + Lifetime + Paused(root[m])
    BY <1>1, <1>3 DEF WindowsFit
<1>6. CASE HardCapped(n)
    <2>1. HardCapped(m)
        BY <1>3, <1>6 DEF HardCapped
    <2> QED
        BY <1>4, <1>5, <2>1 DEF HardCapped
<1>7. CASE ~HardCapped(n)
    <2>1. now > Deadline(n) /\ ~ProtectsRunner(n) /\ ~HardCapped(m)
        BY <1>3, <1>7 DEF Expired, HardCapped
    <2>2. now - createdAt[m] >= MinRunway
        <3>1. CASE status[n] # "queued"
            BY <1>1, <1>3, <1>4, <1>5, <1>7, <2>1, <3>1, PastDeadline
        <3>2. CASE status[n] = "queued"
            <4>1. m = n
                <5>1. SUFFICES ASSUME m # n PROVE FALSE
                    OBVIOUS
                <5> DEFINE Others == Swept(n) \ {n}
                <5>0. Others # {} /\ Others \subseteq Ids
                    BY <1>1, <5>1, SweptAreActive
                <5>2. Others # {} /\ Others \subseteq Nat
                    BY <5>0 DEF Ids
                <5>3. PICK x \in Others : \A y \in Others : x <= y
                    BY <5>2, LeastOf
                <5>4. x \in Active /\ x \in Ids /\ parent[x] \in Swept(n)
                    BY <1>1, <5>3, SweptUpwards
                <5>5. parent[x] # n
                    BY <1>1, <3>2, <5>4 DEF IInv, ReadyFits
                <5>6. parent[x] \in Others /\ parent[x] \in Ids /\ parent[x] < x
                    BY <1>1, <5>4, <5>5, SweptAreActive DEF Below
                <5> QED
                    BY <5>3, <5>4, <5>6 DEF Ids
            <4> QED
                BY <1>1, <1>4, <1>7, <2>1, <3>2, <4>1, PastDeadline
        <3> QED
            BY <3>1, <3>2
    <2>3. ASSUME status[m] = "running" PROVE now - startedAt[m] >= MinRunway
        <3>1. now > Deadline(m) \/ ~(now <= Deadline(m))
            <4>1. CASE m = n
                BY <2>1, <4>1
            <4>2. CASE m # n
                <5>1. parent[m] \in Swept(n)
                    BY <1>1, <4>2, SweptUpwards
                <5>2. parent[m] \in Ids /\ ~ProtectsRunner(parent[m])
                    BY <1>1, <1>2, <2>1, <5>1
                <5>3. ~(now <= Deadline(m))
                    BY <1>1, <1>3, <2>3, <5>2, ProtectsSender
                <5> QED
                    BY <5>3
            <4> QED
                BY <4>1, <4>2
        <3> QED
            BY <1>1, <1>3, <1>4, <2>1, <2>3, <3>1, PastDeadline
    <2> QED
        BY <2>2, <2>3
<1> QED
    BY <1>6, <1>7

-----------------------------------------------------------------------------
(* Every request keeps its window. *)

\* An account that is open counts the same time after it is tracked.
LEMMA PausesKept ==
    ASSUME TypeOK, SinceFits, NEW st, TrackPauses(st), now' = now,
           NEW m \in nodes, ~Terminal(st, m), NEW r \in nodes, root[m] = r
    PROVE  Paused(r)' = Paused(r)
<1> DEFINE runs(x) == \E n \in nodes : root[n] = x /\ st[n] = "running"
           open(x) == x \in nodes /\ \E n \in nodes : root[n] = x /\ ~Terminal(st, n)
<1>1. /\ acc' = [x \in Ids |-> IF ~open(x) THEN 0
                               ELSE IF since[x] # NotPaused /\ ~runs(x)
                                    THEN acc[x] + now - since[x] ELSE acc[x]]
      /\ since' = [x \in Ids |-> IF ~runs(x) \/ ~open(x) THEN NotPaused
                                 ELSE IF since[x] = NotPaused THEN now ELSE since[x]]
    BY DEF TrackPauses, Tracked
<1>2. open(r)
    OBVIOUS
<1> HIDE DEF runs, open
<1>3. /\ r \in Ids /\ acc[r] \in Nat /\ since[r] \in Nat \cup {NotPaused} /\ now \in Nat
    BY DEF TypeOK
<1>4. /\ acc'[r] = IF since[r] # NotPaused /\ ~runs(r) THEN acc[r] + now - since[r] ELSE acc[r]
      /\ since'[r] = IF ~runs(r) THEN NotPaused ELSE IF since[r] = NotPaused THEN now ELSE since[r]
    BY <1>1, <1>2, <1>3
<1>5. now # NotPaused
    BY <1>3 DEF NotPaused
<1>6. CASE since[r] = NotPaused
    <2>1. acc'[r] = acc[r] /\ (since'[r] = NotPaused \/ since'[r] = now)
        BY <1>4, <1>6
    <2> QED
        BY <1>3, <1>5, <1>6, <2>1 DEF Paused
<1>7. CASE since[r] # NotPaused
    <2>1. \/ since'[r] = NotPaused /\ acc'[r] = acc[r] + now - since[r]
          \/ since'[r] = since[r] /\ acc'[r] = acc[r]
        BY <1>4, <1>7
    <2> QED
        BY <1>3, <1>7, <2>1 DEF Paused
<1> QED
    BY <1>6, <1>7

\* A step that makes no request and takes no time from an open tree.
LEMMA WindowsLast ==
    ASSUME IInv, IInv', TimeInv, UNCHANGED tree, \A m \in Active' : m \in Active,
           \A m \in Active' : \A r \in nodes : root[m] = r => Paused(r)' >= Paused(r)
    PROVE  TimeInv'
<1>1. /\ TypeOK /\ SinceFits /\ Below /\ RootsFit /\ WindowsFit
      /\ UNCHANGED <<nodes, parent, root, createdAt>>
    BY DEF IInv, TimeInv, tree
<1>2. Below' /\ RootsFit'
    BY <1>1 DEF Below, RootsFit
<1>3. WindowsFit'
    <2> SUFFICES ASSUME NEW m \in Active', NEW r \in nodes, root[m] = r
                 PROVE  /\ createdAt[m] + MinRunway <= createdAt[r] + HardCap
                        /\ createdAt[m] + MinRunway <= createdAt[r] + Lifetime + Paused(r)'
        BY <1>1 DEF WindowsFit, Paused
    <2>1. /\ createdAt[m] + MinRunway <= createdAt[r] + HardCap
          /\ createdAt[m] + MinRunway <= createdAt[r] + Lifetime + Paused(r)
        BY <1>1 DEF WindowsFit
    <2>2. Paused(r)' >= Paused(r)
        OBVIOUS
    <2>3. /\ createdAt[m] \in Nat /\ createdAt[r] \in Nat /\ r \in Ids
          /\ MinRunway \in Nat /\ Lifetime \in Nat
        BY <1>1, Constants DEF TypeOK, Active
    <2>4. Paused(r) \in Nat /\ Paused(r)' \in Nat
        <3>1. acc'[r] \in Nat /\ since'[r] \in Nat \cup {NotPaused}
              /\ since'[r] <= now' /\ now' \in Nat
            BY <2>3 DEF IInv, TypeOK, SinceFits
        <3>2. Paused(r)' \in Nat
            BY <3>1 DEF Paused
        <3> QED
            BY <1>1, <2>3, <3>2, PausedIsTime
    <2> QED
        BY <2>1, <2>2, <2>3, <2>4
<1> QED
    BY <1>2, <1>3 DEF TimeInv

(* Each action keeps it. *)

LEMMA EnqueueInTime ==
    ASSUME IInv, TimeInv, NEW p \in Ids, NEW a \in Addrs, NEW rework \in BOOLEAN, Enqueue(p, a, rework)
    PROVE  TimeInv'
<1> DEFINE n == next
<1>1. /\ p \in nodes /\ ~Refused(Path(p), p, a, root[p])
      /\ nodes' \subseteq nodes \cup {n}
      /\ parent' = [parent EXCEPT ![n] = p]
      /\ root' = [root EXCEPT ![n] = root[p]]
      /\ status' = [status EXCEPT ![n] = "queued"]
      /\ createdAt' = [createdAt EXCEPT ![n] = now]
      /\ acc' = acc /\ since' = since /\ now' = now
    BY DEF Enqueue, Added, clock, world
<1>2. /\ TypeOK /\ SinceFits /\ IdsFit /\ Below /\ RootsFit /\ WindowsFit
      /\ n <= MaxNodes /\ next \in 1..(MaxNodes + 1) /\ MaxNodes \in Nat /\ nodes \subseteq Ids
      /\ parent \in [Ids -> 0..MaxNodes] /\ root \in [Ids -> 0..MaxNodes]
      /\ status \in [Ids -> Statuses] /\ createdAt \in [Ids -> Nat]
    BY Constants DEF IInv, TimeInv, TypeOK, Enqueue
<1>3. n \in Ids /\ n \in Nat /\ p < n /\ root[p] < n /\ p \in Nat /\ root[p] \in Nat
    BY <1>1, <1>2 DEF Ids, IdsFit
<1>4. \A m \in Ids : m # n => /\ parent'[m] = parent[m] /\ root'[m] = root[m]
                              /\ status'[m] = status[m] /\ createdAt'[m] = createdAt[m]
    BY <1>1, <1>2
<1>5. /\ parent'[n] = p /\ root'[n] = root[p] /\ createdAt'[n] = now
    BY <1>1, <1>2, <1>3
<1>6. \A m \in nodes : m # n /\ m \in Ids /\ m < n /\ parent[m] < n /\ root[m] < n
    BY <1>2, <1>3 DEF IdsFit, Ids
<1>7. Below'
    BY <1>2, <1>3, <1>4, <1>5 DEF Below
<1>8. RootsFit'
    <2> SUFFICES ASSUME NEW c \in nodes', parent'[c] \in nodes' PROVE root'[c] = root'[parent'[c]]
        BY DEF RootsFit
    <2>1. CASE c = n
        BY <2>1, <1>1, <1>4, <1>5, <1>6
    <2>2. CASE c # n
        <3>1. c \in nodes /\ c \in Ids /\ parent'[c] = parent[c]
            BY <2>2, <1>1, <1>4, <1>6
        <3>2. parent[c] # n /\ parent[c] \in nodes /\ parent[c] \in Ids
            BY <3>1, <1>1, <1>3, <1>6
        <3> QED
            BY <2>2, <3>1, <3>2, <1>2, <1>4 DEF RootsFit
    <2> QED
        BY <2>1, <2>2
<1>9. WindowsFit'
    <2> SUFFICES ASSUME NEW m \in nodes', ~Terminal(status', m), NEW r \in nodes', root'[m] = r
                 PROVE  /\ createdAt'[m] + MinRunway <= createdAt'[r] + HardCap
                        /\ createdAt'[m] + MinRunway <= createdAt'[r] + Lifetime + Paused(r)
        BY <1>1 DEF WindowsFit, Active, Paused
    <2>1. r # n /\ r \in nodes /\ r \in Ids
        <3>1. CASE m = n
            BY <3>1, <1>1, <1>3, <1>5, <1>6
        <3>2. CASE m # n
            BY <3>2, <1>1, <1>3, <1>4, <1>6
        <3> QED
            BY <3>1, <3>2
    <2>2. CASE m = n
        BY <2>1, <2>2, <1>1, <1>2, <1>4, <1>5, AcceptedInTime
    <2>3. CASE m # n
        <3>1. m \in Active /\ m \in Ids /\ root[m] = r
            BY <2>3, <1>1, <1>4, <1>6 DEF Active, Terminal
        <3> QED
            BY <2>1, <2>3, <3>1, <1>2, <1>4 DEF WindowsFit
    <2> QED
        BY <2>2, <2>3
<1> QED
    BY <1>7, <1>8, <1>9 DEF TimeInv

LEMMA EnqueueFirstInTime ==
    ASSUME IInv, TimeInv, NEW b \in Addrs, NEW a \in Addrs, EnqueueFirst(b, a)
    PROVE  TimeInv'
<1> DEFINE p == next
           n == next + 1
<1>1. /\ n <= MaxNodes /\ Min({Lifetime, HardCap}) >= MinRunway
      /\ nodes' \subseteq nodes \cup {p, n}
      /\ parent' = [parent EXCEPT ![n] = p]
      /\ root' = [root EXCEPT ![p] = p, ![n] = p]
      /\ status' = [status EXCEPT ![n] = "queued"]
      /\ createdAt' = [createdAt EXCEPT ![p] = now, ![n] = now]
      /\ acc' = acc /\ since' = since /\ now' = now
    BY DEF EnqueueFirst, clock, world
<1>2. /\ TypeOK /\ SinceFits /\ IdsFit /\ Below /\ RootsFit /\ WindowsFit
      /\ next \in 1..(MaxNodes + 1) /\ MaxNodes \in Nat /\ nodes \subseteq Ids
      /\ parent \in [Ids -> 0..MaxNodes] /\ root \in [Ids -> 0..MaxNodes]
      /\ status \in [Ids -> Statuses] /\ createdAt \in [Ids -> Nat] /\ now \in Nat
      /\ Lifetime \in Nat /\ HardCap \in Nat /\ MinRunway \in Nat
    BY Constants DEF IInv, TimeInv, TypeOK
<1>3. p \in Ids /\ n \in Ids /\ p \in Nat /\ n \in Nat /\ p # n /\ p < n
    BY <1>1, <1>2 DEF Ids
<1>4. \A m \in Ids : m # n /\ m # p => /\ parent'[m] = parent[m] /\ root'[m] = root[m]
                                       /\ status'[m] = status[m] /\ createdAt'[m] = createdAt[m]
    BY <1>1, <1>2
<1>5. /\ parent'[n] = p /\ root'[n] = p /\ createdAt'[n] = now
      /\ parent'[p] = None /\ root'[p] = p /\ createdAt'[p] = now
    BY <1>1, <1>2, <1>3 DEF IdsFit
<1>6. \A m \in nodes : m # n /\ m # p /\ m \in Ids /\ parent[m] < p /\ root[m] < p
    BY <1>2, <1>3 DEF IdsFit, Ids
<1>7. Below'
    <2> SUFFICES ASSUME NEW m \in Ids PROVE parent'[m] < m
        BY DEF Below
    <2>1. CASE m = n
        BY <2>1, <1>3, <1>5
    <2>2. CASE m = p
        BY <2>2, <1>2, <1>3, <1>5 DEF None
    <2>3. CASE m # n /\ m # p
        BY <2>3, <1>2, <1>4 DEF Below
    <2> QED
        BY <2>1, <2>2, <2>3
<1>8. RootsFit'
    <2> SUFFICES ASSUME NEW c \in nodes', parent'[c] \in nodes' PROVE root'[c] = root'[parent'[c]]
        BY DEF RootsFit
    <2>1. CASE c = n
        BY <2>1, <1>5
    <2>2. CASE c = p
        <3>1. None \notin nodes /\ None # p /\ None # n
            BY <1>2, <1>3 DEF None, Ids
        <3> QED
            BY <2>2, <3>1, <1>1, <1>5
    <2>3. CASE c # n /\ c # p
        <3>1. c \in nodes /\ c \in Ids /\ parent'[c] = parent[c]
            BY <2>3, <1>1, <1>4, <1>6
        <3>2. parent[c] \in 0..MaxNodes /\ parent[c] < p
            BY <3>1, <1>2, <1>6
        <3>3. parent[c] # n /\ parent[c] # p
            BY <3>2, <1>3
        <3>4. parent[c] \in nodes /\ parent[c] \in Ids
            BY <3>1, <3>3, <1>1, <1>2
        <3> QED
            BY <2>3, <3>1, <3>3, <3>4, <1>2, <1>4 DEF RootsFit
    <2> QED
        BY <2>1, <2>2, <2>3
<1>9. WindowsFit'
    <2> SUFFICES ASSUME NEW m \in nodes', ~Terminal(status', m), NEW r \in nodes', root'[m] = r
                 PROVE  /\ createdAt'[m] + MinRunway <= createdAt'[r] + HardCap
                        /\ createdAt'[m] + MinRunway <= createdAt'[r] + Lifetime + Paused(r)
        <3>1. acc' = acc /\ since' = since /\ now' = now
            BY <1>1
        <3> QED
            BY <3>1 DEF WindowsFit, Active, Paused
    <2>1. CASE m = n \/ m = p
        <3>1. r = p /\ createdAt'[m] = now /\ createdAt'[r] = now /\ Paused(p) \in Nat
            BY <2>1, <1>2, <1>3, <1>5, PausedIsTime
        <3>0. Lifetime \in Int /\ HardCap \in Int
            BY <1>2
        <3>2. /\ Min({Lifetime, HardCap}) = Lifetime \/ Min({Lifetime, HardCap}) = HardCap
              /\ Min({Lifetime, HardCap}) <= Lifetime /\ Min({Lifetime, HardCap}) <= HardCap
            BY ONLY <3>0, MinIsOne
        <3>3. Lifetime >= MinRunway /\ HardCap >= MinRunway
            BY <1>1, <1>2, <3>2
        <3> QED
            BY <3>1, <3>3, <1>2
    <2>2. CASE m # n /\ m # p
        <3>1. m \in Active /\ m \in Ids /\ root[m] = r
            BY <2>2, <1>1, <1>4, <1>6 DEF Active, Terminal
        <3>2. r < p /\ r \in 0..MaxNodes
            BY <3>1, <1>2, <1>6 DEF Active
        <3>3. r # n /\ r # p
            BY <3>2, <1>3
        <3>4. r \in nodes /\ r \in Ids
            BY <3>3, <1>1, <1>2
        <3> QED
            BY <2>2, <3>1, <3>3, <3>4, <1>2, <1>4 DEF WindowsFit
    <2> QED
        BY <2>1, <2>2
<1> QED
    BY <1>7, <1>8, <1>9 DEF TimeInv

LEMMA StepInTime == IInv /\ TimeInv /\ [Next]_vars => TimeInv'
<1> SUFFICES ASSUME IInv, TimeInv, [Next]_vars PROVE TimeInv'
    OBVIOUS
<1>0. /\ IInv' /\ SettledStep /\ TypeOK /\ SinceFits /\ nodes \subseteq Ids
    BY StepSound, Steps DEF IInv, TypeOK
<1>1. ASSUME UNCHANGED tree PROVE \A m \in Active' : m \in Active
    BY <1>0, <1>1 DEF SettledStep, Active, Terminal, tree
<1>2. ASSUME UNCHANGED tree, UNCHANGED clock, now' = now \/ now' = now + 1 PROVE TimeInv'
    <2>1. \A r \in nodes : Paused(r)' >= Paused(r)
        <3> SUFFICES ASSUME NEW r \in nodes PROVE Paused(r)' >= Paused(r)
            OBVIOUS
        <3>1. /\ acc[r] \in Nat /\ since[r] \in Nat \cup {NotPaused} /\ now \in Nat
              /\ acc' = acc /\ since' = since
            BY <1>0, <1>2 DEF TypeOK, clock
        <3> QED
            BY <1>2, <3>1 DEF Paused
    <2> QED
        BY <1>0, <1>1, <1>2, <2>1, WindowsLast
<1>3. ASSUME UNCHANGED tree, now' = now, NEW st, st = status', TrackPauses(st) PROVE TimeInv'
    <2>1. ASSUME NEW m \in Active', NEW r \in nodes, root[m] = r PROVE Paused(r)' >= Paused(r)
        <3>1. m \in nodes /\ ~Terminal(st, m)
            BY <1>3, <2>1 DEF Active, tree
        <3>2. Paused(r)' = Paused(r)
            BY <1>0, <1>3, <2>1, <3>1, PausesKept
        <3>3. Paused(r) \in Nat
            BY <1>0, PausedIsTime
        <3> QED
            BY <3>2, <3>3
    <2> QED
        BY <1>0, <1>1, <1>3, <2>1, WindowsLast
<1>4. ASSUME UNCHANGED tree, now' = now, NEW n, Claim(n) PROVE TimeInv'
    <2>1. ASSUME NEW r \in nodes PROVE Paused(r)' >= Paused(r)
        <3>1. /\ acc[r] \in Nat /\ since[r] \in Nat \cup {NotPaused} /\ now \in Nat /\ since \in [Ids -> Nat \cup {NotPaused}]
            BY <1>0 DEF TypeOK
        <3>2. acc'[r] = acc[r] /\ (since'[r] = since[r] \/ (since[r] = NotPaused /\ since'[r] = now))
            BY <1>0, <1>4, <3>1 DEF Claim
        <3> QED
            BY <1>4, <3>1, <3>2 DEF Paused
    <2> QED
        BY <1>0, <1>1, <1>4, <2>1, WindowsLast
<1>5. CASE \E p \in Ids, a \in Addrs, rework \in BOOLEAN : Enqueue(p, a, rework)
    BY <1>5, EnqueueInTime
<1>6. CASE \E a, b \in Addrs : EnqueueFirst(b, a)
    BY <1>6, EnqueueFirstInTime
<1>7. CASE \E a \in Addrs : TurnStarts(a) \/ TurnSettles(a) \/ Revoke(a) \/ Reinstate(a)
    BY <1>2, <1>7 DEF TurnStarts, TurnSettles, Revoke, Reinstate, world
<1>8. CASE \E a \in Addrs : StopThread(a) \/ CancelPlace(a)
    BY <1>3, <1>8 DEF StopThread, CancelPlace, Cancel, world
<1>9. CASE \E n \in Ids, ok \in BOOLEAN : RunReturns(n, ok)
    BY <1>2, <1>3, <1>9 DEF RunReturns, world
<1>10. CASE TickBegins
    BY <1>3, <1>10 DEF TickBegins, world
<1>11. CASE Sweep \/ DropOrphan \/ OverBudget
    BY <1>2, <1>3, <1>11 DEF Sweep, DropOrphan, OverBudget, Cancel, world
<1>12. CASE Report \/ ReportSaved \/ Resume \/ Pass \/ Advance \/ UNCHANGED vars
    BY <1>2, <1>12 DEF Report, ReportSaved, Resume, Pass, Advance, vars, world
<1>13. CASE Start \/ StartUnsaved
    BY <1>4, <1>13 DEF Start, StartUnsaved, world
<1>14. CASE Crash
    <2>1. Active' = {} /\ UNCHANGED tree
        BY <1>0, <1>14 DEF Crash, Active, Terminal, TerminalStatuses, tree
    <2> QED
        BY <1>0, <2>1, WindowsLast
<1> QED
    BY <1>5, <1>6, <1>7, <1>8, <1>9, <1>10, <1>11, <1>12, <1>13, <1>14 DEF Next

LEMMA AlwaysInTime == Spec => [](IInv /\ TimeInv)
<1>1. Init => TimeInv
    BY Constants DEF Init, TimeInv, Below, RootsFit, WindowsFit, Active, Ids, None
<1> QED
    BY <1>1, InitSound, StepSound, StepInTime, PTL DEF Spec

LEMMA StepHonours == IInv /\ TimeInv /\ [Next]_vars => RunwayStep
<1> SUFFICES ASSUME IInv, TimeInv, [Next]_vars, stage = "sweep", crashes' = crashes,
                    \A n \in Active : ~Problem(n),
                    NEW m \in Active, status'[m] = "failed"
             PROVE  /\ now - createdAt[m] >= MinRunway
                    /\ status[m] = "running" => now - startedAt[m] >= MinRunway \/ HardCapped(m)
    BY DEF RunwayStep
<1>1. status'[m] # status[m] /\ m \in Ids /\ crashes \in Nat
    BY DEF Active, Terminal, TerminalStatuses, IInv, TypeOK
<1>2. Sweep
    <2>1. ~(\E a \in Addrs : TurnStarts(a)) /\ ~UNCHANGED vars
        BY <1>1 DEF TurnStarts, vars
    <2>2. ~(\E a \in Addrs : TurnSettles(a) \/ StopThread(a) \/ CancelPlace(a) \/ Revoke(a) \/ Reinstate(a))
        BY DEF TurnSettles, StopThread, CancelPlace, Revoke, Reinstate
    <2>3. /\ ~(\E p \in Ids, a \in Addrs, rework \in BOOLEAN : Enqueue(p, a, rework))
          /\ ~(\E a, b \in Addrs : EnqueueFirst(b, a))
          /\ ~(\E n \in Ids, ok \in BOOLEAN : RunReturns(n, ok))
        BY DEF Enqueue, EnqueueFirst, RunReturns
    <2>4. ~(TickBegins \/ Report \/ ReportSaved \/ Resume \/ DropOrphan \/ OverBudget \/ Start
              \/ StartUnsaved \/ Pass \/ Advance)
        BY DEF TickBegins, Report, ReportSaved, Resume, DropOrphan, OverBudget, Start, StartUnsaved, Pass, Advance
    <2>5. ~Crash
        BY <1>1 DEF Crash
    <2> QED
        BY <2>1, <2>2, <2>3, <2>4, <2>5 DEF Next
<1> DEFINE n == cursor
<1>3. /\ n \in Active /\ root[n] \in nodes /\ Expired(n)
      /\ status' = Cancelled(Swept(n), "failed")
    BY <1>1, <1>2 DEF Sweep, Cancel
<1>4. m \in Swept(n)
    BY <1>1, <1>3 DEF Cancelled
<1> QED
    BY <1>3, <1>4, SweptHadTime

-----------------------------------------------------------------------------
(* Theorems. *)

\* Every variable of the handoff tree, its hooks and its clock keeps its type,
\* whichever of people, ticks, runs and crashes move it.
THEOREM TypeCorrect == Spec => []TypeOK
BY Invariant, PTL DEF IInv

\* A follow-up turn never runs where another turn does: the busy hook, asked
\* again before every start, keeps threads, rooms and their speakers apart.
THEOREM NoOverlap == Spec => []TurnsNeverOverlap
BY Invariant, PTL DEF IInv

\* The report of a result leaves at most one row, even when the flag that says
\* so is lost between the row and its publication and the tick reports again.
THEOREM ShownOnce == Spec => []ReportedOnce
BY Invariant, PTL DEF IInv

\* Time does not pass the hard cap of a tree before the sweep has settled every
\* request in it, the running ones and those that were never carried out too.
THEOREM CapHolds == Spec => []HardCapHolds
BY Invariant, PTL DEF IInv

\* A late answer, a second cancellation, a crash or a restart of the process
\* never changes the outcome of a settled request, and a request that was still
\* queued when its sender settled is dropped, never started.
THEOREM SettledStays == Spec => SettledForGood
<1>1. IInv /\ [Next]_vars => [SettledStep]_vars
    BY Steps
<1> QED
    BY <1>1, Invariant, PTL DEF Spec, SettledForGood, SettledStep

\* A sender is started again only with every result settled and reported in its
\* conversation, however the branches below it were cut.
THEOREM ResumedComplete == Spec => ResumedWithEveryResult
<1>1. IInv /\ [Next]_vars => [ResumedStep]_vars
    BY Steps
<1> QED
    BY <1>1, Invariant, PTL DEF Spec, ResumedWithEveryResult, ResumedStep

\* No request outlives the hard cap of its tree, and none is cut short: when a
\* sweep fails a request whose time is up, neither it nor anything the cascade
\* reaches below it was accepted less than a runway ago or, short of the cap,
\* is a run that started less than a runway ago.
THEOREM TimeKept == Spec => TimeIsKept
<1>1. IInv /\ TimeInv /\ [Next]_vars => [RunwayStep]_vars
    BY StepHonours
<1> QED
    BY <1>1, AlwaysInTime, CapHolds, PTL DEF Spec, TimeIsKept, RunwayHonoured, RunwayStep

=============================================================================
