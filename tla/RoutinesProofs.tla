--------------------------- MODULE RoutinesProofs ---------------------------
(* Theorems about the routine scheduler, for every instance of Routines:    *)
(* the types of the state and the history cap; that no run, occurrence or   *)
(* confirmed request is carried out twice; that the runs say what the       *)
(* engine does while every write succeeds; that repeats and late events     *)
(* are ignored.                                                             *)
EXTENDS Routines, FiniteSetTheorems, WellFoundedInduction, TLAPS

-----------------------------------------------------------------------------
(* The inductive invariant. *)

Plan == [kind : {"once", "interval", "daily"}, overlap : {"skip", "queue"}]
Runsheet == [Runs -> RunType \cup {NoRun}]

Recurring(p, r) == p[r].kind # "once"
Scheduled(runs) == {i \in Ids(runs) : runs[i].by = "schedule"}
RoomForDue(k) == k + Cardinality(Routines) <= MaxRuns

\* A snapshot, in memory or on disk, when k runs were made by the time c: its
\* shape, and where its routines stand.
Typed(p, m, k) ==
    /\ m \in StateType
    /\ \A i \in Ids(m.runs) : i <= k
    /\ \A r \in Routines : m.routines[r].state = "on" <=> m.routines[r].next # Never
    /\ \A r \in Routines :
           Recurring(p, r) /\ m.routines[r].next # Never => m.routines[r].next \in Occurrences(p[r])

\* Scheduled runs belong to a routine and are due by now.
DueByNow(m, c) == \A i \in Scheduled(m.runs) : m.runs[i].of \in Routines /\ m.runs[i].due <= c

\* A routine falls due next after all its runs, while anything falls due.
DueBefore(p, m, k) ==
    \A i \in Scheduled(m.runs) :
        LET r == m.runs[i].of IN
        Recurring(p, r) /\ m.routines[r].next # Never /\ RoomForDue(k) => m.runs[i].due < m.routines[r].next

\* A routine's runs have an occurrence each, and the queued one the newest.
DueApart(p, m) ==
    \A i, j \in Scheduled(m.runs) :
        i # j /\ m.runs[i].of = m.runs[j].of /\ Recurring(p, m.runs[i].of) =>
            /\ m.runs[i].due # m.runs[j].due
            /\ m.runs[i].status = "queued" => m.runs[j].due < m.runs[i].due

Sound(p, m, k, c) == Typed(p, m, k) /\ DueByNow(m, c) /\ DueBefore(p, m, k) /\ DueApart(p, m)

\* What was started is not queued again.
NotAgain(m, s, k) == \A i \in Runs : s[i] # 0 => i <= k /\ m.runs[i].status # "queued"

Capped(runs) == In(runs, Ended) # {} => Cardinality(Ids(runs)) <= Max({Retain, Cardinality(In(runs, Live))})

\* What has ended in x is the same in y, or dropped.
Kept(x, y) == \A i \in Runs : x[i].status \in Ended => y[i] \in {x[i], NoRun}

\* Of the first k ids none that has gone comes back.
NoneBack(x, y, k) == \A i \in Runs : x[i] = NoRun /\ i <= k => y[i] = NoRun

\* Memory and file: each is sound; they differ in runs and routines only, and
\* what the file calls ended has ended in memory.
CopiesFit ==
    /\ Sound(plan, mem, made, clock) /\ Sound(plan, disk, made, clock)
    /\ NotAgain(mem, starts, made) /\ NotAgain(disk, starts, made)
    /\ Capped(mem.runs) /\ Capped(disk.runs)
    /\ mem.receipts = disk.receipts /\ mem.seen = disk.seen
    /\ Kept(disk.runs, mem.runs)

\* The tick never runs ahead of the clock, and what it dispatches was queued
\* for occurrences before the next ones.
TickFits ==
    /\ tick \in [at : {"idle", "interrupting", "dispatch", "starting"}, now : Nat, todo : SUBSET Runs,
                 stale : {tick.stale}]
    /\ tick.now <= clock
    /\ tick.at \in {"dispatch", "starting"} /\ RoomForDue(made) =>
           \A r \in Routines : Recurring(plan, r) /\ mem.routines[r].next # Never => tick.now < mem.routines[r].next

\* A request's receipt, or its answer, stands for its being carried out.
CardsFit == \A q \in Cards :
    /\ applied[q] = 0 => q \notin mem.receipts \cup answered
    /\ applied[q] = 1 => q \in mem.receipts \cup answered

\* A delivery is remembered as it was accepted last, unless that is long ago.
DeliveriesFit == \A d \in Deliveries : accepts[d].n # 0 =>
    /\ accepts[d].at \in Nat
    /\ \/ mem.seen[d] = accepts[d].at
       \/ mem.seen[d] = Never /\ clock - accepts[d].at > RetryWindow

\* One run, its turn and its announcements: it is at work exactly when the
\* engine is engaged with it, and announced once if it failed or was missed.
Engaged == {"live", "asking", "away"}
Lost == {"failed", "missed"}
TrueOf(run, at, said, isMade) ==
    /\ run.status \in Working <=> at \in Engaged
    /\ said \in {0, 1}
    /\ run.status \in Lost => said = 1
    /\ said # 0 => isMade /\ run.status \in Lost \cup {"none"}

OneAtWork(runs) ==
    \A i, j \in Scheduled(runs) :
        i # j /\ runs[i].of = runs[j].of => ~ (runs[i].status \in Working /\ runs[j].status \in Working)

Truths(runs, trn, tld, k) ==
    /\ \A i \in Runs : TrueOf(runs[i], trn[i], tld[i], i <= k)
    /\ OneAtWork(runs)

\* While every write succeeds: file and memory agree, no tick walks detached
\* runs, and runs, turns and announcements fit each other.
Truth == mem = disk /\ tick.stale = <<>> /\ Truths(mem.runs, turn, told, made)

ShapeFits ==
    /\ plan \in [Routines -> Plans] /\ answered \subseteq Cards
    /\ turn \in [Runs -> {"none", "live", "asking", "away", "stopping"}]
    /\ made \in 0..MaxRuns /\ clock \in 0..MaxTime /\ failures \in Nat
    /\ starts \in [Runs -> {0, 1}] /\ told \in [Runs -> Nat] /\ applied \in [Cards -> {0, 1}]
    /\ accepts \in [Deliveries -> [n : Nat, at : Int]]

IInv == /\ ShapeFits /\ CopiesFit /\ TickFits /\ CardsFit /\ DeliveriesFit
        /\ failures = 0 => Truth

-----------------------------------------------------------------------------
(* The constants, numbers and schedules. *)

LEMMA Constants ==
    /\ Routines \subseteq Nat \ {0} /\ IsFiniteSet(Routines) /\ Target \in Routines
    /\ Plans \subseteq Plan
    /\ Every \in Nat /\ Every # 0 /\ Every <= EndsAt
    /\ EndsAt \in Nat /\ CatchUp \in Nat /\ Timeout \in Nat /\ Retain \in Nat
    /\ RetryWindow \in Nat /\ MaxReceipts \in Nat /\ MaxPending \in Nat /\ Slots \in Nat
    /\ MaxRuns \in Nat /\ MaxTime \in Nat /\ MaxTrouble \in Nat /\ MaxCrashes \in Nat
BY BoundsAssumption DEF Plan

\* A non-empty set of numbers has a least one; a bounded one, a greatest.
LEMMA Least ==
    ASSUME NEW S, S \subseteq Nat, S # {}
    PROVE  Min(S) \in S /\ \A n \in S : Min(S) <= n
<1>1. \E m \in S : \A n \in S : ~ (<<n, m>> \in OpToRel(<, Nat))
    BY NatLessThanWellFounded, WFMin
<1>2. \A m, n \in Nat : n < m => <<n, m>> \in OpToRel(<, Nat)
    BY DEF OpToRel
<1>3. PICK m \in S : \A n \in S : ~ (<<n, m>> \in OpToRel(<, Nat))
    BY <1>1
<1>4. \A n \in S : m <= n
    <2>1. \A n \in S : ~ (n < m)
        BY <1>2, <1>3
    <2> QED
        BY <2>1
<1> QED
    BY <1>4 DEF Min

LEMMA Greatest ==
    ASSUME NEW top \in Nat, NEW S, S \subseteq 0..top, S # {}
    PROVE  Max(S) \in S /\ \A n \in S : n <= Max(S)
<1> DEFINE Mirror == {top - n : n \in S}
<1>1. Mirror \subseteq Nat /\ Mirror # {}
    <2>1. \A n \in S : top - n \in Nat
        OBVIOUS
    <2> QED
        BY <2>1
<1> HIDE DEF Mirror
<1>2. Min(Mirror) \in Mirror /\ \A n \in Mirror : Min(Mirror) <= n
    BY <1>1, Least
<1>3. PICK last \in S : Min(Mirror) = top - last
    BY <1>2 DEF Mirror
<1>4. \A n \in S : top - last <= top - n
    BY <1>2, <1>3 DEF Mirror
<1>5. \A n \in S : last >= n
    BY <1>4
<1> QED
    BY <1>5 DEF Max

LEMMA OccurrencesAreMinutes ==
    ASSUME NEW s \in Plan
    PROVE  Occurrences(s) \subseteq 1..(EndsAt + MaxTime + Every)
<1>1. s.kind \in {"once", "interval", "daily"}
    BY DEF Plan
<1>2. CASE s.kind = "once"
    BY <1>2, Constants DEF Occurrences
<1>3. CASE s.kind = "interval"
    BY <1>3, Constants DEF Occurrences
<1>4. CASE s.kind = "daily"
    BY <1>4, Constants DEF Occurrences
<1> QED
    BY <1>1, <1>2, <1>3, <1>4

\* The next multiple of a number.
LEMMA NextMultiple ==
    ASSUME NEW e \in Nat, e # 0, NEW a \in Nat
    PROVE  \E t \in Nat : a < t /\ t <= a + e /\ t % e = 0
<1> DEFINE t == a - (a % e) + e
<1>1. a % e \in 0..(e - 1)
    OBVIOUS
<1>2. t \in Nat /\ a < t /\ t <= a + e
    BY <1>1
<1>3. t % e = 0
    BY SMTT(30)
<1> QED
    BY <1>2, <1>3

LEMMA NextIsAfter ==
    ASSUME NEW s \in Plan, NEW after \in Nat, NextOccurrence(s, after) # Never
    PROVE  /\ NextOccurrence(s, after) \in Occurrences(s) /\ after < NextOccurrence(s, after)
<1> DEFINE later == {t \in Occurrences(s) : t > after}
<1>1. later # {} /\ NextOccurrence(s, after) = Min(later)
    BY DEF NextOccurrence
<1>2. later \subseteq Nat
    BY OccurrencesAreMinutes
<1>3. Min(later) \in later
    <2> HIDE DEF later
    <2> QED
        BY <1>1, <1>2, Least
<1> QED
    BY <1>1, <1>3

LEMMA NextExists ==
    ASSUME NEW s \in Plan, NEW after \in Nat, \E t \in Occurrences(s) : after < t
    PROVE  NextOccurrence(s, after) # Never
<1> DEFINE later == {t \in Occurrences(s) : t > after}
<1>1. later # {}
    <2>1. PICK t \in Occurrences(s) : after < t
        OBVIOUS
    <2>2. t \in Nat
        BY OccurrencesAreMinutes, Constants
    <2> QED
        BY <2>1, <2>2
<1>2. later \subseteq Nat
    BY OccurrencesAreMinutes
<1>3. Min(later) \in later
    <2> HIDE DEF later
    <2> QED
        BY <1>1, <1>2, Least
<1>4. NextOccurrence(s, after) = Min(later)
    BY <1>1 DEF NextOccurrence
<1> QED
    BY <1>2, <1>3, <1>4 DEF Never

\* A daily routine always falls due again.
LEMMA DailyGoesOn ==
    ASSUME NEW s \in Plan, s.kind = "daily", NEW after \in 0..MaxTime
    PROVE  NextOccurrence(s, after) # Never
<1>0. after \in Nat
    BY Constants
<1>1. PICK t \in Nat : after < t /\ t <= after + Every /\ t % Every = 0
    BY <1>0, NextMultiple, Constants
<1>2. t \in 1..(MaxTime + Every)
    BY <1>1, Constants
<1>3. t \in Occurrences(s)
    BY <1>1, <1>2 DEF Occurrences
<1> QED
    BY <1>0, <1>1, <1>3, NextExists

\* The newest check of an interval that is due.
LEMMA LatestIsPast ==
    ASSUME NEW s \in Plan, NEW at \in Nat, LatestOccurrence(s, at) # Never
    PROVE  /\ LatestOccurrence(s, at) \in Occurrences(s) /\ LatestOccurrence(s, at) <= at
           /\ \A t \in Occurrences(s) : t <= at => t <= LatestOccurrence(s, at)
<1> DEFINE past == {t \in Occurrences(s) : t <= at}
<1>1. past # {} /\ LatestOccurrence(s, at) = Max(past)
    BY DEF LatestOccurrence
<1>2. past \subseteq 0..at
    BY OccurrencesAreMinutes
<1>3. Max(past) \in past /\ \A n \in past : n <= Max(past)
    <2> HIDE DEF past
    <2> QED
        BY <1>1, <1>2, Greatest
<1> QED
    BY <1>1, <1>3

LEMMA LatestExists ==
    ASSUME NEW s \in Plan, NEW at \in Nat, NEW t \in Occurrences(s), t <= at
    PROVE  LatestOccurrence(s, at) # Never
<1> DEFINE past == {u \in Occurrences(s) : u <= at}
<1>1. past # {}
    OBVIOUS
<1>2. past \subseteq 0..at
    BY OccurrencesAreMinutes
<1>3. Max(past) \in past
    <2> HIDE DEF past
    <2> QED
        BY <1>1, <1>2, Greatest
<1>4. LatestOccurrence(s, at) = Max(past)
    BY <1>1 DEF LatestOccurrence
<1> QED
    BY <1>2, <1>3, <1>4 DEF Never

-----------------------------------------------------------------------------
(* Runs and the history cap. *)

LEMMA RunShape ==
    /\ \A x \in RunType : x # NoRun /\ x.status # "none"
    /\ NoRun.status = "none"
    /\ \A x \in RunType \cup {NoRun} : x = NoRun <=> x.status = "none"
BY DEF RunType, NoRun, Live, Working, Ended

LEMMA IdsAreFinite ==
    ASSUME NEW S, S \subseteq Runs
    PROVE  IsFiniteSet(S) /\ Cardinality(S) \in Nat
<1>1. IsFiniteSet(Runs)
    BY Constants, FS_Interval DEF Runs
<1> QED
    BY <1>1, FS_Subset, FS_CardinalityType

\* Only ended runs are dropped.
LEMMA PruneDrops ==
    ASSUME NEW runs \in Runsheet
    PROVE  /\ Prune(runs) \in Runsheet
           /\ \A i \in Runs : \/ Prune(runs)[i] = runs[i]
                              \/ Prune(runs)[i] = NoRun /\ runs[i].status \in Ended
BY DEF Prune, Runsheet, In

LEMMA PruneKeeps ==
    ASSUME NEW runs \in Runsheet
    PROVE  Kept(runs, Prune(runs))
BY PruneDrops DEF Kept

\* The cap holds after a save, but for live runs.
LEMMA PruneCaps ==
    ASSUME NEW runs \in Runsheet
    PROVE  Capped(Prune(runs))
<1> DEFINE ended == In(runs, Ended)
           excess == Cardinality(Ids(runs)) - Retain
           Before(i) == {j \in ended : j < i}
           evicted == {i \in ended : Cardinality(Before(i)) < excess}
           after == Prune(runs)
<1>1. after = [i \in Runs |-> IF i \in evicted THEN NoRun ELSE runs[i]]
    BY DEF Prune
<1>2. evicted \subseteq ended /\ ended \subseteq Ids(runs) /\ Ids(runs) \subseteq Runs
    BY RunShape DEF In, Ids, Ended
<1>3. Ids(after) = Ids(runs) \ evicted
    BY <1>1, <1>2 DEF Ids
<1>4. In(after, Ended) = ended \ evicted
    BY <1>1, <1>2, RunShape DEF In, Ended
<1> SUFFICES ASSUME ended \ evicted # {}
             PROVE  Cardinality(Ids(runs) \ evicted) <= Max({Retain, Cardinality(In(after, Live))})
    BY <1>3, <1>4 DEF Capped
<1>5. Cardinality(Ids(runs) \ evicted) \in Nat /\ Cardinality(Ids(runs)) \in Nat /\ Cardinality(evicted) \in Nat
    BY <1>2, IdsAreFinite
<1>6. Cardinality(Ids(runs) \ evicted) = Cardinality(Ids(runs)) - Cardinality(evicted)
    <2>1. Cardinality(Ids(runs) \ evicted) = Cardinality(Ids(runs)) - Cardinality(Ids(runs) \cap evicted)
        BY <1>2, IdsAreFinite, FS_Difference
    <2>2. Ids(runs) \cap evicted = evicted
        BY <1>2
    <2> QED
        BY <2>1, <2>2
<1>7. Cardinality(evicted) >= excess
    <2>1. ended \ evicted \subseteq Nat
        BY <1>2, Constants DEF Runs
    <2>2. PICK first \in ended \ evicted : \A n \in ended \ evicted : first <= n
        <3> HIDE DEF evicted, ended
        <3> QED
            BY <2>1, Least
    <2>3. Before(first) \subseteq evicted
        <3> SUFFICES ASSUME NEW j \in ended, j < first, j \notin evicted PROVE FALSE
            OBVIOUS
        <3> HIDE DEF evicted, ended, Before
        <3>1. first <= j
            BY <2>2
        <3> QED
            BY <2>1, <2>2, <3>1
    <2>4. Cardinality(Before(first)) \in Nat
        BY <1>2, IdsAreFinite
    <2>5. Cardinality(Before(first)) <= Cardinality(evicted)
        <3> HIDE DEF evicted, Before
        <3> QED
            BY <1>2, <2>3, IdsAreFinite, FS_Subset
    <2>6. ~ (Cardinality(Before(first)) < excess)
        BY <2>2
    <2> QED
        <3> HIDE DEF evicted, Before
        <3> QED
            BY <1>5, <2>4, <2>5, <2>6, Constants
<1>8. Cardinality(Ids(runs) \ evicted) <= Retain
    BY <1>5, <1>6, <1>7, Constants
<1>9. Cardinality(In(after, Live)) \in Nat
    BY IdsAreFinite DEF In
<1>10. Retain <= Max({Retain, Cardinality(In(after, Live))})
    <2> DEFINE live == Cardinality(In(after, Live))
               top == Retain + live
    <2> HIDE DEF live
    <2>1. {Retain, live} \subseteq 0..top /\ top \in Nat
        BY <1>9, Constants DEF live
    <2> HIDE DEF top
    <2>2. Retain <= Max({Retain, live})
        BY <2>1, Greatest
    <2> QED
        BY <2>2 DEF live
<1>11. Max({Retain, Cardinality(In(after, Live))}) \in Nat
    <2> DEFINE live == Cardinality(In(after, Live))
               top == Retain + live
    <2> HIDE DEF live
    <2>1. {Retain, live} \subseteq 0..top /\ top \in Nat
        BY <1>9, Constants DEF live
    <2> HIDE DEF top
    <2>2. Max({Retain, live}) \in {Retain, live}
        BY <2>1, Greatest
    <2> QED
        BY <2>2, <1>9, Constants DEF live
<1> QED
    BY <1>5, <1>8, <1>10, <1>11, Constants

-----------------------------------------------------------------------------
(* What keeps a snapshot sound. *)

Where == [state : {"on", "off", "gone"}, next : {Never} \cup Nat]

LEMMA SnapshotShape ==
    ASSUME NEW m
    PROVE  m \in StateType <=>
              /\ m = [runs |-> m.runs, routines |-> m.routines, receipts |-> m.receipts, seen |-> m.seen]
              /\ m.runs \in Runsheet /\ m.routines \in [Routines -> Where]
              /\ m.receipts \in SUBSET Cards /\ m.seen \in [Deliveries -> {Never} \cup 0..MaxTime]
BY DEF StateType, Runsheet, Where

\* Runs go on as they are, move on without being queued again, or are dropped.
Calm(x, y) ==
    \A i \in Runs : \/ y[i] = NoRun
                    \/ /\ x[i] # NoRun /\ y[i].of = x[i].of /\ y[i].by = x[i].by /\ y[i].due = x[i].due
                       /\ y[i].status = "queued" => x[i].status = "queued"

LEMMA SoundCalm ==
    ASSUME NEW p, NEW k, NEW c, NEW x, NEW y, Sound(p, x, k, c), y \in StateType,
           y.routines = x.routines, Calm(x.runs, y.runs)
    PROVE  Sound(p, y, k, c)
<1>1. /\ Ids(y.runs) \subseteq Ids(x.runs) /\ Scheduled(y.runs) \subseteq Scheduled(x.runs)
      /\ Scheduled(y.runs) \subseteq Runs
      /\ \A i \in Scheduled(y.runs) :
             /\ y.runs[i].of = x.runs[i].of /\ y.runs[i].due = x.runs[i].due
             /\ y.runs[i].status = "queued" => x.runs[i].status = "queued"
    BY DEF Calm, Ids, Scheduled
<1>2. Typed(p, y, k)
    BY <1>1 DEF Sound, Typed
<1>3. DueByNow(y, c)
    BY <1>1 DEF Sound, DueByNow
<1>4. DueBefore(p, y, k)
    BY <1>1 DEF Sound, DueBefore
<1>5. DueApart(p, y)
    BY <1>1 DEF Sound, DueApart
<1> QED
    BY <1>2, <1>3, <1>4, <1>5 DEF Sound

LEMMA RunsAreTyped ==
    ASSUME NEW x \in StateType
    PROVE  /\ Ids(x.runs) \subseteq Runs /\ Scheduled(x.runs) \subseteq Ids(x.runs)
           /\ \A i \in Ids(x.runs) : x.runs[i] \in RunType /\ x.runs[i].due \in Nat /\ x.runs[i].of \in Nat
BY SnapshotShape, Constants DEF Ids, Scheduled, Runsheet, RunType, Webhook

LEMMA SoundLater ==
    ASSUME NEW p, NEW k \in Nat, NEW l \in Nat, k <= l, NEW c \in Nat, NEW d \in Nat, c <= d,
           NEW x, Sound(p, x, k, c)
    PROVE  Sound(p, x, l, d)
<1>1. x \in StateType
    BY DEF Sound, Typed
<1>2. RoomForDue(l) => RoomForDue(k)
    BY Constants, FS_CardinalityType DEF RoomForDue
<1>3. Typed(p, x, l)
    BY <1>1, Constants DEF Sound, Typed, Ids, Runs
<1>4. DueByNow(x, d)
    <2> SUFFICES ASSUME NEW i \in Scheduled(x.runs) PROVE x.runs[i].of \in Routines /\ x.runs[i].due <= d
        BY DEF DueByNow
    <2>1. x.runs[i].due \in Nat
        BY <1>1, RunsAreTyped
    <2>2. x.runs[i].of \in Routines /\ x.runs[i].due <= c
        BY DEF Sound, DueByNow
    <2> QED
        BY <2>1, <2>2
<1>5. DueBefore(p, x, l)
    BY <1>2 DEF Sound, DueBefore
<1> QED
    BY <1>3, <1>4, <1>5 DEF Sound

\* Routines are turned off or removed, or turned on for a later occurrence.
Turned(p, w, v, r, c) ==
    \/ w[r] = v[r]
    \/ w[r].state \in {"off", "gone"} /\ w[r].next = Never
    \/ w[r].state = "on" /\ w[r].next = InitialOccurrence(p[r], c) /\ w[r].next # Never

LEMMA SoundTurned ==
    ASSUME NEW p \in [Routines -> Plans], NEW k, NEW c \in Nat, NEW x, NEW y,
           Sound(p, x, k, c), y \in StateType, y.runs = x.runs,
           \A r \in Routines : Turned(p, y.routines, x.routines, r, c)
    PROVE  /\ Sound(p, y, k, c)
           /\ \A r \in Routines : Recurring(p, r) /\ y.routines[r].next # Never =>
                  y.routines[r] = x.routines[r] \/ c < y.routines[r].next
<1>1. \A r \in Routines : Recurring(p, r) /\ y.routines[r].next # Never =>
          \/ y.routines[r] = x.routines[r]
          \/ c < y.routines[r].next /\ y.routines[r].next \in Occurrences(p[r])
    <2> SUFFICES ASSUME NEW r \in Routines, Recurring(p, r), y.routines[r].next # Never,
                        y.routines[r] # x.routines[r]
                 PROVE  c < y.routines[r].next /\ y.routines[r].next \in Occurrences(p[r])
        OBVIOUS
    <2>1. y.routines[r].next = NextOccurrence(p[r], c)
        BY DEF Turned, InitialOccurrence, Recurring
    <2>2. p[r] \in Plan
        BY Constants
    <2> QED
        BY <2>1, <2>2, NextIsAfter
<1>2. \A r \in Routines : y.routines[r].state = "on" <=> y.routines[r].next # Never
    BY DEF Sound, Typed, Turned
<1>3. Typed(p, y, k)
    BY <1>1, <1>2 DEF Sound, Typed
<1>4. DueByNow(y, c) /\ DueApart(p, y)
    BY DEF Sound, DueByNow, DueApart
<1>5. DueBefore(p, y, k)
    <2> SUFFICES ASSUME NEW i \in Scheduled(x.runs), NEW r, r = x.runs[i].of, Recurring(p, r),
                        y.routines[r].next # Never, RoomForDue(k)
                 PROVE  x.runs[i].due < y.routines[r].next
        BY DEF DueBefore
    <2>1. r \in Routines /\ x.runs[i].due <= c
        BY DEF Sound, DueByNow
    <2>2. CASE y.routines[r] = x.routines[r]
        BY <2>2 DEF Sound, DueBefore
    <2>3. CASE c < y.routines[r].next /\ y.routines[r].next \in Occurrences(p[r])
        <3>1. y.routines[r].next \in Nat /\ x.runs[i].due \in Nat
            <4>1. x \in StateType
                BY DEF Sound, Typed
            <4>2. x.runs[i].due \in Nat
                BY <4>1, RunsAreTyped
            <4>3. y.routines[r] \in Where
                BY <2>1, SnapshotShape
            <4> QED
                BY <4>2, <4>3 DEF Where
        <3> QED
            BY <2>1, <2>3, <3>1
    <2> QED
        BY <1>1, <2>1, <2>2, <2>3
<1> QED
    BY <1>1, <1>3, <1>4, <1>5 DEF Sound

\* A queued run of a routine that falls due later moves to a newer occurrence.
LEMMA SoundMoved ==
    ASSUME NEW p, NEW k, NEW c \in Nat, NEW now \in Nat, now <= c, NEW x, Sound(p, x, k, c),
           NEW i \in Scheduled(x.runs), x.runs[i].status = "queued",
           NEW t \in 0..MaxTime, x.runs[i].due < t, t <= now,
           RoomForDue(k) => \A r \in Routines : Recurring(p, r) /\ x.routines[r].next # Never => now < x.routines[r].next
    PROVE  Sound(p, [x EXCEPT !.runs[i].due = t], k, c)
<1> DEFINE y == [x EXCEPT !.runs[i].due = t]
<1>0. x \in StateType
    BY DEF Sound, Typed
<1>1. x.runs[i] \in RunType /\ i \in Runs /\ i \in Ids(x.runs)
    BY <1>0, RunsAreTyped
<1>2. /\ y.runs = [x.runs EXCEPT ![i].due = t] /\ y.routines = x.routines
      /\ y.receipts = x.receipts /\ y.seen = x.seen
      /\ y = [runs |-> y.runs, routines |-> y.routines, receipts |-> y.receipts, seen |-> y.seen]
    BY <1>0 DEF StateType
<1> HIDE DEF y
<1>3. [x.runs[i] EXCEPT !.due = t] \in RunType
    BY <1>1 DEF RunType
<1>4. x.runs \in Runsheet
    BY <1>0, SnapshotShape
<1>5. y.runs = [x.runs EXCEPT ![i] = [x.runs[i] EXCEPT !.due = t]]
    BY <1>2
<1>6. y.runs[i] = [x.runs[i] EXCEPT !.due = t] /\ \A j \in Runs \ {i} : y.runs[j] = x.runs[j]
    BY <1>5, <1>4, <1>1 DEF Runsheet
<1>7. y.runs[i].due = t /\ y.runs[i].of = x.runs[i].of /\ y.runs[i].by = x.runs[i].by /\ y.runs[i].status = x.runs[i].status
    BY <1>6, <1>1 DEF RunType
<1>8. y \in StateType
    <2>1. y.runs \in Runsheet
        BY <1>4, <1>5, <1>3 DEF Runsheet
    <2> QED
        BY <2>1, <1>0, <1>2, SnapshotShape
<1>9. y.runs[i] # NoRun
    BY <1>3, <1>6, RunShape
<1>10. Ids(y.runs) = Ids(x.runs) /\ Scheduled(y.runs) = Scheduled(x.runs)
    BY <1>1, <1>6, <1>7, <1>9 DEF Ids, Scheduled
<1>11. \A j \in Scheduled(x.runs) : j \in Runs /\ x.runs[j].due \in Nat
    BY <1>0, RunsAreTyped
<1>12. \A j \in Scheduled(x.runs) \ {i} : y.runs[j] = x.runs[j]
    BY <1>6, <1>11
<1>13. x.runs[i].of \in Routines
    BY DEF Sound, DueByNow
<1>14. Typed(p, y, k)
    BY <1>2, <1>8, <1>10 DEF Sound, Typed
<1>15. DueByNow(y, c)
    BY <1>7, <1>10, <1>12, <1>13 DEF Sound, DueByNow
<1>16. DueBefore(p, y, k)
    <2> SUFFICES ASSUME NEW j \in Scheduled(x.runs), NEW r, r = x.runs[j].of, Recurring(p, r),
                        x.routines[r].next # Never, RoomForDue(k)
                 PROVE  y.runs[j].due < x.routines[r].next
        BY <1>2, <1>7, <1>10, <1>12 DEF DueBefore
    <2>1. r \in Routines
        BY DEF Sound, DueByNow
    <2>2. CASE j # i
        BY <2>2, <1>12 DEF Sound, DueBefore
    <2>3. CASE j = i
        <3>1. x.routines[r].next \in Nat
            <4>1. x.routines[r] \in Where
                BY <2>1, <1>0, SnapshotShape
            <4> QED
                BY <4>1 DEF Where
        <3>2. now < x.routines[r].next
            BY <2>1
        <3> QED
            BY <2>3, <3>1, <3>2, <1>7
    <2> QED
        BY <2>2, <2>3
<1>17. DueApart(p, y)
    <2> SUFFICES ASSUME NEW j \in Scheduled(x.runs), NEW h \in Scheduled(x.runs), j # h,
                        y.runs[j].of = y.runs[h].of, Recurring(p, y.runs[j].of)
                 PROVE  /\ y.runs[j].due # y.runs[h].due
                        /\ y.runs[j].status = "queued" => y.runs[h].due < y.runs[j].due
        BY <1>10 DEF DueApart
    <2>1. /\ x.runs[j].of = x.runs[h].of /\ Recurring(p, x.runs[j].of)
          /\ y.runs[j].status = x.runs[j].status /\ y.runs[h].status = x.runs[h].status
        BY <1>7, <1>12
    <2>2. /\ x.runs[j].due # x.runs[h].due
          /\ x.runs[j].status = "queued" => x.runs[h].due < x.runs[j].due
          /\ x.runs[h].status = "queued" => x.runs[j].due < x.runs[h].due
        BY <2>1 DEF Sound, DueApart
    <2>3. CASE j = i
        <3>1. y.runs[h].due = x.runs[h].due
            BY <2>3, <1>12
        <3> QED
            BY <2>2, <2>3, <3>1, <1>7, <1>11
    <2>4. CASE h = i
        <3>1. y.runs[j].due = x.runs[j].due
            BY <2>4, <1>12
        <3> QED
            BY <2>1, <2>2, <2>4, <3>1, <1>7, <1>11
    <2>5. CASE j # i /\ h # i
        BY <2>1, <2>2, <2>5, <1>12
    <2> QED
        BY <2>3, <2>4, <2>5
<1> QED
    BY <1>14, <1>15, <1>16, <1>17 DEF Sound, y

\* A new run that is not scheduled takes the next id.
LEMMA SoundNewRun ==
    ASSUME NEW p, NEW k \in Nat, NEW c \in Nat, NEW x, Sound(p, x, k, c), k + 1 \in Runs,
           NEW run \in RunType, run.by # "schedule"
    PROVE  /\ Sound(p, [x EXCEPT !.runs[k + 1] = run], k + 1, c)
           /\ Kept(x.runs, [x EXCEPT !.runs[k + 1] = run].runs)
           /\ NoneBack(x.runs, [x EXCEPT !.runs[k + 1] = run].runs, k)
<1> DEFINE y == [x EXCEPT !.runs[k + 1] = run]
<1>0. x \in StateType
    BY DEF Sound, Typed
<1>1. /\ y.runs = [x.runs EXCEPT ![k + 1] = run] /\ y.routines = x.routines
      /\ y.receipts = x.receipts /\ y.seen = x.seen
      /\ y = [runs |-> y.runs, routines |-> y.routines, receipts |-> y.receipts, seen |-> y.seen]
    BY <1>0 DEF StateType
<1> HIDE DEF y
<1>2. x.runs \in Runsheet
    BY <1>0, SnapshotShape
<1>3. y.runs[k + 1] = run /\ \A j \in Runs \ {k + 1} : y.runs[j] = x.runs[j]
    BY <1>1, <1>2 DEF Runsheet
<1>4. y \in StateType
    <2>1. y.runs \in Runsheet
        BY <1>1, <1>2 DEF Runsheet
    <2> QED
        BY <2>1, <1>0, <1>1, SnapshotShape
<1>5. x.runs[k + 1] = NoRun
    BY Constants DEF Sound, Typed, Ids, Runs
<1>6. run # NoRun
    BY RunShape
<1>7. Ids(y.runs) = Ids(x.runs) \cup {k + 1} /\ Scheduled(y.runs) = Scheduled(x.runs)
    BY <1>3, <1>5, <1>6 DEF Ids, Scheduled
<1>8. \A j \in Scheduled(x.runs) : y.runs[j] = x.runs[j]
    BY <1>3, <1>5 DEF Scheduled, Ids
<1>9. Sound(p, x, k + 1, c)
    BY SoundLater
<1>10. Typed(p, y, k + 1)
    BY <1>1, <1>4, <1>7, <1>9 DEF Sound, Typed
<1>11. DueByNow(y, c)
    BY <1>7, <1>8 DEF Sound, DueByNow
<1>12. DueBefore(p, y, k + 1)
    BY <1>1, <1>7, <1>8, <1>9 DEF Sound, DueBefore
<1>13. DueApart(p, y)
    BY <1>7, <1>8 DEF Sound, DueApart
<1>14. Kept(x.runs, y.runs)
    BY <1>3, <1>5, RunShape DEF Kept, Ended
<1>15. NoneBack(x.runs, y.runs, k)
    BY <1>3, Constants DEF NoneBack, Runs
<1> QED
    BY <1>10, <1>11, <1>12, <1>13, <1>14, <1>15 DEF Sound, y

-----------------------------------------------------------------------------
(* The edits of the actions. *)

\* An edit of a snapshot that only lets its runs go on.
Lets(x, y) ==
    /\ y \in StateType /\ y.routines = x.routines /\ y.receipts = x.receipts /\ y.seen = x.seen
    /\ Calm(x.runs, y.runs)

LEMMA PrunedLets ==
    ASSUME NEW m \in StateType
    PROVE  /\ Lets(m, Pruned(m)) /\ Kept(m.runs, Pruned(m).runs) /\ Capped(Pruned(m).runs)
           /\ Pruned(m).runs = Prune(m.runs)
<1> DEFINE y == Pruned(m)
<1>1. /\ y.runs = Prune(m.runs) /\ y.routines = m.routines /\ y.receipts = m.receipts /\ y.seen = m.seen
      /\ y = [runs |-> y.runs, routines |-> y.routines, receipts |-> y.receipts, seen |-> y.seen]
    BY DEF Pruned, StateType
<1> HIDE DEF y
<1>2. m.runs \in Runsheet
    BY SnapshotShape
<1>3. y \in StateType
    BY <1>1, <1>2, PruneDrops, SnapshotShape
<1>4. Calm(m.runs, y.runs)
    BY <1>1, <1>2, PruneDrops DEF Calm
<1>5. Kept(m.runs, y.runs) /\ Capped(y.runs)
    BY <1>1, <1>2, PruneKeeps, PruneCaps
<1> QED
    BY <1>1, <1>3, <1>4, <1>5 DEF Lets, y

\* One run, at work or queued, moves on.
At(x, i, run) == [x EXCEPT !.runs = [x.runs EXCEPT ![i] = run]]

LEMMA RunMoves ==
    ASSUME NEW x \in StateType, NEW i \in Runs, NEW run \in RunType, x.runs[i].status \notin Ended, x.runs[i] # NoRun,
           run.of = x.runs[i].of, run.by = x.runs[i].by, run.due = x.runs[i].due,
           run.status = "queued" => x.runs[i].status = "queued"
    PROVE  /\ Lets(x, At(x, i, run)) /\ Kept(x.runs, At(x, i, run).runs)
           /\ At(x, i, run).runs[i] = run /\ \A j \in Runs \ {i} : At(x, i, run).runs[j] = x.runs[j]
<1> DEFINE y == At(x, i, run)
<1>1. /\ y.runs = [x.runs EXCEPT ![i] = run] /\ y.routines = x.routines
      /\ y.receipts = x.receipts /\ y.seen = x.seen
      /\ y = [runs |-> y.runs, routines |-> y.routines, receipts |-> y.receipts, seen |-> y.seen]
    BY DEF StateType, At
<1> HIDE DEF y
<1>2. x.runs \in Runsheet
    BY SnapshotShape
<1>3. y.runs[i] = run /\ \A j \in Runs \ {i} : y.runs[j] = x.runs[j]
    BY <1>1, <1>2 DEF Runsheet
<1>4. y \in StateType
    <2>1. y.runs \in Runsheet
        BY <1>1, <1>2 DEF Runsheet
    <2> QED
        BY <2>1, <1>1, SnapshotShape
<1>5. Calm(x.runs, y.runs)
    BY <1>3 DEF Calm
<1>6. Kept(x.runs, y.runs)
    BY <1>3 DEF Kept
<1> QED
    BY <1>1, <1>3, <1>4, <1>5, <1>6 DEF Lets, y

LEMMA EndAllRuns ==
    ASSUME NEW x \in StateType, NEW is, NEW status
    PROVE  EndAll(x, is, status).runs = [i \in Runs |-> IF i \in is THEN Closed(x.runs[i], status) ELSE x.runs[i]]
BY DEF EndAll, StateType

LEMMA EndAllLets ==
    ASSUME NEW x \in StateType, NEW is, \A i \in is : i \in Runs => x.runs[i].status \in Live,
           NEW status \in Ended
    PROVE  /\ Lets(x, EndAll(x, is, status)) /\ Kept(x.runs, EndAll(x, is, status).runs)
<1> DEFINE y == EndAll(x, is, status)
<1>1. /\ y.runs = [i \in Runs |-> IF i \in is THEN Closed(x.runs[i], status) ELSE x.runs[i]]
      /\ y.routines = x.routines /\ y.receipts = x.receipts /\ y.seen = x.seen
      /\ y = [runs |-> y.runs, routines |-> y.routines, receipts |-> y.receipts, seen |-> y.seen]
    BY DEF EndAll, StateType
<1> HIDE DEF y
<1>2. x.runs \in Runsheet
    BY SnapshotShape
<1>3. \A i \in Runs : i \in is => x.runs[i] \in RunType
    BY <1>2, RunShape DEF Runsheet, Live, Working
<1>4. \A i \in Runs : i \in is =>
          /\ Closed(x.runs[i], status) \in RunType /\ Closed(x.runs[i], status).status = status
          /\ Closed(x.runs[i], status).of = x.runs[i].of /\ Closed(x.runs[i], status).by = x.runs[i].by
          /\ Closed(x.runs[i], status).due = x.runs[i].due
    <2> SUFFICES ASSUME NEW i \in Runs, i \in is
                 PROVE  /\ Closed(x.runs[i], status) \in RunType /\ Closed(x.runs[i], status).status = status
                        /\ Closed(x.runs[i], status).of = x.runs[i].of /\ Closed(x.runs[i], status).by = x.runs[i].by
                        /\ Closed(x.runs[i], status).due = x.runs[i].due
        OBVIOUS
    <2>1. x.runs[i] \in RunType
        BY <1>3
    <2> QED
        BY <2>1 DEF Closed, RunType
<1>5. y \in StateType
    <2>1. y.runs \in Runsheet
        BY <1>1, <1>2, <1>4 DEF Runsheet
    <2> QED
        BY <2>1, <1>1, SnapshotShape
<1>6. \A i \in Runs : /\ i \in is => y.runs[i].status = status /\ y.runs[i] \in RunType
                      /\ i \notin is => y.runs[i] = x.runs[i]
    BY <1>1, <1>4
<1>7. Calm(x.runs, y.runs)
    <2>1. status # "queued"
        BY DEF Ended
    <2>2. \A i \in Runs : i \in is => x.runs[i] # NoRun /\ y.runs[i] = Closed(x.runs[i], status)
        BY <1>1, <1>3, RunShape
    <2> QED
        BY <1>4, <1>6, <2>1, <2>2 DEF Calm
<1>8. Kept(x.runs, y.runs)
    BY <1>6 DEF Kept, Live, Working, Ended
<1> QED
    BY <1>1, <1>5, <1>6, <1>7, <1>8 DEF Lets, y

-----------------------------------------------------------------------------
(* What a write, a failed write or no write leaves behind. *)


LEMMA CalmBringsNoneBack ==
    ASSUME NEW x, NEW y, Calm(x, y), NEW k
    PROVE  NoneBack(x, y, k)
BY DEF Calm, NoneBack

LEMMA KeptTwice ==
    ASSUME NEW x, NEW y, NEW z, NEW k, \A i \in Ids(x) : i <= k,
           Kept(x, y), Kept(y, z), NoneBack(y, z, k)
    PROVE  Kept(x, z)
<1> SUFFICES ASSUME NEW i \in Runs, x[i].status \in Ended
             PROVE  z[i] \in {x[i], NoRun}
    BY DEF Kept
<1>1. CASE y[i] = x[i]
    BY <1>1 DEF Kept
<1>2. CASE y[i] = NoRun
    <2>1. x[i] # NoRun
        BY RunShape DEF Ended
    <2>2. i <= k
        BY <2>1 DEF Ids
    <2> QED
        BY <1>2, <2>2 DEF NoneBack
<1> QED
    BY <1>1, <1>2 DEF Kept

LEMMA CalmStarts ==
    ASSUME NEW s, NEW k, NEW x, NEW y, NotAgain(x, s, k), Calm(x.runs, y.runs)
    PROVE  NotAgain(y, s, k)
BY RunShape DEF NotAgain, Calm

\* A snapshot and its edit by the rules of this step.
Edits1(x, m) ==
    /\ Sound(plan', m, made', clock') /\ NotAgain(m, starts', made')
    /\ Kept(x.runs, m.runs) /\ NoneBack(x.runs, m.runs, made)

LEMMA SaveFits ==
    ASSUME CopiesFit, made \in Nat, NEW m, Edits1(mem, m), mem' = Pruned(m), disk' = Pruned(m)
    PROVE  CopiesFit' /\ Kept(disk.runs, disk'.runs)
<1> DEFINE n == Pruned(m)
<1>1. m \in StateType
    BY DEF Edits1, Sound, Typed
<1>2. Lets(m, n) /\ Kept(m.runs, n.runs) /\ Capped(n.runs)
    BY <1>1, PrunedLets
<1> HIDE DEF n
<1>3. Sound(plan', n, made', clock')
    BY <1>2, SoundCalm DEF Edits1, Lets
<1>4. NotAgain(n, starts', made')
    BY <1>2, CalmStarts DEF Edits1, Lets
<1>5. Kept(disk.runs, n.runs)
    <2>1. \A i \in Ids(disk.runs) : i <= made
        BY DEF CopiesFit, Sound, Typed
    <2>2. Kept(disk.runs, m.runs)
        BY <2>1, KeptTwice DEF CopiesFit, Edits1
    <2>3. NoneBack(m.runs, n.runs, made)
        BY <1>2, CalmBringsNoneBack DEF Lets
    <2> QED
        BY <2>1, <2>2, <2>3, <1>2, KeptTwice
<1>6. mem' = n /\ disk' = n
    BY DEF n
<1>7. Kept(n.runs, n.runs)
    BY DEF Kept
<1> QED
    BY <1>2, <1>3, <1>4, <1>5, <1>6, <1>7 DEF CopiesFit

LEMMA NoSaveFits ==
    ASSUME CopiesFit, made \in Nat, NEW m, Edits1(mem, m), mem' = Pruned(m), disk' = disk,
           UNCHANGED <<plan, made, clock, starts>>, m.receipts = mem.receipts, m.seen = mem.seen
    PROVE  CopiesFit' /\ Kept(disk.runs, disk'.runs)
<1> DEFINE n == Pruned(m)
<1>1. m \in StateType
    BY DEF Edits1, Sound, Typed
<1>2. Lets(m, n) /\ Kept(m.runs, n.runs) /\ Capped(n.runs)
    BY <1>1, PrunedLets
<1> HIDE DEF n
<1>3. Sound(plan', n, made', clock')
    BY <1>2, SoundCalm DEF Edits1, Lets
<1>4. NotAgain(n, starts', made')
    BY <1>2, CalmStarts DEF Edits1, Lets
<1>5. Kept(disk.runs, n.runs)
    <2>1. \A i \in Ids(disk.runs) : i <= made
        BY DEF CopiesFit, Sound, Typed
    <2>2. Kept(disk.runs, m.runs)
        BY <2>1, KeptTwice DEF CopiesFit, Edits1
    <2>3. NoneBack(m.runs, n.runs, made)
        BY <1>2, CalmBringsNoneBack DEF Lets
    <2> QED
        BY <2>1, <2>2, <2>3, <1>2, KeptTwice
<1>6. mem' = n
    BY DEF n
<1>7. Kept(disk.runs, disk.runs)
    BY DEF Kept
<1>8. n.receipts = mem.receipts /\ n.seen = mem.seen
    BY <1>2 DEF Lets
<1> QED
    BY <1>2, <1>3, <1>4, <1>5, <1>6, <1>7, <1>8 DEF CopiesFit

LEMMA NoWriteFits ==
    ASSUME CopiesFit, made \in Nat, clock \in Nat, made' \in Nat, clock' \in Nat, made <= made', clock <= clock',
           UNCHANGED <<plan, mem, disk, starts>>
    PROVE  CopiesFit' /\ Kept(disk.runs, disk'.runs)
<1>1. Sound(plan', mem', made', clock') /\ Sound(plan', disk', made', clock')
    BY SoundLater DEF CopiesFit
<1>2. NotAgain(mem', starts', made') /\ NotAgain(disk', starts', made')
    BY Constants DEF CopiesFit, NotAgain, Runs
<1>3. Kept(disk.runs, disk'.runs)
    BY DEF Kept
<1> QED
    BY <1>1, <1>2, <1>3 DEF CopiesFit

LEMMA TickCalm ==
    ASSUME TickFits, made \in Nat, clock \in Nat, made' \in Nat, clock' \in Nat, made <= made', clock <= clock',
           plan' = plan, mem'.routines = mem.routines, tick' = tick \/ tick' = Idle
    PROVE  TickFits'
<1>1. RoomForDue(made') => RoomForDue(made)
    BY Constants, FS_CardinalityType DEF RoomForDue
<1>2. CASE tick' = tick
    <2>1. tick'.now <= clock'
        BY <1>2 DEF TickFits
    <2> QED
        BY <1>1, <1>2, <2>1 DEF TickFits, Recurring
<1>3. CASE tick' = Idle
    BY <1>3 DEF TickFits, Idle
<1> QED
    BY <1>2, <1>3

LEMMA CardsCalm ==
    ASSUME CardsFit, UNCHANGED <<answered, applied>>, mem'.receipts = mem.receipts
    PROVE  CardsFit'
BY DEF CardsFit

LEMMA DeliveriesCalm ==
    ASSUME DeliveriesFit, ShapeFits, clock' \in Nat, clock <= clock', accepts' = accepts, mem'.seen = mem.seen
    PROVE  DeliveriesFit'
<1> SUFFICES ASSUME NEW d \in Deliveries, accepts[d].n # 0, mem.seen[d] # accepts[d].at
             PROVE  mem.seen[d] = Never /\ clock' - accepts[d].at > RetryWindow
    BY DEF DeliveriesFit
<1>1. mem.seen[d] = Never /\ clock - accepts[d].at > RetryWindow
    BY DEF DeliveriesFit
<1>2. accepts[d].at \in Int /\ clock \in Nat
    BY Constants DEF ShapeFits
<1> QED
    BY <1>1, <1>2, Constants

LEMMA PrunedTruths ==
    ASSUME NEW m \in StateType, NEW trn, NEW tld, NEW k, Truths(m.runs, trn, tld, k)
    PROVE  Truths(Pruned(m).runs, trn, tld, k)
<1> DEFINE n == Pruned(m).runs
<1>1. /\ n \in Runsheet
      /\ \A i \in Runs : \/ n[i] = m.runs[i]
                         \/ n[i] = NoRun /\ m.runs[i].status \in Ended
    <2>1. m.runs \in Runsheet /\ n = Prune(m.runs)
        BY PrunedLets, SnapshotShape
    <2> QED
        BY <2>1, PruneDrops
<1> HIDE DEF n
<1>2. ASSUME NEW i \in Runs
      PROVE  TrueOf(n[i], trn[i], tld[i], i <= k)
    <2>1. TrueOf(m.runs[i], trn[i], tld[i], i <= k)
        BY DEF Truths
    <2>2. CASE n[i] = m.runs[i]
        BY <2>1, <2>2
    <2>3. CASE n[i] = NoRun /\ m.runs[i].status \in Ended
        BY <2>1, <2>3 DEF TrueOf, NoRun, Ended, Working, Lost
    <2> QED
        BY <1>1, <2>2, <2>3
<1>3. OneAtWork(n)
    <2>1. \A i \in Scheduled(n) : i \in Scheduled(m.runs) /\ n[i] = m.runs[i]
        BY <1>1 DEF Scheduled, Ids
    <2> QED
        BY <2>1 DEF Truths, OneAtWork
<1> QED
    BY <1>2, <1>3 DEF Truths, n

-----------------------------------------------------------------------------
(* Steps that edit the runs. *)

\* What a step may never do, beside the invariant.
Step ==
    /\ \A d \in Deliveries : accepts'[d].n > accepts[d].n /\ accepts[d].n > 0
           => clock - accepts[d].at > RetryWindow /\ ~ HasLiveRun(d)
    /\ Kept(disk.runs, disk'.runs)

Turns == {"none", "live", "asking", "away", "stopping"}

LEMMA Numbers ==
    ASSUME ShapeFits
    PROVE  /\ made \in Nat /\ made <= MaxRuns /\ clock \in Nat /\ clock <= MaxTime /\ failures \in Nat
           /\ plan \in [Routines -> Plans] /\ turn \in [Runs -> Turns]
           /\ starts \in [Runs -> Nat] /\ told \in [Runs -> Nat]
BY Constants DEF ShapeFits, Turns

LEMMA CopiesAreTyped ==
    ASSUME CopiesFit
    PROVE  /\ mem \in StateType /\ disk \in StateType /\ mem.runs \in Runsheet /\ disk.runs \in Runsheet
           /\ \A i \in Ids(mem.runs) : i <= made
           /\ \A i \in Ids(disk.runs) : i <= made
BY SnapshotShape DEF CopiesFit, Sound, Typed

LEMMA MemEdits ==
    ASSUME CopiesFit, UNCHANGED <<plan, made, clock, starts>>
    PROVE  Edits1(mem, mem)
BY DEF CopiesFit, Edits1, Kept, NoneBack

LEMMA LetsEdits ==
    ASSUME CopiesFit, NEW x, NEW y, Edits1(mem, x), Lets(x, y), Kept(x.runs, y.runs)
    PROVE  Edits1(mem, y)
<1>1. Sound(plan', y, made', clock')
    BY SoundCalm DEF Edits1, Lets
<1>2. NotAgain(y, starts', made')
    BY CalmStarts DEF Edits1, Lets
<1>3. \A k : NoneBack(x.runs, y.runs, k)
    BY CalmBringsNoneBack DEF Lets
<1>4. Kept(mem.runs, y.runs)
    BY <1>3, CopiesAreTyped, KeptTwice DEF Edits1
<1>5. NoneBack(mem.runs, y.runs, made)
    BY <1>3 DEF Edits1, NoneBack
<1> QED
    BY <1>1, <1>2, <1>4, <1>5 DEF Edits1

LEMMA WriteFits ==
    ASSUME IInv, NEW m, Edits1(mem, m), m.receipts = mem.receipts, m.seen = mem.seen,
           Saved(m) \/ (Unsaved(m) /\ UNCHANGED starts),
           UNCHANGED <<plan, answered, clock, made, applied, accepts>>
    PROVE  /\ CopiesFit' /\ CardsFit' /\ DeliveriesFit' /\ Step
           /\ mem' = Pruned(m) /\ mem'.routines = m.routines
           /\ failures' \in Nat /\ (failures' = 0 => failures = 0 /\ Saved(m))
<1>1. m \in StateType
    BY DEF Edits1, Sound, Typed
<1>2. mem' = Pruned(m)
    BY DEF Saved, Unsaved
<1>3. CopiesFit' /\ Kept(disk.runs, disk'.runs)
    <2>1. CASE Saved(m)
        BY <2>1, SaveFits, Numbers DEF IInv, Saved
    <2>2. CASE Unsaved(m) /\ UNCHANGED starts
        BY <2>2, NoSaveFits, Numbers DEF IInv, Unsaved
    <2> QED
        BY <2>1, <2>2
<1>4. mem'.receipts = mem.receipts /\ mem'.seen = mem.seen /\ mem'.routines = m.routines
    BY <1>1, <1>2, PrunedLets DEF Lets
<1>5. CardsFit' /\ DeliveriesFit'
    BY <1>4, CardsCalm, DeliveriesCalm, Numbers DEF IInv
<1>6. \A d \in Deliveries : ~ (accepts'[d].n > accepts[d].n)
    BY Numbers DEF IInv, ShapeFits
<1>7. failures' \in Nat /\ (failures' = 0 => failures = 0 /\ Saved(m))
    BY Numbers DEF Saved, Unsaved, WriteFails, IInv
<1> QED
    BY <1>2, <1>3, <1>4, <1>5, <1>6, <1>7 DEF Step

\* One run, its turn and its announcement change together.
LEMMA OneTruth ==
    ASSUME NEW x, NEW trn, NEW tld, NEW k, Truths(x, trn, tld, k), NEW i \in Runs,
           NEW y, NEW trn2, NEW tld2,
           \A j \in Runs \ {i} : y[j] = x[j] /\ trn2[j] = trn[j] /\ tld2[j] = tld[j],
           x[i] # NoRun, y[i].of = x[i].of, y[i].by = x[i].by,
           y[i].status \in Working =>
               \/ x[i].status \in Working
               \/ \A j \in Scheduled(x) : x[i].by = "schedule" /\ x[j].of = x[i].of => x[j].status \notin Working,
           TrueOf(y[i], trn2[i], tld2[i], i <= k)
    PROVE  Truths(y, trn2, tld2, k)
<1>1. \A j \in Runs : TrueOf(y[j], trn2[j], tld2[j], j <= k)
    BY DEF Truths
<1>2. OneAtWork(y)
    <2> SUFFICES ASSUME NEW h \in Scheduled(y), NEW j \in Scheduled(y), h # j, y[h].of = y[j].of,
                        y[h].status \in Working, y[j].status \in Working
                 PROVE  FALSE
        BY DEF OneAtWork
    <2>1. \A g \in Scheduled(y) : g \in Scheduled(x) /\ y[g].of = x[g].of /\ g \in Runs
        BY DEF Scheduled, Ids
    <2>2. \A g \in Scheduled(y) \ {i} : y[g] = x[g]
        BY <2>1
    <2>3. CASE h # i /\ j # i
        BY <2>1, <2>2, <2>3 DEF Truths, OneAtWork
    <2>4. CASE h = i
        <3>1. x[i].by = "schedule" /\ x[j].of = x[i].of /\ x[j].status \in Working
            BY <2>1, <2>2, <2>4 DEF Scheduled
        <3>2. x[i].status \in Working
            BY <2>1, <2>4, <3>1
        <3> QED
            BY <2>1, <2>4, <3>1, <3>2 DEF Truths, OneAtWork
    <2>5. CASE j = i
        <3>1. x[i].by = "schedule" /\ x[h].of = x[i].of /\ x[h].status \in Working
            BY <2>1, <2>2, <2>5 DEF Scheduled
        <3>2. x[i].status \in Working
            BY <2>1, <2>5, <3>1
        <3> QED
            BY <2>1, <2>5, <3>1, <3>2 DEF Truths, OneAtWork
    <2> QED
        BY <2>3, <2>4, <2>5
<1> QED
    BY <1>1, <1>2 DEF Truths

LEMMA TruthFits ==
    ASSUME NEW m \in StateType, Saved(m), Truths(m.runs, turn', told', made'), tick'.stale = <<>>
    PROVE  Truth'
<1>1. mem' = Pruned(m) /\ disk' = Pruned(m)
    BY DEF Saved
<1>2. Truths(Pruned(m).runs, turn', told', made')
    BY PrunedTruths
<1> QED
    BY <1>1, <1>2 DEF Truth

\* A live run moves on, with its turn and its announcement.
LEMMA MovesFit ==
    ASSUME IInv, NEW i \in Runs, NEW x, Edits1(mem, x), x.receipts = mem.receipts, x.seen = mem.seen,
           x.routines = mem.routines,
           \A j \in Runs \ {i} : x.runs[j] = mem.runs[j], mem.runs[i] # NoRun,
           x.runs[i].of = mem.runs[i].of, x.runs[i].by = mem.runs[i].by, x.runs[i].status = mem.runs[i].status,
           x.runs[i].status \in Live,
           NEW run \in RunType, run.of = x.runs[i].of, run.by = x.runs[i].by, run.due = x.runs[i].due,
           run.status = "queued" => x.runs[i].status = "queued",
           NEW m, m = At(x, i, run),
           Saved(m) \/ Unsaved(m), starts' = starts,
           UNCHANGED <<plan, answered, clock, made, applied, accepts>>,
           tick' = tick \/ tick' = Idle \/ TickFits',
           turn' \in [Runs -> Turns], told' \in [Runs -> Nat],
           \A j \in Runs \ {i} : turn'[j] = turn[j] /\ told'[j] = told[j],
           failures = 0 /\ Saved(m) =>
               /\ TrueOf(mem.runs[i], turn[i], told[i], i <= made) => TrueOf(run, turn'[i], told'[i], i <= made)
               /\ tick.stale = <<>> => tick'.stale = <<>>
               /\ run.status \in Working => mem.runs[i].status \in Working
    PROVE  IInv' /\ Step
<1>1. x \in StateType
    BY DEF Edits1, Sound, Typed
<1>2. x.runs[i].status \notin Ended /\ x.runs[i] # NoRun
    BY DEF Live, Working, Ended, NoRun
<1>3. /\ Lets(x, m) /\ Kept(x.runs, m.runs)
      /\ m.runs[i] = run /\ \A j \in Runs \ {i} : m.runs[j] = x.runs[j]
    <2>1. /\ run.of = x.runs[i].of /\ run.by = x.runs[i].by /\ run.due = x.runs[i].due
          /\ run.status = "queued" => x.runs[i].status = "queued"
          /\ m = At(x, i, run)
        OBVIOUS
    <2> QED
        BY ONLY <1>1, <1>2, <2>1, i \in Runs, run \in RunType, RunMoves
<1>4. Edits1(mem, m)
    BY <1>3, LetsEdits DEF IInv
<1>5. m.receipts = mem.receipts /\ m.seen = mem.seen /\ m.routines = mem.routines /\ m \in StateType
    BY <1>3 DEF Lets
<1>6. /\ CopiesFit' /\ CardsFit' /\ DeliveriesFit' /\ Step
      /\ mem' = Pruned(m) /\ mem'.routines = m.routines
      /\ failures' \in Nat /\ (failures' = 0 => failures = 0 /\ Saved(m))
    BY <1>4, <1>5, WriteFits
<1>7. TickFits'
    <2>1. CASE tick' = tick \/ tick' = Idle
        BY <2>1, <1>5, <1>6, TickCalm, Numbers DEF IInv
    <2> QED
        BY <2>1
<1>8. ShapeFits'
    <2>1. ShapeFits /\ UNCHANGED <<plan, answered, clock, made, applied, accepts, starts>>
        BY DEF IInv
    <2> QED
        BY <2>1, <1>6, turn' \in [Runs -> Turns], told' \in [Runs -> Nat] DEF ShapeFits, Turns
<1>9. failures' = 0 => Truth'
    <2> SUFFICES ASSUME failures' = 0 PROVE Truth'
        OBVIOUS
    <2>1. failures = 0 /\ Saved(m)
        BY <1>6
    <2>2. Truths(mem.runs, turn, told, made) /\ tick.stale = <<>>
        BY <2>1 DEF IInv, Truth
    <2>3. TrueOf(m.runs[i], turn'[i], told'[i], i <= made)
        BY <1>3, <2>1, <2>2 DEF Truths
    <2>4. \A j \in Runs \ {i} : m.runs[j] = mem.runs[j] /\ turn'[j] = turn[j] /\ told'[j] = told[j]
        BY <1>3
    <2>5. m.runs[i].of = mem.runs[i].of /\ m.runs[i].by = mem.runs[i].by
        BY <1>3
    <2>6. m.runs[i].status \in Working =>
              \/ mem.runs[i].status \in Working
              \/ \A j \in Scheduled(mem.runs) :
                     mem.runs[i].by = "schedule" /\ mem.runs[j].of = mem.runs[i].of => mem.runs[j].status \notin Working
        BY <1>3, <2>1
    <2>7. Truths(m.runs, turn', told', made')
        <3>1. made' = made /\ mem.runs[i] # NoRun
            OBVIOUS
        <3>2. Truths(m.runs, turn', told', made)
            BY ONLY <2>2, <2>3, <2>4, <2>5, <2>6, <3>1, i \in Runs, OneTruth
        <3> QED
            BY <3>1, <3>2
    <2> QED
        BY <1>5, <2>1, <2>2, <2>7, TruthFits
<1> QED
    BY <1>6, <1>7, <1>8, <1>9 DEF IInv

-----------------------------------------------------------------------------
(* The events of the engine's turns. *)

LEMMA EndsIsAt ==
    ASSUME NEW x \in StateType, NEW i \in Runs, NEW status
    PROVE  Ends(x, i, status) = At(x, i, Closed(x.runs[i], status))
<1>1. x.runs \in Runsheet
    BY SnapshotShape
<1>2. [j \in Runs |-> IF j \in {i} THEN Closed(x.runs[j], status) ELSE x.runs[j]]
        = [x.runs EXCEPT ![i] = Closed(x.runs[i], status)]
    BY <1>1 DEF Runsheet
<1>3. Ends(x, i, status)
        = [x EXCEPT !.runs = [j \in Runs |-> IF j \in {i} THEN Closed(x.runs[j], status) ELSE x.runs[j]]]
    BY DEF Ends, EndAll, StateType
<1> QED
    BY <1>2, <1>3 DEF At

LEMMA ClosedRun ==
    ASSUME NEW run \in RunType, NEW status \in Ended
    PROVE  /\ Closed(run, status) \in RunType /\ Closed(run, status).status = status
           /\ Closed(run, status).of = run.of /\ Closed(run, status).by = run.by
           /\ Closed(run, status).due = run.due
BY DEF Closed, RunType

LEMMA StatusIsAt ==
    ASSUME mem \in StateType, NEW i \in Runs, NEW status
    PROVE  Status(i, status) = At(mem, i, [mem.runs[i] EXCEPT !.status = status])
<1>1. mem.runs \in Runsheet
    BY SnapshotShape
<1>2. [mem.runs EXCEPT ![i].status = status] = [mem.runs EXCEPT ![i] = [mem.runs[i] EXCEPT !.status = status]]
    BY <1>1 DEF Runsheet
<1>3. Status(i, status) = [mem EXCEPT !.runs = [mem.runs EXCEPT ![i].status = status]]
    BY DEF Status, StateType
<1> QED
    BY <1>2, <1>3 DEF At

LEMMA LiveRuns ==
    ASSUME CopiesFit, NEW i \in Runs, mem.runs[i].status \in Live
    PROVE  mem.runs[i] \in RunType /\ mem.runs[i] # NoRun /\ i <= made
<1>1. mem.runs \in Runsheet /\ \A j \in Ids(mem.runs) : j <= made
    BY CopiesAreTyped
<1>2. mem.runs[i] # NoRun
    BY DEF NoRun, Live, Working
<1> QED
    BY <1>1, <1>2 DEF Runsheet, Ids

\* A run at work goes on.
LEMMA StatusFits ==
    ASSUME IInv, NEW i \in Runs, mem.runs[i].status \in Working, NEW status \in Working,
           SavedOrNot(Status(i, status)), NEW t \in Engaged, turn' = [turn EXCEPT ![i] = t],
           UNCHANGED <<plan, answered, clock, made, starts, applied, accepts, told, tick>>
    PROVE  IInv' /\ Step
<1> DEFINE run == [mem.runs[i] EXCEPT !.status = status]
           m == Status(i, status)
<1>1. mem.runs[i] \in RunType /\ mem.runs[i] # NoRun /\ mem.runs[i].status \in Live
    BY LiveRuns DEF Live, IInv
<1>2. /\ run \in RunType /\ run.status = status
      /\ run.of = mem.runs[i].of /\ run.by = mem.runs[i].by /\ run.due = mem.runs[i].due
    BY <1>1 DEF RunType, Live
<1> HIDE DEF run
<1>3. m = At(mem, i, run)
    BY StatusIsAt, CopiesAreTyped DEF IInv, run
<1>4. Edits1(mem, mem)
    BY MemEdits DEF IInv
<1>5. Saved(m) \/ Unsaved(m)
    BY DEF SavedOrNot
<1> HIDE DEF m
<1>6. /\ turn' \in [Runs -> Turns] /\ told' \in [Runs -> Nat]
      /\ turn'[i] = t /\ \A j \in Runs \ {i} : turn'[j] = turn[j] /\ told'[j] = told[j]
    BY Numbers DEF IInv, Engaged, Turns
<1>7. TrueOf(mem.runs[i], turn[i], told[i], i <= made) => TrueOf(run, turn'[i], told'[i], i <= made)
    BY <1>2, <1>6 DEF TrueOf, Working, Lost
<1>8. status # "queued"
    BY DEF Working
<1> QED
    BY <1>1, <1>2, <1>3, <1>4, <1>5, <1>6, <1>7, <1>8, MovesFit

\* A live run ends.
LEMMA EndsFits ==
    ASSUME IInv, NEW i \in Runs, mem.runs[i].status \in Live, NEW status \in Ended,
           SavedOrNot(Ends(mem, i, status)), NEW t \in Turns, turn' = [turn EXCEPT ![i] = t],
           told' \in [Runs -> Nat], \A j \in Runs \ {i} : told'[j] = told[j],
           Saved(Ends(mem, i, status)) =>
               /\ t \notin Engaged
               /\ told'[i] = IF status \in Lost THEN told[i] + 1 ELSE told[i],
           tick.stale = <<>> => tick'.stale = <<>>,
           tick' = tick \/ tick' = Idle \/ TickFits',
           UNCHANGED <<plan, answered, clock, made, starts, applied, accepts>>
    PROVE  IInv' /\ Step
<1> DEFINE run == Closed(mem.runs[i], status)
           m == Ends(mem, i, status)
<1>1. mem.runs[i] \in RunType /\ mem.runs[i] # NoRun /\ i <= made
    BY LiveRuns DEF IInv
<1>2. /\ run \in RunType /\ run.status = status
      /\ run.of = mem.runs[i].of /\ run.by = mem.runs[i].by /\ run.due = mem.runs[i].due
    BY <1>1, ClosedRun
<1> HIDE DEF run
<1>3. m = At(mem, i, run)
    BY EndsIsAt, CopiesAreTyped DEF IInv, run
<1>4. Edits1(mem, mem)
    BY MemEdits DEF IInv
<1>5. Saved(m) \/ Unsaved(m)
    BY DEF SavedOrNot
<1>6. /\ turn' \in [Runs -> Turns]
      /\ turn'[i] = t /\ \A j \in Runs \ {i} : turn'[j] = turn[j]
    BY Numbers DEF IInv
<1>7. Saved(m) /\ TrueOf(mem.runs[i], turn[i], told[i], i <= made) => TrueOf(run, turn'[i], told'[i], i <= made)
    <2> SUFFICES ASSUME Saved(m), TrueOf(mem.runs[i], turn[i], told[i], i <= made)
                 PROVE  TrueOf(run, t, told'[i], i <= made)
        BY <1>6
    <2>1. told[i] = 0
        BY DEF TrueOf, Live, Working, Lost
    <2>2. told'[i] = IF status \in Lost THEN 1 ELSE 0
        BY <2>1
    <2> QED
        BY <1>1, <1>2, <2>2 DEF TrueOf, Ended, Working, Lost
<1>8. status # "queued" /\ status \notin Working
    BY DEF Ended, Working
<1> HIDE DEF m
<1> QED
    BY <1>1, <1>2, <1>3, <1>4, <1>5, <1>6, <1>7, <1>8, MovesFit

\* A step that writes nothing.
LEMMA QuietFits ==
    ASSUME IInv, UNCHANGED <<plan, mem, disk, answered, made, starts, told, applied, accepts>>,
           clock' \in 0..MaxTime, clock <= clock', failures' \in Nat, turn' \in [Runs -> Turns],
           tick' = tick \/ tick' = Idle \/ TickFits',
           failures' = 0 =>
               /\ failures = 0
               /\ Truth => \A i \in Runs : turn'[i] \in Engaged <=> turn[i] \in Engaged
               /\ tick.stale = <<>> => tick'.stale = <<>>
    PROVE  IInv' /\ Step
<1>0. clock' \in Nat
    BY Constants
<1>1. CopiesFit' /\ Kept(disk.runs, disk'.runs)
    BY <1>0, NoWriteFits, Numbers DEF IInv
<1>2. CardsFit' /\ DeliveriesFit'
    BY <1>0, CardsCalm, DeliveriesCalm DEF IInv
<1>3. \A d \in Deliveries : ~ (accepts'[d].n > accepts[d].n)
    BY DEF IInv, ShapeFits
<1>4. TickFits'
    <2>1. CASE tick' = tick \/ tick' = Idle
        BY <2>1, <1>0, TickCalm, Numbers DEF IInv
    <2> QED
        BY <2>1
<1>5. ShapeFits'
    BY DEF IInv, ShapeFits, Turns
<1>6. failures' = 0 => Truth'
    BY DEF IInv, Truth, Truths, TrueOf
<1> QED
    BY <1>1, <1>2, <1>3, <1>4, <1>5, <1>6 DEF IInv, Step

LEMMA EngagedRuns ==
    ASSUME IInv, failures = 0, NEW i \in Runs
    PROVE  mem.runs[i].status \in Working <=> turn[i] \in Engaged
BY DEF IInv, Truth, Truths, TrueOf

\* The turn of a run at work goes on; any other hears nothing.
LEMMA GoesOnFits ==
    ASSUME IInv, NEW i \in Runs, turn[i] \in Engaged, NEW status \in Working, Hears(i, Status(i, status)),
           NEW t \in Engaged, turn' = [turn EXCEPT ![i] = t],
           UNCHANGED <<plan, answered, clock, made, starts, applied, accepts, told, tick>>
    PROVE  IInv' /\ Step
<1>1. CASE mem.runs[i].status \in Working
    BY <1>1, StatusFits DEF Hears
<1>2. CASE mem.runs[i].status \notin Working
    <2>1. UNCHANGED <<mem, disk, failures>>
        BY <1>2 DEF Hears
    <2>2. turn' \in [Runs -> Turns]
        BY Numbers DEF IInv, Turns, Engaged
    <2>3. \A j \in Runs : turn'[j] \in Engaged <=> turn[j] \in Engaged
        BY Numbers DEF IInv
    <2>4. clock' \in 0..MaxTime /\ clock <= clock' /\ failures' \in Nat
        BY <2>1, Numbers DEF IInv, ShapeFits
    <2> QED
        BY <2>1, <2>2, <2>3, <2>4, QuietFits
<1> QED
    BY <1>1, <1>2

LEMMA EventPlaces ==
    ASSUME Evented
    PROVE  UNCHANGED <<plan, answered, clock, made, starts, applied, accepts, tick>>
BY DEF Evented, env

LEMMA AsksFits ==
    ASSUME IInv, NEW i \in Runs, Asks(i) \/ Answers(i) \/ Delegates(i) \/ Returns(i)
    PROVE  IInv' /\ Step
<1>1. CASE Asks(i)
    BY <1>1, EventPlaces, GoesOnFits DEF Asks, Engaged, Working
<1>2. CASE Answers(i)
    BY <1>2, EventPlaces, GoesOnFits DEF Answers, Engaged, Working
<1>3. CASE Delegates(i)
    BY <1>3, EventPlaces, GoesOnFits DEF Delegates, Engaged, Working
<1>4. CASE Returns(i)
    BY <1>4, EventPlaces, GoesOnFits DEF Returns, Engaged, Working
<1> QED
    BY <1>1, <1>2, <1>3, <1>4

\* A turn ends that nobody listens to any more.
LEMMA UnheardEnds ==
    ASSUME IInv, NEW i \in Runs, mem.runs[i].status \notin Working, turn' = [turn EXCEPT ![i] = "none"],
           UNCHANGED <<plan, mem, disk, failures, answered, clock, made, starts, applied, accepts, told, tick>>
    PROVE  IInv' /\ Step
<1>1. turn' \in [Runs -> Turns]
    BY Numbers DEF IInv, Turns
<1>2. failures' = 0 => \A j \in Runs : turn'[j] \in Engaged <=> turn[j] \in Engaged
    BY EngagedRuns, Numbers DEF IInv, Engaged
<1>3. clock' \in 0..MaxTime /\ clock <= clock' /\ failures' \in Nat
    BY Numbers DEF IInv, ShapeFits
<1> QED
    BY <1>1, <1>2, <1>3, QuietFits

LEMMA CompletesFits ==
    ASSUME IInv, NEW i \in Runs, Completes(i)
    PROVE  IInv' /\ Step
<1>1. /\ turn' = [turn EXCEPT ![i] = "none"] /\ Hears(i, Ends(mem, i, "completed")) /\ told' = told
      /\ UNCHANGED <<plan, answered, clock, made, starts, applied, accepts, tick>>
    BY EventPlaces DEF Completes
<1>2. CASE mem.runs[i].status \notin Working
    BY <1>1, <1>2, UnheardEnds DEF Hears
<1>3. CASE mem.runs[i].status \in Working
    <2>1. SavedOrNot(Ends(mem, i, "completed")) /\ mem.runs[i].status \in Live
        BY <1>1, <1>3 DEF Hears, Live
    <2>2. "completed" \in Ended /\ "completed" \notin Lost /\ "none" \in Turns /\ "none" \notin Engaged
        BY DEF Ended, Lost, Turns, Engaged
    <2>3. told' \in [Runs -> Nat]
        BY <1>1, Numbers DEF IInv
    <2> QED
        BY <1>1, <2>1, <2>2, <2>3, EndsFits
<1> QED
    BY <1>2, <1>3

LEMMA ToldOne ==
    ASSUME IInv, NEW i \in Runs, Told({i})
    PROVE  /\ told' \in [Runs -> Nat] /\ told'[i] = told[i] + 1
           /\ \A j \in Runs \ {i} : told'[j] = told[j]
<1>1. told \in [Runs -> Nat]
    BY Numbers DEF IInv
<1> QED
    BY <1>1 DEF Told

LEMMA FailsFits ==
    ASSUME IInv, NEW i \in Runs, CannotReturn(i) \/ Breaks(i) \/ Stops(i)
    PROVE  IInv' /\ Step
<1>1. /\ turn' = [turn EXCEPT ![i] = "none"] /\ FailsRun(i)
      /\ UNCHANGED <<plan, answered, clock, made, starts, applied, accepts, tick>>
    BY EventPlaces DEF CannotReturn, Breaks, Stops
<1>2. CASE mem.runs[i].status \notin Working
    BY <1>1, <1>2, UnheardEnds DEF FailsRun
<1>3. CASE mem.runs[i].status \in Working
    <2>1. mem.runs[i].status \in Live
        BY <1>3 DEF Live
    <2>2. "failed" \in Ended /\ "failed" \in Lost /\ "none" \in Turns /\ "none" \notin Engaged
        BY DEF Ended, Lost, Turns, Engaged
    <2>3. CASE Saved(Ends(mem, i, "failed")) /\ Told({i})
        BY <1>1, <2>1, <2>2, <2>3, ToldOne, EndsFits DEF SavedOrNot
    <2>4. CASE Unsaved(Ends(mem, i, "failed")) /\ UNCHANGED told
        <3>1. told' \in [Runs -> Nat]
            BY <2>4, Numbers DEF IInv
        <3>2. ~ Saved(Ends(mem, i, "failed"))
            BY <2>4, Numbers DEF Saved, Unsaved, WriteFails, IInv
        <3> QED
            BY <1>1, <2>1, <2>2, <2>4, <3>1, <3>2, EndsFits DEF SavedOrNot
    <2> QED
        BY <1>1, <1>3, <2>3, <2>4 DEF FailsRun
<1> QED
    BY <1>2, <1>3

-----------------------------------------------------------------------------
(* Time, other turns, cancelled runs. *)

LEMMA WorldFits ==
    ASSUME IInv, Advances \/ GuestStarts \/ GuestEnds
    PROVE  IInv' /\ Step
<1>1. UNCHANGED <<plan, mem, disk, answered, made, starts, told, applied, accepts, turn, tick, failures>>
    BY DEF Advances, GuestStarts, GuestEnds, history
<1>2. clock' \in 0..MaxTime /\ clock <= clock'
    <2>1. clock \in Nat /\ clock <= MaxTime
        BY Numbers DEF IInv
    <2>2. clock' = clock \/ (clock' = clock + 1 /\ clock < MaxTime)
        BY DEF Advances, GuestStarts, GuestEnds
    <2> QED
        BY <2>1, <2>2, Constants
<1>3. turn' \in [Runs -> Turns] /\ failures' \in Nat
    BY <1>1, Numbers DEF IInv
<1> QED
    BY <1>1, <1>2, <1>3, QuietFits

LEMMA InterruptedOne ==
    ASSUME IInv, NEW i \in Runs, Interrupted({i})
    PROVE  \E t \in Turns : t \notin Engaged /\ turn' = [turn EXCEPT ![i] = t]
<1> DEFINE t == IF turn[i] \in {"live", "asking", "stopping"} THEN "stopping" ELSE "none"
<1>1. turn \in [Runs -> Turns]
    BY Numbers DEF IInv
<1>2. turn' = [turn EXCEPT ![i] = t]
    BY <1>1 DEF Interrupted
<1>3. t \in Turns /\ t \notin Engaged
    BY DEF Turns, Engaged
<1> QED
    BY <1>2, <1>3

LEMMA SavedIsNotUnsaved ==
    ASSUME IInv, NEW m, Unsaved(m), NEW n
    PROVE  ~ Saved(n) /\ failures' # failures /\ failures' \in Nat
BY Numbers DEF IInv, Saved, Unsaved, WriteFails

LEMMA CancelsFits ==
    ASSUME IInv, NEW i \in Runs, Cancels(i)
    PROVE  IInv' /\ Step
<1> DEFINE m == Ends(mem, i, "cancelled")
<1>1. /\ mem.runs[i].status \in Live
      /\ UNCHANGED <<plan, answered, clock, made, starts, applied, accepts, told, tick>>
    BY DEF Cancels, env, history
<1>2. "cancelled" \in Ended /\ "cancelled" \notin Lost
    BY DEF Ended, Lost
<1>3. told' \in [Runs -> Nat]
    BY <1>1, Numbers DEF IInv
<1>4. CASE Saved(m) /\ Interrupted({i})
    <2>1. PICK t \in Turns : t \notin Engaged /\ turn' = [turn EXCEPT ![i] = t]
        BY <1>4, InterruptedOne
    <2> QED
        BY <1>1, <1>2, <1>3, <1>4, <2>1, EndsFits DEF SavedOrNot
<1>5. CASE Unsaved(m) /\ UNCHANGED turn
    <2>1. turn[i] \in Turns /\ turn' = [turn EXCEPT ![i] = turn[i]]
        BY <1>5, Numbers DEF IInv
    <2>2. ~ Saved(m)
        BY <1>5, SavedIsNotUnsaved
    <2> QED
        BY <1>1, <1>2, <1>3, <1>5, <2>1, <2>2, EndsFits DEF SavedOrNot
<1> QED
    BY <1>4, <1>5 DEF Cancels

-----------------------------------------------------------------------------
(* The tick. *)

Ticks == {"idle", "interrupting", "dispatch", "starting"}

LEMMA TickShape ==
    ASSUME IInv
    PROVE  /\ tick = [at |-> tick.at, now |-> tick.now, todo |-> tick.todo, stale |-> tick.stale]
           /\ tick.at \in Ticks /\ tick.now \in Nat /\ tick.now <= clock /\ tick.todo \subseteq Runs
BY DEF IInv, TickFits, Ticks

LEMMA WalkShape ==
    ASSUME IInv
    PROVE  /\ Walk = [at |-> Walk.at, now |-> Walk.now, todo |-> Walk.todo, stale |-> Walk.stale]
           /\ Walk.now \in Nat /\ Walk.now <= clock /\ Walk.todo \subseteq Runs
           /\ Walk.stale \in {tick.stale, <<>>}
<1>1. CASE tick.at = "idle"
    <2>1. Walk = [at |-> "idle", now |-> clock, todo |-> Ids(mem.runs), stale |-> <<>>]
        BY <1>1 DEF Walk, Idle
    <2> QED
        BY <2>1, Numbers DEF Ids, IInv
<1>2. CASE tick.at # "idle"
    <2>1. Walk = tick
        BY <1>2 DEF Walk
    <2> QED
        BY <2>1, TickShape
<1> QED
    BY <1>1, <1>2

LEMMA TickEndsFits ==
    ASSUME IInv, TickEnds
    PROVE  IInv' /\ Step
<1>1. UNCHANGED <<plan, mem, disk, answered, made, starts, told, applied, accepts, turn, failures, clock>>
    BY DEF TickEnds, env, history
<1>2. tick' = Idle /\ Idle.stale = <<>>
    BY DEF TickEnds, Idle
<1>3. clock' \in 0..MaxTime /\ clock <= clock' /\ turn' \in [Runs -> Turns] /\ failures' \in Nat
    BY <1>1, Numbers DEF IInv, ShapeFits
<1> QED
    BY <1>1, <1>2, <1>3, QuietFits

LEMMA TimesOutFits ==
    ASSUME IInv, TimesOut
    PROVE  IInv' /\ Step
<1> DEFINE failed(i) == IF tick.stale = <<>> THEN Ends(mem, i, "failed") ELSE mem
           walked(i) == IF tick.stale = <<>> THEN <<>> ELSE <<[tick.stale[1] EXCEPT ![i].status = "failed"]>>
<1>1. UNCHANGED <<plan, answered, clock, made, starts, applied, accepts>>
    BY DEF TimesOut, env
<1>2. PICK i \in Walk.todo :
          /\ Overdue(i)
          /\ \/ /\ Saved(failed(i)) /\ Told({i}) /\ Interrupted({i})
                /\ tick' = [Walk EXCEPT !.at = "interrupting", !.stale = walked(i), !.todo = {j \in @ : j > i}]
             \/ /\ Unsaved(failed(i)) /\ tick' = Idle /\ UNCHANGED <<told, turn>>
    BY DEF TimesOut
<1>3. i \in Runs
    BY WalkShape
<1>4. SavedOrNot(failed(i))
    BY <1>2 DEF SavedOrNot
<1> HIDE DEF failed, walked
<1>5. TickFits' /\ tick'.stale \in {walked(i), <<>>}
    <2>1. CASE tick' = Idle
        BY <1>1, <2>1, Numbers DEF TickFits, Idle, IInv
    <2>2. CASE tick' = [Walk EXCEPT !.at = "interrupting", !.stale = walked(i), !.todo = {j \in @ : j > i}]
        <3>1. tick' = [at |-> "interrupting", now |-> Walk.now, todo |-> {j \in Walk.todo : j > i}, stale |-> walked(i)]
            BY <2>2, WalkShape
        <3>2. {j \in Walk.todo : j > i} \subseteq Runs /\ Walk.now \in Nat /\ Walk.now <= clock'
            BY <1>1, WalkShape
        <3> QED
            BY <3>1, <3>2 DEF TickFits
    <2> QED
        BY <1>2, <2>1, <2>2
<1>6. PICK t \in Turns : turn' = [turn EXCEPT ![i] = t] /\ (Saved(failed(i)) => t \notin Engaged)
    <2>1. CASE Saved(failed(i)) /\ Interrupted({i})
        BY <1>3, <2>1, InterruptedOne
    <2>2. CASE Unsaved(failed(i)) /\ UNCHANGED turn
        <3>1. turn[i] \in Turns /\ turn' = [turn EXCEPT ![i] = turn[i]]
            BY <1>3, <2>2, Numbers DEF IInv
        <3>2. ~ Saved(failed(i))
            BY <2>2, SavedIsNotUnsaved
        <3> QED
            BY <3>1, <3>2
    <2> QED
        BY <1>2, <2>1, <2>2
<1>7. /\ told' \in [Runs -> Nat] /\ \A j \in Runs \ {i} : told'[j] = told[j]
      /\ Saved(failed(i)) => told'[i] = told[i] + 1
    <2>1. CASE Told({i})
        BY <1>3, <2>1, ToldOne
    <2>2. CASE Unsaved(failed(i)) /\ UNCHANGED told
        BY <2>2, SavedIsNotUnsaved, Numbers DEF IInv
    <2> QED
        BY <1>2, <2>1, <2>2
<1>8. CASE tick.stale = <<>>
    <2>1. mem.runs[i].status \in Live
        BY <1>2, <1>8 DEF Overdue, Walked, Live
    <2>2. "failed" \in Ended /\ "failed" \in Lost
        BY DEF Ended, Lost
    <2>3. failed(i) = Ends(mem, i, "failed") /\ tick'.stale = <<>>
        BY <1>5, <1>8 DEF failed, walked
    <2> QED
        BY <1>1, <1>3, <1>4, <1>5, <1>6, <1>7, <2>1, <2>2, <2>3, EndsFits
<1>9. CASE tick.stale # <<>>
    <2>1. Saved(mem) \/ (Unsaved(mem) /\ UNCHANGED starts)
        BY <1>1, <1>4, <1>9 DEF SavedOrNot, failed
    <2>2. Edits1(mem, mem)
        BY <1>1, MemEdits DEF IInv
    <2>3. /\ CopiesFit' /\ CardsFit' /\ DeliveriesFit' /\ Step
          /\ failures' \in Nat /\ (failures' = 0 => failures = 0 /\ Saved(mem))
        BY <1>1, <2>1, <2>2, WriteFits
    <2>4. failures' # 0
        BY <1>9, <2>3 DEF IInv, Truth
    <2>5. turn' \in [Runs -> Turns]
        BY <1>6, Numbers DEF IInv
    <2>6. ShapeFits'
        BY <1>1, <1>7, <2>3, <2>5 DEF IInv, ShapeFits, Turns
    <2> QED
        BY <1>5, <2>3, <2>4, <2>6 DEF IInv
<1> QED
    BY <1>8, <1>9

-----------------------------------------------------------------------------
(* Edits of routines, the bot's end, restarts. *)

LEMMA RolledBackFits ==
    ASSUME IInv, RolledBack, UNCHANGED <<plan, answered, clock, made, starts, told, applied, accepts, turn>>
    PROVE  IInv' /\ Step
<1>1. failures' \in Nat /\ failures' # 0
    BY Numbers DEF RolledBack, WriteFails, IInv
<1>2. UNCHANGED <<mem, disk>>
    BY DEF RolledBack
<1>3. TickFits'
    <2>1. CASE tick' = tick
        BY <1>2, <2>1, TickCalm, Numbers DEF IInv
    <2>2. CASE tick' = [tick EXCEPT !.stale = <<mem.runs>>] /\ tick.at = "interrupting"
        <3>1. tick' = [at |-> "interrupting", now |-> tick.now, todo |-> tick.todo, stale |-> <<mem.runs>>]
            BY <2>2, TickShape
        <3>2. tick.todo \subseteq Runs /\ tick.now \in Nat /\ tick.now <= clock'
            BY TickShape
        <3> QED
            BY <3>1, <3>2 DEF TickFits
    <2> QED
        BY <2>1, <2>2 DEF RolledBack
<1>4. clock' \in 0..MaxTime /\ clock <= clock' /\ turn' \in [Runs -> Turns]
    BY Numbers DEF IInv, ShapeFits
<1> QED
    BY <1>1, <1>2, <1>3, <1>4, QuietFits

\* Runs end, and routines are turned on or off.
LEMMA TurnedFits ==
    ASSUME IInv, NEW x, Lets(mem, x), Kept(mem.runs, x.runs), NEW m \in StateType, m.runs = x.runs,
           m.receipts = mem.receipts, m.seen = mem.seen,
           \A r \in Routines : Turned(plan, m.routines, mem.routines, r, clock),
           Saved(m) \/ Unsaved(m), UNCHANGED <<plan, answered, clock, made, starts, told, applied, accepts, tick>>,
           turn' \in [Runs -> Turns],
           Saved(m) /\ Truths(mem.runs, turn, told, made) => Truths(m.runs, turn', told, made)
    PROVE  IInv' /\ Step
<1>1. Edits1(mem, x)
    BY MemEdits, LetsEdits DEF IInv
<1>2. Sound(plan, x, made, clock) /\ x.routines = mem.routines
    BY <1>1 DEF Edits1, Lets
<1>3. plan \in [Routines -> Plans] /\ clock \in Nat
    BY Numbers DEF IInv
<1>4. /\ Sound(plan, m, made, clock)
      /\ \A r \in Routines : Recurring(plan, r) /\ m.routines[r].next # Never =>
             m.routines[r] = mem.routines[r] \/ clock < m.routines[r].next
    BY <1>2, <1>3, SoundTurned
<1>5. Edits1(mem, m)
    BY <1>1, <1>4 DEF Edits1, NotAgain
<1>6. /\ CopiesFit' /\ CardsFit' /\ DeliveriesFit' /\ Step
      /\ mem' = Pruned(m) /\ mem'.routines = m.routines
      /\ failures' \in Nat /\ (failures' = 0 => failures = 0 /\ Saved(m))
    BY <1>5, WriteFits
<1>7. TickFits'
    <2>1. tick' = tick /\ clock' = clock /\ made' = made /\ plan' = plan
        OBVIOUS
    <2>2. ASSUME tick.at \in {"dispatch", "starting"}, RoomForDue(made), NEW r \in Routines,
                 Recurring(plan, r), m.routines[r].next # Never
          PROVE  tick.now < m.routines[r].next
        <3>1. CASE m.routines[r] = mem.routines[r]
            BY <2>2, <3>1 DEF IInv, TickFits
        <3>2. CASE clock < m.routines[r].next
            <4>1. m.routines[r].next \in Nat
                BY <2>2, SnapshotShape DEF Where
            <4> QED
                BY <3>2, <4>1, <1>3, TickShape
        <3> QED
            BY <2>2, <3>1, <3>2, <1>4
    <2>3. tick \in [at : {"idle", "interrupting", "dispatch", "starting"}, now : Nat, todo : SUBSET Runs, stale : {tick.stale}]
        BY DEF IInv, TickFits
    <2> QED
        BY <2>1, <2>2, <2>3, <1>6, TickShape DEF TickFits, Recurring
<1>8. ShapeFits'
    <2>1. ShapeFits /\ UNCHANGED <<plan, answered, clock, made, applied, accepts, starts, told>>
        BY DEF IInv
    <2> QED
        BY <2>1, <1>6, turn' \in [Runs -> Turns] DEF ShapeFits, Turns
<1>9. failures' = 0 => Truth'
    <2> SUFFICES ASSUME failures' = 0 PROVE Truth'
        OBVIOUS
    <2>1. Saved(m) /\ failures = 0
        BY <1>6
    <2>2. Truths(m.runs, turn', told', made') /\ tick'.stale = <<>>
        BY <2>1 DEF IInv, Truth
    <2> QED
        BY <2>1, <2>2, TruthFits
<1> QED
    BY <1>6, <1>7, <1>8, <1>9 DEF IInv

\* Ended runs stay true when their turns are not engaged any more.
LEMMA EndAllTruth ==
    ASSUME NEW x \in StateType, NEW is \in SUBSET Runs, \A i \in is : x.runs[i].status \in Live,
           NEW trn, NEW trn2, NEW tld, NEW k, Truths(x.runs, trn, tld, k),
           \A j \in Runs \ is : trn2[j] \in Engaged <=> trn[j] \in Engaged,
           \A i \in is : trn2[i] \notin Engaged,
           NEW status \in Ended, status \notin Lost
    PROVE  Truths(EndAll(x, is, status).runs, trn2, tld, k)
<1> DEFINE y == EndAll(x, is, status).runs
<1>1. status \notin Working
    BY DEF Ended, Working
<1>2. /\ Calm(x.runs, y)
      /\ \A i \in Runs : /\ i \in is => y[i].status = status
                         /\ i \notin is => y[i] = x.runs[i]
    <2>1. Lets(x, EndAll(x, is, status))
        BY EndAllLets
    <2>2. y = [i \in Runs |-> IF i \in is THEN Closed(x.runs[i], status) ELSE x.runs[i]]
        BY EndAllRuns
    <2>3. \A i \in is : x.runs[i] \in RunType
        BY SnapshotShape, RunShape DEF Runsheet, Live, Working
    <2>4. \A i \in is : Closed(x.runs[i], status).status = status
        BY <2>3, ClosedRun
    <2>5. Calm(x.runs, y)
        BY <2>1 DEF Lets
    <2> HIDE DEF y
    <2> QED
        BY <2>2, <2>4, <2>5
<1> HIDE DEF y
<1>3. ASSUME NEW j \in Runs
      PROVE  TrueOf(y[j], trn2[j], tld[j], j <= k)
    <2>1. TrueOf(x.runs[j], trn[j], tld[j], j <= k)
        BY DEF Truths
    <2>2. CASE j \notin is
        BY <1>2, <2>1, <2>2 DEF TrueOf
    <2>3. CASE j \in is
        <3>1. x.runs[j].status \notin Lost \cup {"none"}
            BY <2>3 DEF Live, Working, Lost
        <3>2. tld[j] = 0
            BY <2>1, <3>1 DEF TrueOf
        <3> QED
            BY <1>1, <1>2, <2>3, <3>2 DEF TrueOf
    <2> QED
        BY <2>2, <2>3
<1>4. OneAtWork(y)
    <2>1. \A j \in Scheduled(y) : /\ j \in Scheduled(x.runs) /\ y[j].of = x.runs[j].of
                                  /\ y[j].status \in Working => x.runs[j].status \in Working
        BY <1>1, <1>2 DEF Calm, Scheduled, Ids
    <2> QED
        BY <2>1 DEF Truths, OneAtWork
<1> QED
    BY <1>3, <1>4 DEF Truths, y

LEMMA InitialIsNat ==
    ASSUME IInv, NEW r \in Routines
    PROVE  InitialOccurrence(plan[r], clock) \in {Never} \cup Nat
<1>1. plan[r] \in Plan /\ clock \in Nat
    BY Numbers, Constants DEF IInv
<1>2. CASE plan[r].kind = "once"
    BY <1>2, Constants DEF InitialOccurrence
<1>3. CASE plan[r].kind # "once"
    BY <1>1, <1>3, NextIsAfter, OccurrencesAreMinutes DEF InitialOccurrence
<1> QED
    BY <1>2, <1>3

\* A routine's place is written.
LEMMA RoutineWritten ==
    ASSUME NEW x \in StateType, NEW r \in Routines, NEW w \in Where
    PROVE  LET m == [x EXCEPT !.routines[r] = w] IN
           /\ m \in StateType /\ m.runs = x.runs /\ m.receipts = x.receipts /\ m.seen = x.seen
           /\ m.routines[r] = w /\ \A q \in Routines \ {r} : m.routines[q] = x.routines[q]
<1> DEFINE m == [x EXCEPT !.routines[r] = w]
<1>1. /\ m.routines = [x.routines EXCEPT ![r] = w] /\ m.runs = x.runs
      /\ m.receipts = x.receipts /\ m.seen = x.seen
      /\ m = [runs |-> m.runs, routines |-> m.routines, receipts |-> m.receipts, seen |-> m.seen]
    BY DEF StateType
<1> HIDE DEF m
<1>2. x.routines \in [Routines -> Where]
    BY SnapshotShape
<1>3. m.routines \in [Routines -> Where]
    BY <1>1, <1>2
<1>4. m \in StateType
    BY <1>1, <1>3, SnapshotShape
<1> QED
    BY <1>1, <1>2, <1>4 DEF m

LEMMA StopsFits ==
    ASSUME IInv, NEW r \in Routines, NEW state \in {"off", "gone"},
           Commits([EndAll(mem, QueuedOf(r), "cancelled") EXCEPT !.routines[r] = [state |-> state, next |-> Never]]),
           UNCHANGED <<plan, answered, clock, made, starts, told, applied, accepts, turn>>
    PROVE  IInv' /\ Step
<1> DEFINE is == QueuedOf(r)
           x == EndAll(mem, is, "cancelled")
           w == [state |-> state, next |-> Never]
           m == [x EXCEPT !.routines[r] = w]
<1>1. CASE RolledBack
    BY <1>1, RolledBackFits
<1>2. CASE Saved(m) /\ UNCHANGED tick
    <2>1. is \in SUBSET Runs /\ \A i \in is : mem.runs[i].status = "queued"
        BY DEF QueuedOf, OfRoutine, Ids
    <2>2. mem \in StateType
        BY CopiesAreTyped DEF IInv
    <2>3. "cancelled" \in Ended /\ \A i \in is : mem.runs[i].status \in Live /\ mem.runs[i].status \notin Working
        BY <2>1 DEF Ended, Live, Working
    <2> HIDE DEF is
    <2>4. Lets(mem, x) /\ Kept(mem.runs, x.runs)
        BY <2>1, <2>2, <2>3, EndAllLets
    <2>5. Truths(mem.runs, turn, told, made) => Truths(x.runs, turn', told, made)
        <3> SUFFICES ASSUME Truths(mem.runs, turn, told, made)
                     PROVE  Truths(x.runs, turn', told, made)
            OBVIOUS
        <3>1. \A i \in is : turn'[i] \notin Engaged
            BY <2>1, <2>3 DEF Truths, TrueOf
        <3> QED
            BY <2>1, <2>2, <2>3, <3>1, EndAllTruth DEF Lost
    <2> HIDE DEF x
    <2>6. x \in StateType /\ x.receipts = mem.receipts /\ x.seen = mem.seen /\ x.routines = mem.routines
        BY <2>4 DEF Lets
    <2>7. w \in Where
        BY DEF Where
    <2> HIDE DEF w
    <2>8. /\ m \in StateType /\ m.runs = x.runs /\ m.receipts = x.receipts /\ m.seen = x.seen
          /\ m.routines[r] = w /\ \A q \in Routines \ {r} : m.routines[q] = x.routines[q]
        BY <2>6, <2>7, RoutineWritten
    <2> HIDE DEF m
    <2>9. \A q \in Routines : Turned(plan, m.routines, mem.routines, q, clock)
        BY <2>6, <2>8 DEF Turned, w
    <2>10. turn' \in [Runs -> Turns]
        BY Numbers DEF IInv
    <2> QED
        BY <1>2, <2>4, <2>5, <2>6, <2>8, <2>9, <2>10, TurnedFits
<1> QED
    BY <1>1, <1>2 DEF Commits

LEMMA ResumesFits ==
    ASSUME IInv, NEW r \in Routines, Resumes(r),
           UNCHANGED <<plan, answered, clock, made, starts, told, applied, accepts, turn>>
    PROVE  IInv' /\ Step
<1> DEFINE w == [state |-> "on", next |-> InitialOccurrence(plan[r], clock)]
           m == [mem EXCEPT !.routines[r] = w]
<1>1. CASE RolledBack
    BY <1>1, RolledBackFits
<1>2. CASE Saved(m) /\ UNCHANGED tick
    <2>1. w \in Where
        BY InitialIsNat DEF Where
    <2>2. w.next # Never
        <3>1. plan[r] \in Plan /\ clock \in 0..MaxTime
            BY Numbers, Constants DEF IInv, ShapeFits
        <3>2. CASE plan[r].kind = "once"
            BY <3>2, Constants DEF InitialOccurrence, Never
        <3>3. CASE plan[r].kind = "interval"
            BY <3>3 DEF Resumes
        <3>4. CASE plan[r].kind = "daily"
            BY <3>1, <3>4, DailyGoesOn DEF InitialOccurrence
        <3> QED
            BY <3>1, <3>2, <3>3, <3>4 DEF Plan
    <2>3. w.state = "on" /\ w.next = InitialOccurrence(plan[r], clock)
        OBVIOUS
    <2> HIDE DEF w
    <2>4. mem \in StateType
        BY CopiesAreTyped DEF IInv
    <2>5. /\ m \in StateType /\ m.runs = mem.runs /\ m.receipts = mem.receipts /\ m.seen = mem.seen
          /\ m.routines[r] = w /\ \A q \in Routines \ {r} : m.routines[q] = mem.routines[q]
        BY <2>1, <2>4, RoutineWritten
    <2> HIDE DEF m
    <2>6. \A q \in Routines : Turned(plan, m.routines, mem.routines, q, clock)
        BY <2>2, <2>3, <2>5 DEF Turned
    <2>7. turn' \in [Runs -> Turns]
        BY Numbers DEF IInv
    <2>8. Lets(mem, mem) /\ Kept(mem.runs, mem.runs)
        BY <2>4 DEF Lets, Calm, Kept
    <2> QED
        BY <1>2, <2>5, <2>6, <2>7, <2>8, TurnedFits
<1> QED
    BY <1>1, <1>2 DEF Commits, Resumes

LEMMA EditsFits ==
    ASSUME IInv, Edits
    PROVE  IInv' /\ Step
<1>1. UNCHANGED <<plan, answered, clock, made, starts, told, applied, accepts, turn>>
    BY DEF Edits, env, history
<1>2. PICK r \in Routines : Pauses(r) \/ Resumes(r) \/ Removes(r)
    BY DEF Edits
<1>3. CASE Resumes(r)
    BY <1>1, <1>3, ResumesFits
<1>4. CASE Pauses(r)
    BY <1>1, <1>4, StopsFits DEF Pauses
<1>5. CASE Removes(r)
    BY <1>1, <1>5, StopsFits DEF Removes
<1> QED
    BY <1>2, <1>3, <1>4, <1>5

LEMMA InterruptedAll ==
    ASSUME IInv, NEW is \in SUBSET Runs, Interrupted(is)
    PROVE  /\ turn' \in [Runs -> Turns]
           /\ \A i \in is : turn'[i] \notin Engaged
           /\ \A j \in Runs \ is : turn'[j] = turn[j]
<1>1. turn \in [Runs -> Turns]
    BY Numbers DEF IInv
<1> QED
    BY <1>1 DEF Interrupted, Turns, Engaged

LEMMA DeletesBotFits ==
    ASSUME IInv, DeletesBot
    PROVE  IInv' /\ Step
<1> DEFINE live == In(mem.runs, Live)
           x == EndAll(mem, live, "cancelled")
           on == {r \in Routines : mem.routines[r].state = "on"}
           places == [r \in Routines |-> IF r \in on THEN [state |-> "off", next |-> Never] ELSE mem.routines[r]]
           m == [x EXCEPT !.routines = places]
<1>0. mem \in StateType
    BY CopiesAreTyped DEF IInv
<1>1. live \in SUBSET Runs /\ \A i \in live : mem.runs[i].status \in Live
    BY DEF In
<1>2. "cancelled" \in Ended /\ "cancelled" \notin Lost
    BY DEF Ended, Lost
<1> HIDE DEF live
<1>3. Lets(mem, x) /\ Kept(mem.runs, x.runs)
    BY <1>0, <1>1, <1>2, EndAllLets
<1>4. x.routines = mem.routines /\ x \in StateType /\ x.receipts = mem.receipts /\ x.seen = mem.seen
    BY <1>3 DEF Lets
<1>5. /\ SavedOrNot(m) /\ Interrupted(live)
      /\ UNCHANGED <<plan, answered, clock, made, starts, told, applied, accepts, tick>>
    <2>1. SavedOrNot([x EXCEPT !.routines = [r \in Routines |-> IF r \in on THEN [state |-> "off", next |-> Never] ELSE @[r]]])
        BY DEF DeletesBot, live
    <2>2. [x EXCEPT !.routines = [r \in Routines |-> IF r \in on THEN [state |-> "off", next |-> Never] ELSE @[r]]] = m
        <3> HIDE DEF x, on
        <3> QED
            BY <1>4
    <2> QED
        BY <2>1, <2>2 DEF DeletesBot, history, live
<1>6. Truths(mem.runs, turn, told, made) => Truths(x.runs, turn', told, made)
    BY <1>0, <1>1, <1>2, <1>5, InterruptedAll, EndAllTruth
<1> HIDE DEF x
<1>7. places \in [Routines -> Where] /\ \A r \in Routines : Turned(plan, places, mem.routines, r, clock)
    <2>1. mem.routines \in [Routines -> Where]
        BY <1>0, SnapshotShape
    <2> QED
        BY <2>1 DEF Where, Turned
<1> HIDE DEF places
<1>8. m \in StateType /\ m.runs = x.runs /\ m.receipts = mem.receipts /\ m.seen = mem.seen /\ m.routines = places
    <2>1. /\ m.routines = places /\ m.runs = x.runs /\ m.receipts = x.receipts /\ m.seen = x.seen
          /\ m = [runs |-> m.runs, routines |-> m.routines, receipts |-> m.receipts, seen |-> m.seen]
        BY <1>4 DEF StateType
    <2> HIDE DEF m
    <2> QED
        BY <2>1, <1>4, <1>7, SnapshotShape
<1> HIDE DEF m
<1>9. turn' \in [Runs -> Turns]
    BY <1>1, <1>5, InterruptedAll
<1>10. Saved(m) \/ Unsaved(m)
    BY <1>5 DEF SavedOrNot
<1> QED
    BY <1>3, <1>5, <1>6, <1>7, <1>8, <1>9, <1>10, TurnedFits

LEMMA SoundSame ==
    ASSUME NEW p, NEW k, NEW c, NEW x, NEW y, Sound(p, x, k, c), y \in StateType,
           y.runs = x.runs, y.routines = x.routines
    PROVE  Sound(p, y, k, c)
BY DEF Sound, Typed, DueByNow, DueBefore, DueApart

\* A snapshot is written with other receipts and deliveries.
LEMMA Rewritten ==
    ASSUME NEW x \in StateType, NEW receipts \in SUBSET Cards, NEW seen \in [Deliveries -> {Never} \cup 0..MaxTime],
           NEW m, m = [runs |-> x.runs, routines |-> x.routines, receipts |-> receipts, seen |-> seen]
    PROVE  /\ m \in StateType /\ m.runs = x.runs /\ m.routines = x.routines
           /\ m.receipts = receipts /\ m.seen = seen
BY SnapshotShape

LEMMA RestartsFits ==
    ASSUME IInv, Restarts
    PROVE  IInv' /\ Step
<1> DEFINE torn == Torn(disk.runs)
           x == EndAll(disk, torn, "failed")
           m == [x EXCEPT !.receipts = x.receipts \ answered]
           n == Pruned(m)
<1>0. disk \in StateType
    BY CopiesAreTyped DEF IInv
<1>1. torn \in SUBSET Runs /\ \A i \in Runs : i \in torn <=> disk.runs[i].status \in Working
    BY DEF Torn, In
<1>2. "failed" \in Ended /\ "failed" \in Lost /\ "failed" \notin Working
    BY DEF Ended, Lost, Working
<1>3. /\ mem' = n /\ disk' = n /\ Told(torn) /\ tick' = Idle /\ turn' = [i \in Runs |-> "none"]
      /\ UNCHANGED <<plan, answered, clock, failures, made, starts, applied, accepts>>
    BY DEF Restarts
<1> HIDE DEF torn
<1>4. Lets(disk, x) /\ Kept(disk.runs, x.runs)
    BY <1>0, <1>1, <1>2, EndAllLets DEF Live
<1>5. /\ x.routines = disk.routines /\ x \in StateType /\ x.receipts = disk.receipts /\ x.seen = disk.seen
      /\ Calm(disk.runs, x.runs)
    BY <1>4 DEF Lets
<1>6. x.runs = [i \in Runs |-> IF i \in torn THEN Closed(disk.runs[i], "failed") ELSE disk.runs[i]]
    BY <1>0, EndAllRuns
<1> HIDE DEF x
<1>7. m = [runs |-> x.runs, routines |-> x.routines, receipts |-> x.receipts \ answered, seen |-> x.seen]
    <2>1. x = [runs |-> x.runs, routines |-> x.routines, receipts |-> x.receipts, seen |-> x.seen]
        BY <1>5, SnapshotShape
    <2> QED
        BY ONLY <2>1
<1>8. /\ m \in StateType /\ m.runs = x.runs /\ m.routines = x.routines
      /\ m.receipts = x.receipts \ answered /\ m.seen = x.seen
    BY <1>5, <1>7, SnapshotShape
<1> HIDE DEF m
<1>9. Lets(m, n) /\ Kept(m.runs, n.runs) /\ Capped(n.runs)
    BY <1>8, PrunedLets
<1>10. Sound(plan, n, made, clock) /\ NotAgain(n, starts, made)
    <2>1. Sound(plan, m, made, clock)
        BY <1>5, <1>8, SoundCalm DEF IInv, CopiesFit
    <2>2. NotAgain(m, starts, made)
        BY <1>5, <1>8, CalmStarts DEF IInv, CopiesFit
    <2> QED
        BY <2>1, <2>2, <1>9, SoundCalm, CalmStarts DEF Lets
<1>11. Kept(disk.runs, n.runs)
    <2>1. NoneBack(m.runs, n.runs, made)
        BY <1>9, CalmBringsNoneBack DEF Lets
    <2> QED
        BY <1>4, <1>8, <1>9, <2>1, CopiesAreTyped, KeptTwice DEF IInv
<1>12. n.receipts = mem.receipts \ answered /\ n.seen = mem.seen
    BY <1>5, <1>8, <1>9 DEF Lets, IInv, CopiesFit
<1>13. failures' = 0 => Truths(n.runs, turn', told', made')
    <2> SUFFICES ASSUME failures = 0 PROVE Truths(m.runs, turn', told', made')
        BY <1>3, <1>8, PrunedTruths
    <2>1. disk = mem /\ Truths(disk.runs, turn, told, made)
        BY DEF IInv, Truth
    <2>2. told \in [Runs -> Nat]
        BY Numbers DEF IInv
    <2>3. ASSUME NEW i \in Runs
          PROVE  TrueOf(m.runs[i], turn'[i], told'[i], i <= made')
        <3>1. TrueOf(disk.runs[i], turn[i], told[i], i <= made) /\ turn'[i] = "none" /\ "none" \notin Engaged
            BY <2>1, <1>3 DEF Truths, Engaged
        <3>2. CASE i \in torn
            <4>1. disk.runs[i] \in RunType /\ disk.runs[i].status \notin Lost \cup {"none"} /\ i <= made
                <5>1. mem.runs[i].status \in Live
                    BY <1>1, <3>2, <2>1 DEF Live
                <5> QED
                    BY <1>1, <3>2, <5>1, <2>1, LiveRuns DEF IInv, Working, Lost
            <4>2. told[i] = 0 /\ told'[i] = told[i] + 1
                BY <1>3, <2>2, <3>1, <3>2, <4>1 DEF TrueOf, Told
            <4>3. m.runs[i].status = "failed"
                BY <1>2, <1>6, <1>8, <3>2, <4>1, ClosedRun
            <4> QED
                BY <1>2, <1>3, <3>1, <4>1, <4>2, <4>3 DEF TrueOf
        <3>3. CASE i \notin torn
            <4>1. m.runs[i] = disk.runs[i] /\ told'[i] = told[i] /\ disk.runs[i].status \notin Working
                BY <1>1, <1>3, <1>6, <1>8, <2>2, <3>3 DEF Told
            <4> QED
                BY <1>3, <3>1, <4>1 DEF TrueOf
        <3> QED
            BY <3>2, <3>3
    <2>4. OneAtWork(m.runs)
        <3>1. \A i \in Runs : m.runs[i].status \notin Working
            BY <2>3, <1>3 DEF TrueOf, Engaged
        <3> QED
            BY <3>1 DEF OneAtWork, Scheduled, Ids
    <2> QED
        BY <2>3, <2>4 DEF Truths
<1> HIDE DEF n
<1>14. CopiesFit'
    <2>1. Kept(n.runs, n.runs)
        BY DEF Kept
    <2> QED
        BY <2>1, <1>3, <1>9, <1>10 DEF CopiesFit
<1>15. TickFits'
    BY <1>3, Numbers DEF TickFits, Idle, IInv
<1>16. CardsFit' /\ DeliveriesFit'
    BY <1>3, <1>12 DEF IInv, CardsFit, DeliveriesFit
<1>17. ShapeFits'
    <2>1. told' \in [Runs -> Nat]
        BY <1>3, Numbers DEF Told, IInv
    <2> QED
        BY <2>1, <1>3 DEF IInv, ShapeFits
<1>18. failures' = 0 => Truth'
    BY <1>3, <1>13 DEF Truth, Idle
<1>19. Step
    BY <1>3, <1>11 DEF Step, IInv, ShapeFits
<1> QED
    BY <1>14, <1>15, <1>16, <1>17, <1>18, <1>19 DEF IInv

-----------------------------------------------------------------------------
(* New runs that are asked for: run now, confirmed cards, deliveries. *)

LEMMA NewRunShape ==
    ASSUME NEW of \in Routines \cup {Webhook}, NEW by \in {"manual", "webhook"}, NEW key \in Deliveries \cup {"none"}
    PROVE  /\ NewRun(of, by, 0, key) \in RunType /\ NewRun(of, by, 0, key).status = "queued"
           /\ NewRun(of, by, 0, key).by # "schedule"
BY Constants DEF NewRun, RunType, Live

\* A snapshot that says the same of runs and routines is as sound.
LEMMA SameEdits ==
    ASSUME NEW x, NEW m \in StateType, m.runs = x.runs, m.routines = x.routines, Edits1(mem, x)
    PROVE  Edits1(mem, m)
BY SoundSame DEF Edits1, NotAgain

LEMMA NewRunEdits ==
    ASSUME IInv, made < MaxRuns, made' = made + 1, UNCHANGED <<plan, clock, starts>>,
           NEW run \in RunType, run.by # "schedule", run.status = "queued"
    PROVE  /\ Edits1(mem, WithRun(mem, run))
           /\ WithRun(mem, run).routines = mem.routines
           /\ WithRun(mem, run).receipts = mem.receipts /\ WithRun(mem, run).seen = mem.seen
           /\ WithRun(mem, run) \in StateType
           /\ Truths(mem.runs, turn, told, made) => Truths(WithRun(mem, run).runs, turn, told, made')
<1> DEFINE m == [mem EXCEPT !.runs[made + 1] = run]
<1>1. made \in Nat /\ clock \in Nat /\ made + 1 \in Runs /\ starts \in [Runs -> Nat]
    BY Numbers, Constants DEF IInv, Runs
<1>2. WithRun(mem, run) = m
    BY DEF WithRun
<1>3. /\ Sound(plan, m, made + 1, clock)
      /\ Kept(mem.runs, m.runs) /\ NoneBack(mem.runs, m.runs, made)
    BY <1>1, SoundNewRun DEF IInv, CopiesFit
<1>4. /\ m.runs = [mem.runs EXCEPT ![made + 1] = run]
      /\ m.routines = mem.routines /\ m.receipts = mem.receipts /\ m.seen = mem.seen
    BY CopiesAreTyped DEF IInv, StateType
<1>5. m \in StateType
    BY <1>3 DEF Sound, Typed
<1> HIDE DEF m
<1>6. m.runs[made + 1] = run /\ \A j \in Runs \ {made + 1} : m.runs[j] = mem.runs[j]
    BY <1>1, <1>4, CopiesAreTyped DEF IInv, Runsheet
<1>7. NotAgain(m, starts, made + 1)
    BY <1>1, <1>6, Constants DEF IInv, CopiesFit, NotAgain, Runs
<1>8. mem.runs[made + 1] = NoRun
    BY <1>1, CopiesAreTyped DEF IInv, Ids
<1>9. ASSUME Truths(mem.runs, turn, told, made)
      PROVE  Truths(m.runs, turn, told, made + 1)
    <2>1. ASSUME NEW i \in Runs
          PROVE  TrueOf(m.runs[i], turn[i], told[i], i <= made + 1)
        <3>1. TrueOf(mem.runs[i], turn[i], told[i], i <= made)
            BY <1>9 DEF Truths
        <3>2. CASE i # made + 1
            <4>1. i <= made => i <= made + 1
                BY <1>1, Constants DEF Runs
            <4> QED
                BY <1>6, <3>1, <3>2, <4>1 DEF TrueOf
        <3>3. CASE i = made + 1
            <4>1. ~ (i <= made)
                BY <1>1, <3>3
            <4>2. turn[i] \notin Engaged /\ told[i] = 0
                BY <1>8, <3>1, <3>3, <4>1 DEF TrueOf, NoRun, Working
            <4> QED
                BY <1>6, <3>3, <4>2 DEF TrueOf, Working, Lost
        <3> QED
            BY <3>2, <3>3
    <2>2. OneAtWork(m.runs)
        <3>1. \A j \in Scheduled(m.runs) : j \in Scheduled(mem.runs) /\ m.runs[j] = mem.runs[j]
            BY <1>6 DEF Scheduled, Ids
        <3> QED
            BY <1>9, <3>1 DEF Truths, OneAtWork
    <2> QED
        BY <2>1, <2>2 DEF Truths
<1> QED
    BY <1>2, <1>3, <1>4, <1>5, <1>7, <1>9 DEF Edits1

\* What is written where both copies change together.
LEMMA BothFit ==
    ASSUME IInv, NEW m, Edits1(mem, m), mem' = Pruned(m), disk' = Pruned(m)
    PROVE  /\ CopiesFit' /\ Kept(disk.runs, disk'.runs) /\ mem'.routines = m.routines
           /\ mem'.receipts = m.receipts /\ mem'.seen = m.seen
<1>1. m \in StateType
    BY DEF Edits1, Sound, Typed
<1>2. CopiesFit' /\ Kept(disk.runs, disk'.runs)
    BY SaveFits, Numbers DEF IInv
<1> QED
    BY <1>1, <1>2, PrunedLets DEF Lets

LEMMA RunNowFits ==
    ASSUME IInv, RunNow
    PROVE  IInv' /\ Step
<1> DEFINE run == NewRun(Target, "manual", 0, "none")
           m == WithRun(mem, run)
<1>1. /\ made < MaxRuns
      /\ UNCHANGED <<plan, answered, clock, starts, told, applied, accepts, turn>>
    BY DEF RunNow, env
<1>2. CASE RolledBack /\ UNCHANGED made
    BY <1>1, <1>2, RolledBackFits
<1>3. CASE Saved(m) /\ made' = made + 1 /\ UNCHANGED tick
    <2>1. run \in RunType /\ run.status = "queued" /\ run.by # "schedule"
        BY NewRunShape, Constants
    <2> HIDE DEF run
    <2>2. /\ Edits1(mem, m) /\ m.routines = mem.routines /\ m.receipts = mem.receipts /\ m.seen = mem.seen
          /\ m \in StateType
          /\ Truths(mem.runs, turn, told, made) => Truths(m.runs, turn, told, made')
        BY <1>1, <1>3, <2>1, NewRunEdits
    <2> HIDE DEF m
    <2>3. /\ CopiesFit' /\ Kept(disk.runs, disk'.runs) /\ mem'.routines = mem.routines
          /\ mem'.receipts = mem.receipts /\ mem'.seen = mem.seen
        BY <1>3, <2>2, BothFit DEF Saved
    <2>4. made' \in Nat /\ made' \in 0..MaxRuns /\ made <= made' /\ clock' \in Nat /\ clock <= clock'
        BY <1>1, <1>3, Numbers, Constants DEF IInv
    <2>5. TickFits' /\ CardsFit' /\ DeliveriesFit'
        BY <1>1, <1>3, <2>3, <2>4, TickCalm, CardsCalm, DeliveriesCalm, Numbers DEF IInv
    <2>6. ShapeFits'
        BY <1>1, <1>3, <2>4 DEF IInv, ShapeFits, Saved
    <2>7. failures' = 0 => Truth'
        <3> SUFFICES ASSUME failures = 0 PROVE Truth'
            BY <1>3 DEF Saved
        <3>1. Truths(m.runs, turn', told', made') /\ tick'.stale = <<>>
            BY <1>1, <1>3, <2>2 DEF IInv, Truth
        <3> QED
            BY <1>3, <2>2, <3>1, TruthFits
    <2>8. Step
        BY <1>1, <2>3 DEF Step, IInv, ShapeFits
    <2> QED
        BY <2>3, <2>5, <2>6, <2>7, <2>8 DEF IInv
<1> QED
    BY <1>1, <1>2, <1>3 DEF RunNow

LEMMA ReceiptsWritten ==
    ASSUME NEW x \in StateType, NEW receipts \in SUBSET Cards
    PROVE  LET m == [x EXCEPT !.receipts = receipts] IN
           /\ m \in StateType /\ m.runs = x.runs /\ m.routines = x.routines
           /\ m.receipts = receipts /\ m.seen = x.seen
<1> DEFINE m == [x EXCEPT !.receipts = receipts]
<1>1. x = [runs |-> x.runs, routines |-> x.routines, receipts |-> x.receipts, seen |-> x.seen]
    BY SnapshotShape
<1>2. m = [runs |-> x.runs, routines |-> x.routines, receipts |-> receipts, seen |-> x.seen]
    BY ONLY <1>1
<1> HIDE DEF m
<1>3. /\ m.runs = x.runs /\ m.routines = x.routines /\ m.receipts = receipts /\ m.seen = x.seen
    BY <1>2
<1>4. m \in StateType
    BY <1>2, <1>3, SnapshotShape
<1> QED
    BY <1>3, <1>4 DEF m

\* The tick's place after other runs took the place of those it walks.
LEMMA TickDetached ==
    ASSUME IInv, NEW rs, tick' = [tick EXCEPT !.stale = <<rs>>], tick.at = "interrupting",
           UNCHANGED clock
    PROVE  TickFits'
<1>1. tick' = [at |-> "interrupting", now |-> tick.now, todo |-> tick.todo, stale |-> <<rs>>]
    BY TickShape
<1>2. tick.todo \subseteq Runs /\ tick.now \in Nat /\ tick.now <= clock'
    BY TickShape
<1> QED
    BY <1>1, <1>2 DEF TickFits

\* A card that was carried out is settled, or its receipt stays.
LEMMA SettlesFits ==
    ASSUME IInv, NEW q \in Cards, NEW c \in StateType, Edits1(mem, c), c.routines = mem.routines, c.seen = mem.seen,
           SettlesCard(q, c), q \in c.receipts, made' \in 0..MaxRuns, made <= made',
           UNCHANGED <<plan, clock, starts, told, turn, accepts>>,
           applied' \in [Cards -> {0, 1}], applied'[q] = 1,
           \A p \in Cards \ {q} : applied'[p] = applied[p] /\ (p \in c.receipts <=> p \in mem.receipts),
           Truths(mem.runs, turn, told, made) => Truths(c.runs, turn, told, made')
    PROVE  IInv' /\ Step
<1> DEFINE settled == [c EXCEPT !.receipts = c.receipts \ {q}]
<1>0. c.receipts \in SUBSET Cards
    BY SnapshotShape
<1>1. /\ settled \in StateType /\ settled.runs = c.runs /\ settled.routines = c.routines
      /\ settled.receipts = c.receipts \ {q} /\ settled.seen = c.seen
    BY <1>0, ReceiptsWritten
<1>2. \/ Saved(settled) /\ answered' = answered \cup {q} /\ UNCHANGED tick
      \/ /\ WriteFails /\ mem' = Pruned(c) /\ disk' = Pruned(c) /\ answered' \in {answered, answered \cup {q}}
         /\ \/ tick' = tick
            \/ tick' = [tick EXCEPT !.stale = <<Prune(c.runs)>>] /\ tick.at = "interrupting"
    BY DEF SettlesCard
<1> HIDE DEF settled
<1>3. Edits1(mem, settled)
    BY <1>1, SameEdits
<1>4. PICK m \in {c, settled} : mem' = Pruned(m) /\ disk' = Pruned(m) /\ (m = settled => q \in answered')
    <2>1. c # settled
        BY <1>1
    <2>2. CASE Saved(settled) /\ answered' = answered \cup {q}
        BY <2>2 DEF Saved
    <2>3. CASE mem' = Pruned(c) /\ disk' = Pruned(c)
        BY <2>1, <2>3
    <2> QED
        BY <1>2, <2>2, <2>3
<1>5. /\ CopiesFit' /\ Kept(disk.runs, disk'.runs) /\ mem'.routines = m.routines
      /\ mem'.receipts = m.receipts /\ mem'.seen = m.seen
    BY <1>3, <1>4, BothFit
<1>6. made' \in Nat /\ clock \in Nat /\ clock' \in Nat /\ clock <= clock' /\ made \in Nat
    BY Numbers, Constants DEF IInv
<1>7. TickFits'
    <2>1. CASE tick' = tick
        BY <1>1, <1>4, <1>5, <1>6, <2>1, TickCalm DEF IInv
    <2> QED
        BY <1>2, <2>1, TickDetached
<1>8. DeliveriesFit'
    BY <1>1, <1>4, <1>5, <1>6, DeliveriesCalm DEF IInv
<1>9. CardsFit'
    <2> SUFFICES ASSUME NEW p \in Cards
                 PROVE  /\ applied'[p] = 0 => p \notin mem'.receipts \cup answered'
                        /\ applied'[p] = 1 => p \in mem'.receipts \cup answered'
        BY DEF CardsFit
    <2>1. answered' \in {answered, answered \cup {q}}
        BY <1>2
    <2>2. CASE p = q
        BY <1>4, <1>5, <2>2
    <2>3. CASE p # q
        <3>1. p \in mem'.receipts <=> p \in mem.receipts
            BY <1>1, <1>4, <1>5, <2>3
        <3>2. p \in answered' <=> p \in answered
            BY <2>1, <2>3
        <3>3. applied'[p] = applied[p]
            BY <2>3
        <3> QED
            BY <3>1, <3>2, <3>3 DEF IInv, CardsFit
    <2> QED
        BY <2>2, <2>3
<1>10. failures' \in Nat /\ (failures' = 0 => failures = 0 /\ Saved(settled) /\ tick' = tick)
    BY <1>2, Numbers DEF Saved, WriteFails, IInv
<1>11. ShapeFits'
    <2>1. answered' \subseteq Cards
        BY <1>2 DEF IInv, ShapeFits
    <2> QED
        BY <2>1, <1>10 DEF IInv, ShapeFits
<1>12. failures' = 0 => Truth'
    <2> SUFFICES ASSUME failures' = 0 PROVE Truth'
        OBVIOUS
    <2>1. failures = 0 /\ Saved(settled) /\ tick' = tick
        BY <1>10
    <2>2. Truths(settled.runs, turn', told', made') /\ tick'.stale = <<>>
        BY <1>1, <2>1 DEF IInv, Truth
    <2> QED
        BY <1>1, <2>1, <2>2, TruthFits
<1>13. Step
    BY <1>5 DEF Step, IInv, ShapeFits
<1> QED
    BY <1>5, <1>7, <1>8, <1>9, <1>11, <1>12, <1>13 DEF IInv

LEMMA ConfirmsFits ==
    ASSUME IInv, NEW q \in Cards, Confirms(q)
    PROVE  IInv' /\ Step
<1> DEFINE run == NewRun(Target, "manual", 0, "none")
           x == WithRun(mem, run)
           c == [x EXCEPT !.receipts = x.receipts \cup {q}]
<1>0. mem \in StateType /\ mem.receipts \in SUBSET Cards
    BY CopiesAreTyped, SnapshotShape DEF IInv
<1>1. q \notin answered /\ UNCHANGED <<plan, clock, starts, told, turn, accepts>>
    BY DEF Confirms, env
<1>2. applied \in [Cards -> {0, 1}] /\ made \in 0..MaxRuns
    BY DEF IInv, ShapeFits
<1>3. CASE q \in mem.receipts /\ SettlesCard(q, mem) /\ UNCHANGED <<made, applied>>
    <2>1. applied'[q] = 1
        BY <1>2, <1>3 DEF IInv, CardsFit
    <2>2. Edits1(mem, mem)
        BY <1>1, <1>3, MemEdits DEF IInv
    <2>3. made' \in 0..MaxRuns /\ made <= made' /\ applied' \in [Cards -> {0, 1}]
        BY <1>2, <1>3, Constants
    <2>4. /\ Truths(mem.runs, turn, told, made) => Truths(mem.runs, turn, told, made')
          /\ \A p \in Cards \ {q} : applied'[p] = applied[p]
        BY <1>3
    <2> QED
        BY <1>0, <1>1, <1>3, <2>1, <2>2, <2>3, <2>4, SettlesFits
<1>4. CASE /\ q \notin mem.receipts /\ made < MaxRuns
           /\ SettlesCard(q, c) /\ made' = made + 1 /\ applied' = [applied EXCEPT ![q] = @ + 1]
    <2>1. run \in RunType /\ run.status = "queued" /\ run.by # "schedule"
        BY NewRunShape, Constants
    <2> HIDE DEF run
    <2>2. /\ Edits1(mem, x) /\ x.routines = mem.routines /\ x.receipts = mem.receipts /\ x.seen = mem.seen
          /\ x \in StateType
          /\ Truths(mem.runs, turn, told, made) => Truths(x.runs, turn, told, made')
        BY <1>1, <1>4, <2>1, NewRunEdits
    <2> HIDE DEF x
    <2>3. /\ c \in StateType /\ c.runs = x.runs /\ c.routines = x.routines
          /\ c.receipts = x.receipts \cup {q} /\ c.seen = x.seen
        <3>1. x.receipts \cup {q} \in SUBSET Cards
            BY <1>0, <2>2
        <3> QED
            BY <2>2, <3>1, ReceiptsWritten
    <2> HIDE DEF c
    <2>4. Edits1(mem, c)
        BY <2>2, <2>3, SameEdits
    <2>5. applied[q] = 0
        BY <1>1, <1>2, <1>4 DEF IInv, CardsFit
    <2>6. applied' \in [Cards -> {0, 1}] /\ applied'[q] = 1 /\ \A p \in Cards \ {q} : applied'[p] = applied[p]
        BY <1>2, <1>4, <2>5
    <2>7. made' \in 0..MaxRuns /\ made <= made'
        BY <1>2, <1>4, Constants
    <2> QED
        BY <1>1, <1>4, <2>2, <2>3, <2>4, <2>6, <2>7, SettlesFits
<1>5. CASE RolledBack /\ UNCHANGED <<answered, made, applied>>
    BY <1>1, <1>5, RolledBackFits
<1>6. \/ q \in mem.receipts /\ SettlesCard(q, mem) /\ UNCHANGED <<made, applied>>
      \/ /\ q \notin mem.receipts /\ made < MaxRuns
         /\ SettlesCard(q, c) /\ made' = made + 1 /\ applied' = [applied EXCEPT ![q] = @ + 1]
      \/ RolledBack /\ UNCHANGED <<answered, made, applied>>
    BY DEF Confirms
<1> QED
    BY <1>3, <1>4, <1>5, <1>6

LEMMA ConfirmsAgainFits ==
    ASSUME IInv, NEW q \in Cards, ConfirmsAgain(q)
    PROVE  IInv' /\ Step
<1> DEFINE m == [mem EXCEPT !.receipts = mem.receipts \ {q}]
<1>1. q \in answered /\ UNCHANGED <<plan, answered, clock, made, starts, told, applied, accepts, turn>>
    BY DEF ConfirmsAgain, env, history
<1>2. CASE RolledBack
    BY <1>1, <1>2, RolledBackFits
<1>3. CASE Saved(m) /\ UNCHANGED tick
    <2>1. mem \in StateType /\ mem.receipts \ {q} \in SUBSET Cards
        BY CopiesAreTyped, SnapshotShape DEF IInv
    <2>2. /\ m \in StateType /\ m.runs = mem.runs /\ m.routines = mem.routines
          /\ m.receipts = mem.receipts \ {q} /\ m.seen = mem.seen
        BY <2>1, ReceiptsWritten
    <2> HIDE DEF m
    <2>3. Edits1(mem, m)
        BY <1>1, <2>2, MemEdits, SameEdits DEF IInv
    <2>4. /\ CopiesFit' /\ Kept(disk.runs, disk'.runs) /\ mem'.routines = m.routines
          /\ mem'.receipts = m.receipts /\ mem'.seen = m.seen
        BY <1>3, <2>3, BothFit DEF Saved
    <2>5. clock' \in Nat /\ clock <= clock' /\ made' \in Nat /\ made <= made'
        BY <1>1, Numbers DEF IInv
    <2>6. TickFits' /\ DeliveriesFit'
        BY <1>1, <1>3, <2>2, <2>4, <2>5, TickCalm, DeliveriesCalm, Numbers DEF IInv
    <2>7. CardsFit'
        BY <1>1, <2>2, <2>4 DEF IInv, CardsFit
    <2>8. ShapeFits'
        BY <1>1, <1>3 DEF IInv, ShapeFits, Saved
    <2>9. failures' = 0 => Truth'
        <3> SUFFICES ASSUME failures = 0 PROVE Truth'
            BY <1>3 DEF Saved
        <3>1. Truths(m.runs, turn', told', made') /\ tick'.stale = <<>>
            BY <1>1, <1>3, <2>2 DEF IInv, Truth
        <3> QED
            BY <1>3, <2>2, <3>1, TruthFits
    <2>10. Step
        BY <1>1, <2>4 DEF Step, IInv, ShapeFits
    <2> QED
        BY <2>4, <2>6, <2>7, <2>8, <2>9, <2>10 DEF IInv
<1> QED
    BY <1>2, <1>3 DEF ConfirmsAgain

\* A delivery that is taken is not one that is remembered or at work.
LEMMA OnlyAfterTheWindow ==
    ASSUME IInv, NEW d \in Deliveries, ~ Duplicate(d), accepts[d].n > 0
    PROVE  clock - accepts[d].at > RetryWindow /\ ~ HasLiveRun(d)
<1>1. ~ InWindow(d) /\ ~ HasLiveRun(d)
    BY DEF Duplicate, webhookRunReceipt
<1>2. clock \in Nat /\ accepts[d].n \in Nat
    BY Numbers DEF IInv, ShapeFits
<1>3. /\ accepts[d].at \in Nat
      /\ \/ mem.seen[d] = accepts[d].at
         \/ mem.seen[d] = Never /\ clock - accepts[d].at > RetryWindow
    BY <1>2 DEF IInv, DeliveriesFit
<1>4. CASE mem.seen[d] = accepts[d].at
    <2>1. ~ (accepts[d].at >= clock - RetryWindow)
        BY <1>1, <1>3, <1>4 DEF InWindow, Never
    <2> QED
        BY <1>1, <1>2, <1>3, <2>1, Constants
<1> QED
    BY <1>1, <1>3, <1>4

LEMMA ReceivesFits ==
    ASSUME IInv, NEW d \in Deliveries, Receives(d)
    PROVE  IInv' /\ Step
<1> DEFINE run == NewRun(Webhook, "webhook", 0, d)
           x == WithRun(mem, run)
           seen == [e \in Deliveries |-> IF e = d THEN clock ELSE IF InWindow(e) THEN mem.seen[e] ELSE Never]
           m == [x EXCEPT !.seen = seen]
<1>1. /\ made < MaxRuns /\ ~ Duplicate(d)
      /\ UNCHANGED <<plan, answered, clock, starts, told, applied, turn, tick>>
    BY DEF Receives, env
<1>2. mem \in StateType /\ mem.seen \in [Deliveries -> {Never} \cup 0..MaxTime]
    BY CopiesAreTyped, SnapshotShape DEF IInv
<1>3. clock \in 0..MaxTime /\ clock \in Nat /\ made \in 0..MaxRuns /\ made \in Nat
    BY Numbers DEF IInv, ShapeFits
<1>4. CASE WriteFails /\ UNCHANGED <<mem, disk, made, accepts>>
    <2>1. failures' \in Nat /\ failures' # 0
        BY <1>4, Numbers DEF WriteFails, IInv
    <2>2. turn' \in [Runs -> Turns] /\ clock <= clock'
        BY <1>1, Numbers DEF IInv
    <2> QED
        BY <1>1, <1>3, <1>4, <2>1, <2>2, QuietFits
<1>5. CASE /\ mem' = Pruned(m) /\ disk' = Pruned(m) /\ (Saved(m) \/ WriteFails)
           /\ made' = made + 1 /\ accepts' = [accepts EXCEPT ![d] = [n |-> @.n + 1, at |-> clock]]
    <2>1. run \in RunType /\ run.status = "queued" /\ run.by # "schedule"
        BY NewRunShape, Constants
    <2> HIDE DEF run
    <2>2. /\ Edits1(mem, x) /\ x.routines = mem.routines /\ x.receipts = mem.receipts /\ x.seen = mem.seen
          /\ x \in StateType
          /\ Truths(mem.runs, turn, told, made) => Truths(x.runs, turn, told, made')
        BY <1>1, <1>5, <2>1, NewRunEdits
    <2> HIDE DEF x
    <2>3. seen \in [Deliveries -> {Never} \cup 0..MaxTime]
        BY <1>2, <1>3
    <2>4. /\ seen[d] = clock
          /\ \A e \in Deliveries \ {d} : seen[e] = IF InWindow(e) THEN mem.seen[e] ELSE Never
        OBVIOUS
    <2> HIDE DEF seen
    <2>5. /\ m \in StateType /\ m.runs = x.runs /\ m.routines = x.routines
          /\ m.receipts = x.receipts /\ m.seen = seen
        <3>1. x = [runs |-> x.runs, routines |-> x.routines, receipts |-> x.receipts, seen |-> x.seen]
            BY <2>2, SnapshotShape
        <3>2. m = [runs |-> x.runs, routines |-> x.routines, receipts |-> x.receipts, seen |-> seen]
            BY ONLY <3>1
        <3> HIDE DEF m
        <3>3. m.runs = x.runs /\ m.routines = x.routines /\ m.receipts = x.receipts /\ m.seen = seen
            BY <3>2
        <3> QED
            BY <2>2, <2>3, <3>2, <3>3, SnapshotShape
    <2> HIDE DEF m
    <2>6. Edits1(mem, m)
        BY <2>2, <2>5, SameEdits
    <2>7. /\ CopiesFit' /\ Kept(disk.runs, disk'.runs) /\ mem'.routines = m.routines
          /\ mem'.receipts = m.receipts /\ mem'.seen = m.seen
        BY <1>5, <2>6, BothFit
    <2>8. clock' \in Nat /\ clock <= clock' /\ made' \in Nat /\ made <= made' /\ made' \in 0..MaxRuns
        BY <1>1, <1>3, <1>5, Constants
    <2>9. TickFits' /\ CardsFit'
        BY <1>1, <1>3, <2>2, <2>5, <2>7, <2>8, TickCalm, CardsCalm DEF IInv
    <2>10. accepts \in [Deliveries -> [n : Nat, at : Int]]
        BY DEF IInv, ShapeFits
    <2>11. /\ accepts' \in [Deliveries -> [n : Nat, at : Int]]
           /\ accepts'[d].at = clock /\ \A e \in Deliveries \ {d} : accepts'[e] = accepts[e]
        BY <1>3, <1>5, <2>10, Constants
    <2>12. DeliveriesFit'
        <3> SUFFICES ASSUME NEW e \in Deliveries, accepts'[e].n # 0
                     PROVE  /\ accepts'[e].at \in Nat
                            /\ \/ mem'.seen[e] = accepts'[e].at
                               \/ mem'.seen[e] = Never /\ clock - accepts'[e].at > RetryWindow
            BY <1>1 DEF DeliveriesFit
        <3>1. CASE e = d
            BY <1>3, <2>4, <2>5, <2>7, <2>11, <3>1
        <3>2. CASE e # d
            <4>1. /\ accepts'[e] = accepts[e] /\ accepts[e].at \in Nat
                  /\ \/ mem.seen[e] = accepts[e].at
                     \/ mem.seen[e] = Never /\ clock - accepts[e].at > RetryWindow
                BY <2>11, <3>2 DEF IInv, DeliveriesFit
            <4>2. mem'.seen[e] = IF InWindow(e) THEN mem.seen[e] ELSE Never
                BY <2>4, <2>5, <2>7, <3>2
            <4>3. CASE InWindow(e)
                BY <4>1, <4>2, <4>3
            <4>4. CASE ~ InWindow(e)
                <5>1. clock - accepts[e].at > RetryWindow
                    BY <1>3, <4>1, <4>4, Constants DEF InWindow, Never
                <5> QED
                    BY <4>1, <4>2, <4>4, <5>1
            <4> QED
                BY <4>3, <4>4
        <3> QED
            BY <3>1, <3>2
    <2>13. failures' \in Nat /\ (failures' = 0 => failures = 0 /\ Saved(m))
        BY <1>5, Numbers DEF Saved, WriteFails, IInv
    <2>14. ShapeFits'
        BY <1>1, <2>8, <2>11, <2>13 DEF IInv, ShapeFits
    <2>15. failures' = 0 => Truth'
        <3> SUFFICES ASSUME failures' = 0 PROVE Truth'
            OBVIOUS
        <3>1. Truths(m.runs, turn', told', made') /\ tick'.stale = <<>>
            BY <1>1, <2>2, <2>5, <2>13 DEF IInv, Truth
        <3> QED
            BY <2>5, <2>13, <3>1, TruthFits
    <2>16. Step
        <3> SUFFICES ASSUME NEW e \in Deliveries, accepts'[e].n > accepts[e].n, accepts[e].n > 0
                     PROVE  clock - accepts[e].at > RetryWindow /\ ~ HasLiveRun(e)
            BY <2>7 DEF Step
        <3>1. e = d
            BY <2>10, <2>11
        <3> QED
            BY <1>1, <3>1, OnlyAfterTheWindow
    <2> QED
        BY <2>7, <2>9, <2>12, <2>14, <2>15, <2>16 DEF IInv
<1>6. \/ /\ mem' = Pruned(m) /\ disk' = Pruned(m) /\ (Saved(m) \/ WriteFails)
         /\ made' = made + 1 /\ accepts' = [accepts EXCEPT ![d] = [n |-> @.n + 1, at |-> clock]]
      \/ WriteFails /\ UNCHANGED <<mem, disk, made, accepts>>
    <2>1. [WithRun(mem, NewRun(Webhook, "webhook", 0, d)) EXCEPT
              !.seen = [e \in Deliveries |-> IF e = d THEN clock ELSE IF InWindow(e) THEN @[e] ELSE Never]] = m
        <3>1. /\ WithRun(mem, run).seen = mem.seen
              /\ WithRun(mem, run) = [runs |-> x.runs, routines |-> x.routines, receipts |-> x.receipts, seen |-> x.seen]
            BY <1>2 DEF WithRun, StateType
        <3> QED
            BY <3>1
    <2> HIDE DEF m
    <2> QED
        BY <2>1 DEF Receives, Saved
<1> QED
    BY <1>4, <1>5, <1>6

-----------------------------------------------------------------------------
(* The tick starts what is queued. *)

\* The dispatch reads the tick as it stands.
Dispatching == tick.at \in {"dispatch", "starting"} /\ \E i \in Walk.todo : mem.runs[i].status = "queued"

LEMMA NextQueued ==
    ASSUME IInv, Dispatching
    PROVE  /\ Next1 \in Runs /\ mem.runs[Next1].status = "queued" /\ mem.runs[Next1] \in RunType
           /\ mem.runs[Next1] # NoRun /\ Next1 <= made /\ Walk = tick
<1> DEFINE queued == {i \in Walk.todo : mem.runs[i].status = "queued"}
<1>1. queued \subseteq Runs /\ queued # {}
    BY WalkShape DEF Dispatching
<1>2. Runs \subseteq Nat
    BY DEF Runs
<1>3. Next1 = Min(queued)
    BY DEF Next1
<1>4. Min(queued) \in queued
    <2> HIDE DEF queued
    <2> QED
        BY <1>1, <1>2, Least
<1>5. Next1 \in Runs /\ mem.runs[Next1].status = "queued"
    BY <1>1, <1>3, <1>4
<1>6. mem.runs[Next1].status \in Live
    BY <1>5 DEF Live
<1>7. Walk = tick
    BY DEF Dispatching, Walk
<1> QED
    BY <1>5, <1>6, <1>7, LiveRuns DEF IInv

LEMMA PastLatest ==
    ASSUME IInv, tick.at \in {"dispatch", "starting"}, NEW r \in Routines, plan[r].kind = "interval",
           LatestOccurrence(plan[r], Walk.now) # Never
    PROVE  /\ LatestOccurrence(plan[r], Walk.now) \in 0..MaxTime
           /\ LatestOccurrence(plan[r], Walk.now) <= tick.now
<1>1. Walk = tick
    BY DEF Walk
<1>2. plan[r] \in Plan
    BY Constants DEF IInv, ShapeFits
<1>3. tick.now \in Nat /\ tick.now <= clock /\ clock \in Nat /\ clock <= MaxTime
    BY TickShape, Numbers DEF IInv
<1>4. LatestOccurrence(plan[r], tick.now) \in Occurrences(plan[r]) /\ LatestOccurrence(plan[r], tick.now) <= tick.now
    BY <1>1, <1>2, <1>3, LatestIsPast
<1>5. LatestOccurrence(plan[r], tick.now) \in Nat
    BY <1>2, <1>4, OccurrencesAreMinutes
<1> QED
    BY <1>1, <1>3, <1>4, <1>5, Constants

\* A snapshot in which the queued run stands for the newest check.
LEMMA AlignedFits ==
    ASSUME IInv, tick.at \in {"dispatch", "starting"}, NEW i \in Runs, mem.runs[i].status = "queued", mem.runs[i] \in RunType,
           NEW x, x = Aligned(i)
    PROVE  /\ Sound(plan, x, made, clock) /\ NotAgain(x, starts, made)
           /\ Kept(mem.runs, x.runs) /\ NoneBack(mem.runs, x.runs, made)
           /\ x.receipts = mem.receipts /\ x.seen = mem.seen /\ x.routines = mem.routines
           /\ \A j \in Runs \ {i} : x.runs[j] = mem.runs[j]
           /\ x.runs[i] \in RunType /\ x.runs[i].status = "queued"
           /\ x.runs[i].of = mem.runs[i].of /\ x.runs[i].by = mem.runs[i].by
<1>1. CASE x = mem
    BY <1>1 DEF IInv, CopiesFit, Kept, NoneBack
<1>2. CASE x # mem
    <2> DEFINE run == mem.runs[i]
               latest == LatestOccurrence(plan[run.of], Walk.now)
    <2>1. /\ run.by = "schedule" /\ plan[run.of].kind = "interval" /\ latest > run.due
          /\ x = [mem EXCEPT !.runs[i].due = latest]
        <3>1. CASE run.by = "schedule" /\ mem.routines[run.of].state # "gone" /\ plan[run.of].kind = "interval"
            BY <1>2, <3>1 DEF Aligned
        <3>2. CASE ~ (run.by = "schedule" /\ mem.routines[run.of].state # "gone" /\ plan[run.of].kind = "interval")
            <4>1. ~ (Never > run.due)
                BY Constants DEF RunType, Never
            <4> QED
                BY <1>2, <3>2, <4>1 DEF Aligned
        <3> QED
            BY <3>1, <3>2
    <2>2. i \in Scheduled(mem.runs)
        BY <2>1, RunShape DEF Scheduled, Ids
    <2>3. run.of \in Routines
        BY <2>2 DEF IInv, CopiesFit, Sound, DueByNow
    <2>4. run.due \in Nat
        BY Constants DEF RunType
    <2>5. latest # Never
        BY <2>1, <2>4 DEF Never
    <2>6. latest \in 0..MaxTime /\ latest <= tick.now
        BY <2>1, <2>3, <2>5, PastLatest
    <2>7. tick.now \in Nat /\ tick.now <= clock /\ clock \in Nat
        BY TickShape, Numbers DEF IInv
    <2>8. RoomForDue(made) => \A r \in Routines : Recurring(plan, r) /\ mem.routines[r].next # Never => tick.now < mem.routines[r].next
        BY DEF IInv, TickFits
    <2> HIDE DEF latest
    <2>9. run.due < latest
        BY <2>1, <2>4, <2>6
    <2>10. Sound(plan, mem, made, clock)
        BY DEF IInv, CopiesFit
    <2>11. Sound(plan, x, made, clock)
        <3>1. mem.runs[i].due < latest /\ mem.runs[i].status = "queued" /\ latest \in 0..MaxTime
            BY <2>6, <2>9
        <3>2. Sound(plan, [mem EXCEPT !.runs[i].due = latest], made, clock)
            BY ONLY <2>2, <2>6, <2>7, <2>8, <2>10, <3>1, SoundMoved
        <3> QED
            BY <2>1, <3>2
    <2>12. x = At(mem, i, [run EXCEPT !.due = latest])
        <3>1. mem.runs \in Runsheet /\ mem \in StateType
            BY CopiesAreTyped DEF IInv
        <3>2. [mem.runs EXCEPT ![i].due = latest] = [mem.runs EXCEPT ![i] = [mem.runs[i] EXCEPT !.due = latest]]
            BY <3>1 DEF Runsheet
        <3>3. x = [mem EXCEPT !.runs = [mem.runs EXCEPT ![i].due = latest]]
            BY <2>1, <3>1 DEF StateType
        <3> QED
            BY <3>2, <3>3 DEF At
    <2>13. /\ [run EXCEPT !.due = latest] \in RunType /\ [run EXCEPT !.due = latest].status = "queued"
           /\ [run EXCEPT !.due = latest].of = run.of /\ [run EXCEPT !.due = latest].by = run.by
        BY <2>6 DEF RunType
    <2>14. /\ x.runs = [mem.runs EXCEPT ![i] = [run EXCEPT !.due = latest]]
           /\ x.receipts = mem.receipts /\ x.seen = mem.seen /\ x.routines = mem.routines
        BY <2>12, CopiesAreTyped DEF At, StateType, IInv
    <2>15. x.runs[i] = [run EXCEPT !.due = latest] /\ \A j \in Runs \ {i} : x.runs[j] = mem.runs[j]
        BY <2>14, CopiesAreTyped DEF Runsheet, IInv
    <2>16. NotAgain(x, starts, made)
        BY <2>13, <2>15 DEF IInv, CopiesFit, NotAgain
    <2>17. Kept(mem.runs, x.runs) /\ NoneBack(mem.runs, x.runs, made)
        BY <2>15, RunShape DEF Kept, NoneBack, Ended
    <2> QED
        BY <2>11, <2>13, <2>14, <2>15, <2>16, <2>17
<1> QED
    BY <1>1, <1>2

\* The tick goes on to the next run, or is over.
LEMMA PassedOn ==
    ASSUME IInv, tick.at \in {"dispatch", "starting"}, NEW i, NEW runs,
           \/ tick' = GoesOn([tick EXCEPT !.todo = Passed(i)], runs)
           \/ tick' = GoesOn([tick EXCEPT !.at = "starting", !.todo = Passed(i)], runs)
           \/ tick' = Idle,
           mem'.routines = mem.routines, UNCHANGED <<plan, made, clock>>
    PROVE  TickFits' /\ (tick.stale = <<>> => tick'.stale = <<>>)
<1>1. CASE tick' = Idle
    BY <1>1, TickCalm, Numbers DEF Idle, IInv
<1>2. ASSUME NEW at \in {"dispatch", "starting"}, tick' = [tick EXCEPT !.at = at, !.todo = Passed(i)]
      PROVE  TickFits' /\ (tick.stale = <<>> => tick'.stale = <<>>)
    <2>1. tick' = [at |-> at, now |-> tick.now, todo |-> Passed(i), stale |-> tick.stale]
        BY <1>2, TickShape
    <2>2. Passed(i) \subseteq Runs
        BY WalkShape DEF Passed
    <2>3. tick.now \in Nat /\ tick.now <= clock'
        BY TickShape
    <2> QED
        BY <2>1, <2>2, <2>3 DEF IInv, TickFits, Recurring, RoomForDue
<1>3. [tick EXCEPT !.todo = Passed(i)] = [tick EXCEPT !.at = tick.at, !.todo = Passed(i)]
    BY TickShape
<1> QED
    BY <1>1, <1>2, <1>3 DEF GoesOn

LEMMA WrittenRoutines ==
    ASSUME NEW m \in StateType, Saved(m) \/ Unsaved(m)
    PROVE  mem'.routines = m.routines
BY PrunedLets DEF Lets, Saved, Unsaved

LEMMA AtShape ==
    ASSUME NEW x \in StateType, NEW i \in Runs, NEW run \in RunType
    PROVE  /\ At(x, i, run) \in StateType /\ At(x, i, run).runs[i] = run
           /\ At(x, i, run).routines = x.routines
<1> DEFINE y == At(x, i, run)
<1>1. /\ y.runs = [x.runs EXCEPT ![i] = run] /\ y.routines = x.routines
      /\ y.receipts = x.receipts /\ y.seen = x.seen
      /\ y = [runs |-> y.runs, routines |-> y.routines, receipts |-> y.receipts, seen |-> y.seen]
    BY DEF StateType, At
<1> HIDE DEF y
<1>2. x.runs \in Runsheet
    BY SnapshotShape
<1>3. y.runs \in Runsheet /\ y.runs[i] = run
    BY <1>1, <1>2 DEF Runsheet
<1> QED
    BY <1>1, <1>3, SnapshotShape DEF y

\* What a dispatch makes of the queued run: anything but a started turn.
LEMMA DispatchedFits ==
    ASSUME IInv, Dispatching, NEW i, i = Next1,
           NEW x, x = Aligned(i), NEW run \in RunType,
           run.of = x.runs[i].of, run.by = x.runs[i].by, run.due = x.runs[i].due,
           NEW m, m = At(x, i, run), Saved(m) \/ Unsaved(m),
           UNCHANGED <<plan, answered, clock, made, applied, accepts, starts, turn>>,
           \/ tick' = GoesOn([tick EXCEPT !.todo = Passed(i)], mem'.runs)
           \/ tick' = GoesOn([tick EXCEPT !.at = "starting", !.todo = Passed(i)], mem'.runs)
           \/ tick' = Idle,
           \/ UNCHANGED told
           \/ Told({i}),
           Saved(m) => /\ run.status \notin Working
                       /\ IF run.status \in Lost THEN Told({i}) ELSE UNCHANGED told
    PROVE  IInv' /\ Step
<1>1. /\ i \in Runs /\ mem.runs[i].status = "queued" /\ mem.runs[i] \in RunType
      /\ mem.runs[i] # NoRun /\ i <= made
    BY NextQueued
<1>2. tick.at \in {"dispatch", "starting"}
    BY DEF Dispatching
<1>3. /\ Sound(plan, x, made, clock) /\ NotAgain(x, starts, made)
      /\ Kept(mem.runs, x.runs) /\ NoneBack(mem.runs, x.runs, made)
      /\ x.receipts = mem.receipts /\ x.seen = mem.seen /\ x.routines = mem.routines
      /\ \A j \in Runs \ {i} : x.runs[j] = mem.runs[j]
      /\ x.runs[i] \in RunType /\ x.runs[i].status = "queued"
      /\ x.runs[i].of = mem.runs[i].of /\ x.runs[i].by = mem.runs[i].by
    BY <1>1, <1>2, AlignedFits
<1>4. Edits1(mem, x) /\ x \in StateType
    BY <1>3 DEF Edits1, Sound, Typed
<1>5. m \in StateType /\ mem'.routines = mem.routines
    BY <1>1, <1>3, <1>4, AtShape, WrittenRoutines
<1>6. TickFits' /\ (tick.stale = <<>> => tick'.stale = <<>>)
    BY <1>2, <1>5, PassedOn
<1>7. turn' \in [Runs -> Turns] /\ told' \in [Runs -> Nat] /\ \A j \in Runs \ {i} : turn'[j] = turn[j] /\ told'[j] = told[j]
    BY <1>1, ToldOne, Numbers DEF IInv
<1>8. Told({i}) => told'[i] = told[i] + 1
    BY <1>1, ToldOne
<1>9. Saved(m) /\ TrueOf(mem.runs[i], turn[i], told[i], i <= made) => TrueOf(run, turn'[i], told'[i], i <= made)
    <2> SUFFICES ASSUME Saved(m), TrueOf(mem.runs[i], turn[i], told[i], i <= made)
                 PROVE  TrueOf(run, turn'[i], told'[i], i <= made)
        OBVIOUS
    <2>1. turn'[i] \notin Engaged /\ told[i] = 0
        BY <1>1 DEF TrueOf, Working, Lost
    <2>2. run.status \notin Working
        OBVIOUS
    <2>3. CASE run.status \in Lost
        BY <2>1, <2>2, <2>3, <1>1, <1>8 DEF TrueOf
    <2>4. CASE run.status \notin Lost
        BY <2>1, <2>2, <2>4, <1>1 DEF TrueOf
    <2> QED
        BY <2>3, <2>4
<1>10. Saved(m) => run.status \notin Working
    OBVIOUS
<1>11. /\ x.runs[i].status = mem.runs[i].status /\ x.runs[i].status \in Live
       /\ run.status = "queued" => x.runs[i].status = "queued"
    BY <1>1, <1>3 DEF Live
<1> QED
    BY <1>1, <1>3, <1>4, <1>6, <1>7, <1>9, <1>10, <1>11, MovesFit

LEMMA AlignedTyped ==
    ASSUME IInv, Dispatching, NEW i, i = Next1
    PROVE  /\ i \in Runs /\ Aligned(i) \in StateType /\ Aligned(i).runs[i] \in RunType
           /\ Aligned(i).runs[i].status = "queued"
<1>1. i \in Runs /\ mem.runs[i].status = "queued" /\ mem.runs[i] \in RunType
    BY NextQueued
<1>2. Sound(plan, Aligned(i), made, clock) /\ Aligned(i).runs[i] \in RunType /\ Aligned(i).runs[i].status = "queued"
    BY <1>1, AlignedFits DEF Dispatching
<1> QED
    BY <1>1, <1>2 DEF Sound, Typed

LEMMA MissesFits ==
    ASSUME IInv, Dispatching, NEW i, i = Next1, NEW status \in {"missed", "failed"},
           \/ /\ Saved(Ends(Aligned(i), i, status)) /\ Told({i})
              /\ tick' = GoesOn([tick EXCEPT !.todo = Passed(i)], mem'.runs)
           \/ Unsaved(Ends(Aligned(i), i, status)) /\ tick' = Idle /\ UNCHANGED told,
           UNCHANGED <<plan, answered, clock, made, applied, accepts, starts, turn>>
    PROVE  IInv' /\ Step
<1> DEFINE x == Aligned(i)
           run == Closed(x.runs[i], status)
           m == Ends(x, i, status)
<1>1. i \in Runs /\ x \in StateType /\ x.runs[i] \in RunType
    BY AlignedTyped
<1>2. status \in Ended /\ status \in Lost
    BY DEF Ended, Lost
<1>3. /\ run \in RunType /\ run.status = status /\ run.of = x.runs[i].of
      /\ run.by = x.runs[i].by /\ run.due = x.runs[i].due
    BY <1>1, <1>2, ClosedRun
<1>4. m = At(x, i, run)
    BY <1>1, EndsIsAt
<1>5. run.status \notin Working
    BY <1>3 DEF Working
<1>6. Saved(m) => Told({i})
    BY SavedIsNotUnsaved
<1> HIDE DEF run, m, x
<1>7. x = Aligned(i)
    BY DEF x
<1>8. /\ Saved(m) \/ Unsaved(m)
      /\ \/ tick' = GoesOn([tick EXCEPT !.todo = Passed(i)], mem'.runs)
         \/ tick' = GoesOn([tick EXCEPT !.at = "starting", !.todo = Passed(i)], mem'.runs)
         \/ tick' = Idle
      /\ UNCHANGED told \/ Told({i})
    BY DEF m, x
<1>9. Saved(m) => /\ run.status \notin Working
                  /\ IF run.status \in Lost THEN Told({i}) ELSE UNCHANGED told
    BY <1>2, <1>3, <1>5, <1>6
<1> QED
    BY <1>3, <1>4, <1>7, <1>8, <1>9, DispatchedFits

LEMMA DefersFits ==
    ASSUME IInv, Dispatching, NEW i, i = Next1, Defers(i),
           UNCHANGED <<plan, answered, clock, made, applied, accepts>>
    PROVE  IInv' /\ Step
<1> DEFINE x == Aligned(i)
           run == [x.runs[i] EXCEPT !.deferred = TRUE]
           m == [x EXCEPT !.runs[i].deferred = TRUE]
<1>1. i \in Runs /\ x \in StateType /\ x.runs[i] \in RunType /\ x.runs[i].status = "queued"
    BY AlignedTyped
<1>2. /\ Saved(m) \/ Unsaved(m)
      /\ \/ tick' = GoesOn([tick EXCEPT !.todo = Passed(i)], mem'.runs)
         \/ tick' = Idle
      /\ UNCHANGED <<turn, starts, told>>
    BY DEF Defers
<1> HIDE DEF x
<1>3. /\ run \in RunType /\ run.status = "queued" /\ run.of = x.runs[i].of
      /\ run.by = x.runs[i].by /\ run.due = x.runs[i].due
    BY <1>1 DEF RunType
<1>4. m = At(x, i, run)
    <2>1. x.runs \in Runsheet
        BY <1>1, SnapshotShape
    <2>2. [x.runs EXCEPT ![i].deferred = TRUE] = [x.runs EXCEPT ![i] = [x.runs[i] EXCEPT !.deferred = TRUE]]
        BY <2>1 DEF Runsheet
    <2>3. m = [x EXCEPT !.runs = [x.runs EXCEPT ![i].deferred = TRUE]]
        BY <1>1 DEF StateType
    <2> QED
        BY <2>2, <2>3 DEF At
<1> HIDE DEF run, m
<1>5. x = Aligned(i)
    BY DEF x
<1>6. run.status \notin Working /\ run.status \notin Lost
    BY <1>3 DEF Working, Lost
<1> QED
    BY <1>2, <1>3, <1>4, <1>5, <1>6, DispatchedFits

\* The run is saved as running, then its turn is started.
LEMMA BeginsFits ==
    ASSUME IInv, Dispatching, NEW i, i = Next1, ~ SameRoutineWorking(i),
           NEW x, x = Aligned(i), NEW run \in RunType, run.status = "running",
           run.of = x.runs[i].of, run.by = x.runs[i].by, run.due = x.runs[i].due,
           NEW m, m = At(x, i, run), Saved(m),
           turn' = [turn EXCEPT ![i] = "live"], starts' = [starts EXCEPT ![i] = @ + 1],
           tick' = GoesOn([tick EXCEPT !.at = "starting", !.todo = Passed(i)], mem'.runs),
           UNCHANGED <<plan, answered, clock, made, applied, accepts, told>>
    PROVE  IInv' /\ Step
<1>1. /\ i \in Runs /\ mem.runs[i].status = "queued" /\ mem.runs[i] \in RunType
      /\ mem.runs[i] # NoRun /\ i <= made
    BY NextQueued
<1>2. tick.at \in {"dispatch", "starting"}
    BY DEF Dispatching
<1>3. /\ Sound(plan, x, made, clock) /\ NotAgain(x, starts, made)
      /\ Kept(mem.runs, x.runs) /\ NoneBack(mem.runs, x.runs, made)
      /\ x.receipts = mem.receipts /\ x.seen = mem.seen /\ x.routines = mem.routines
      /\ \A j \in Runs \ {i} : x.runs[j] = mem.runs[j]
      /\ x.runs[i] \in RunType /\ x.runs[i].status = "queued"
      /\ x.runs[i].of = mem.runs[i].of /\ x.runs[i].by = mem.runs[i].by
    BY <1>1, <1>2, AlignedFits
<1>4. x \in StateType
    BY <1>3 DEF Sound, Typed
<1>5. m \in StateType /\ mem'.routines = mem.routines
    BY <1>1, <1>3, <1>4, AtShape, WrittenRoutines
<1>6. TickFits' /\ (tick.stale = <<>> => tick'.stale = <<>>)
    BY <1>2, <1>5, PassedOn
<1>7. x.runs[i].status \notin Ended /\ x.runs[i] # NoRun /\ run.status # "queued"
    BY <1>3, RunShape DEF Ended
<1>8. /\ Lets(x, m) /\ Kept(x.runs, m.runs)
      /\ m.runs[i] = run /\ \A j \in Runs \ {i} : m.runs[j] = x.runs[j]
    BY <1>1, <1>4, <1>7, RunMoves
<1>9. Sound(plan, m, made, clock)
    BY <1>3, <1>8, SoundCalm DEF Lets
<1>10. starts[i] = 0 /\ starts' \in [Runs -> {0, 1}] /\ \A j \in Runs \ {i} : starts'[j] = starts[j]
    <2>1. starts \in [Runs -> {0, 1}]
        BY DEF IInv, ShapeFits
    <2>2. starts[i] = 0
        BY <1>1 DEF IInv, CopiesFit, NotAgain
    <2> QED
        BY <1>1, <2>1, <2>2
<1>11. NotAgain(m, starts', made)
    <2>1. NotAgain(m, starts, made)
        BY <1>3, <1>8, CalmStarts DEF Lets
    <2> QED
        BY <1>1, <1>7, <1>8, <1>10, <2>1 DEF NotAgain
<1>12. Kept(mem.runs, m.runs)
    <2>1. NoneBack(x.runs, m.runs, made)
        BY <1>8, CalmBringsNoneBack DEF Lets
    <2> QED
        BY <1>3, <1>8, <2>1, CopiesAreTyped, KeptTwice DEF IInv
<1>13. NoneBack(mem.runs, m.runs, made)
    <2>1. NoneBack(x.runs, m.runs, made)
        BY <1>8, CalmBringsNoneBack DEF Lets
    <2> QED
        BY <1>3, <2>1 DEF NoneBack
<1>14. Edits1(mem, m)
    BY <1>9, <1>11, <1>12, <1>13 DEF Edits1
<1>15. m.receipts = mem.receipts /\ m.seen = mem.seen
    BY <1>3, <1>8 DEF Lets
<1>16. CopiesFit' /\ CardsFit' /\ DeliveriesFit' /\ Step /\ failures' \in Nat /\ (failures' = 0 => failures = 0)
    BY <1>14, <1>15, WriteFits
<1>17. turn \in [Runs -> Turns] /\ turn' \in [Runs -> Turns] /\ turn'[i] = "live" /\ \A j \in Runs \ {i} : turn'[j] = turn[j]
    BY <1>1, Numbers DEF IInv, Turns
<1>18. ShapeFits'
    BY <1>10, <1>16, <1>17 DEF IInv, ShapeFits, Turns
<1>19. failures' = 0 => Truth'
    <2> SUFFICES ASSUME failures' = 0 PROVE Truth'
        OBVIOUS
    <2>1. Truths(mem.runs, turn, told, made) /\ tick.stale = <<>>
        BY <1>16 DEF IInv, Truth
    <2>2. TrueOf(mem.runs[i], turn[i], told[i], i <= made)
        BY <1>1, <2>1 DEF Truths
    <2>3. TrueOf(m.runs[i], turn'[i], told'[i], i <= made)
        BY <1>1, <1>8, <1>17, <2>2 DEF TrueOf, Working, Engaged, Lost
    <2>4. \A j \in Runs \ {i} : m.runs[j] = mem.runs[j] /\ turn'[j] = turn[j] /\ told'[j] = told[j]
        BY <1>3, <1>8, <1>17
    <2>5. m.runs[i].of = mem.runs[i].of /\ m.runs[i].by = mem.runs[i].by
        BY <1>3, <1>8
    <2>6. \A j \in Scheduled(mem.runs) :
              mem.runs[i].by = "schedule" /\ mem.runs[j].of = mem.runs[i].of => mem.runs[j].status \notin Working
        BY DEF SameRoutineWorking, OfRoutine, In, Scheduled, Ids
    <2>7. Truths(m.runs, turn', told', made)
        BY ONLY <1>1, <2>1, <2>3, <2>4, <2>5, <2>6, OneTruth
    <2> QED
        BY <1>5, <1>6, <2>1, <2>7, TruthFits
<1> QED
    BY <1>6, <1>16, <1>18, <1>19 DEF IInv

LEMMA StartsRunFits ==
    ASSUME IInv, Dispatching, NEW i, i = Next1, StartsRun(i),
           UNCHANGED <<plan, answered, clock, made, applied, accepts>>
    PROVE  IInv' /\ Step
<1> DEFINE x == Aligned(i)
           run == [x.runs[i] EXCEPT !.status = "running", !.began = clock]
           begun == [x EXCEPT !.runs[i].status = "running", !.runs[i].began = clock]
           ended == Closed(run, "failed")
<1>1. i \in Runs /\ x \in StateType /\ x.runs[i] \in RunType /\ x.runs[i].status = "queued"
    BY AlignedTyped
<1>2. /\ ~ SameRoutineWorking(i)
      /\ \/ /\ Saved(begun)
            /\ turn' = [turn EXCEPT ![i] = "live"] /\ starts' = [starts EXCEPT ![i] = @ + 1]
            /\ tick' = GoesOn([tick EXCEPT !.at = "starting", !.todo = Passed(i)], mem'.runs)
            /\ UNCHANGED told
         \/ /\ Saved(Ends(begun, i, "failed")) /\ Told({i})
            /\ tick' = GoesOn([tick EXCEPT !.at = "starting", !.todo = Passed(i)], mem'.runs)
            /\ UNCHANGED <<turn, starts>>
         \/ Unsaved(begun) /\ tick' = Idle /\ UNCHANGED <<turn, starts, told>>
    BY DEF StartsRun
<1>3. clock \in 0..MaxTime
    BY DEF IInv, ShapeFits
<1> HIDE DEF x
<1>4. /\ run \in RunType /\ run.status = "running" /\ run.of = x.runs[i].of
      /\ run.by = x.runs[i].by /\ run.due = x.runs[i].due
    BY <1>1, <1>3 DEF RunType, Live, Working
<1>5. begun = At(x, i, run)
    <2>1. x.runs \in Runsheet
        BY <1>1, SnapshotShape
    <2>2. begun = [x EXCEPT !.runs = [[x.runs EXCEPT ![i].status = "running"] EXCEPT ![i].began = clock]]
        BY <1>1 DEF StateType
    <2>3. [[x.runs EXCEPT ![i].status = "running"] EXCEPT ![i].began = clock] = [x.runs EXCEPT ![i] = run]
        BY <1>1, <2>1 DEF Runsheet
    <2> QED
        BY <2>2, <2>3 DEF At
<1> HIDE DEF begun, run
<1>6. /\ ended \in RunType /\ ended.status = "failed" /\ ended.of = run.of
      /\ ended.by = run.by /\ ended.due = run.due
    BY <1>4, ClosedRun DEF Ended
<1>7. Ends(begun, i, "failed") = At(x, i, ended)
    <2>1. begun \in StateType /\ begun.runs[i] = run
        BY <1>1, <1>4, <1>5, AtShape
    <2>2. Ends(begun, i, "failed") = At(begun, i, ended)
        BY <1>1, <2>1, EndsIsAt
    <2>3. x.runs \in Runsheet
        BY <1>1, SnapshotShape
    <2>4. [[x.runs EXCEPT ![i] = run] EXCEPT ![i] = ended] = [x.runs EXCEPT ![i] = ended]
        BY <2>3, <1>1 DEF Runsheet
    <2>5. At(At(x, i, run), i, ended) = At(x, i, ended)
        BY <1>1, <2>4 DEF At, StateType
    <2> QED
        BY <1>5, <2>2, <2>5
<1> HIDE DEF ended
<1>8. x = Aligned(i)
    BY DEF x
<1>9. CASE /\ Saved(begun)
           /\ turn' = [turn EXCEPT ![i] = "live"] /\ starts' = [starts EXCEPT ![i] = @ + 1]
           /\ tick' = GoesOn([tick EXCEPT !.at = "starting", !.todo = Passed(i)], mem'.runs)
           /\ UNCHANGED told
    BY <1>2, <1>4, <1>5, <1>8, <1>9, BeginsFits
<1>10. CASE /\ Saved(Ends(begun, i, "failed")) /\ Told({i})
            /\ tick' = GoesOn([tick EXCEPT !.at = "starting", !.todo = Passed(i)], mem'.runs)
            /\ UNCHANGED <<turn, starts>>
    <2> DEFINE m == Ends(begun, i, "failed")
    <2>1. ended.status \notin Working /\ ended.status \in Lost
        BY <1>6 DEF Working, Lost
    <2>2. ended.of = x.runs[i].of /\ ended.by = x.runs[i].by /\ ended.due = x.runs[i].due
        BY <1>4, <1>6
    <2> HIDE DEF m
    <2>3. m = At(x, i, ended) /\ Saved(m)
        BY <1>7, <1>10 DEF m
    <2> QED
        BY <1>6, <1>8, <1>10, <2>1, <2>2, <2>3, DispatchedFits
<1>11. CASE Unsaved(begun) /\ tick' = Idle /\ UNCHANGED <<turn, starts, told>>
    <2>1. ~ Saved(begun)
        BY <1>11, SavedIsNotUnsaved
    <2> QED
        BY <1>4, <1>5, <1>8, <1>11, <2>1, DispatchedFits
<1> QED
    BY <1>2, <1>9, <1>10, <1>11

LEMMA DispatchesFits ==
    ASSUME IInv, Dispatches
    PROVE  IInv' /\ Step
<1> DEFINE i == Next1
<1>1. Dispatching /\ UNCHANGED <<plan, answered, clock, made, applied, accepts>>
    BY DEF Dispatches, Dispatching, env
<1>2. Misses(i) \/ Defers(i) \/ FindsNoBot(i) \/ StartsRun(i)
    BY DEF Dispatches
<1> HIDE DEF i
<1>3. i = Next1
    BY DEF i
<1>4. CASE Misses(i)
    BY <1>1, <1>3, <1>4, MissesFits DEF Misses
<1>5. CASE Defers(i)
    BY <1>1, <1>3, <1>5, DefersFits
<1>6. CASE FindsNoBot(i)
    BY <1>1, <1>3, <1>6, MissesFits DEF FindsNoBot
<1>7. CASE StartsRun(i)
    BY <1>1, <1>3, <1>7, StartsRunFits
<1> QED
    BY <1>2, <1>4, <1>5, <1>6, <1>7

-----------------------------------------------------------------------------
(* The tick queues what is due. *)

\* The place of an element in a finite set of numbers.
Rank(S, r) == Cardinality({q \in S : q <= r})

LEMMA RanksAreApart ==
    ASSUME NEW S, S \subseteq Nat, IsFiniteSet(S)
    PROVE  /\ Cardinality(S) \in Nat
           /\ \A r \in S : Rank(S, r) \in Nat /\ 1 <= Rank(S, r) /\ Rank(S, r) <= Cardinality(S)
           /\ \A r, t \in S : r # t => Rank(S, r) # Rank(S, t)
<1> DEFINE Below(r) == {q \in S : q <= r}
<1>1. ASSUME NEW r \in S
      PROVE  /\ Below(r) \in SUBSET S /\ r \in Below(r)
             /\ IsFiniteSet(Below(r)) /\ Cardinality(Below(r)) \in Nat
             /\ 1 <= Cardinality(Below(r)) /\ Cardinality(Below(r)) <= Cardinality(S)
    <2>1. Below(r) \in SUBSET S /\ r \in Below(r)
        OBVIOUS
    <2> HIDE DEF Below
    <2>2. IsFiniteSet(Below(r)) /\ Cardinality(Below(r)) <= Cardinality(S)
        BY <2>1, FS_Subset
    <2>3. Cardinality(Below(r)) \in Nat
        BY <2>2, FS_CardinalityType
    <2>4. Cardinality(Below(r)) # 0
        BY <2>1, <2>2, FS_EmptySet
    <2> QED
        BY <2>1, <2>2, <2>3, <2>4
<1>2. ASSUME NEW r \in S, NEW t \in S, r < t
      PROVE  Cardinality(Below(r)) # Cardinality(Below(t))
    <2>1. Below(r) \in SUBSET Below(t)
        <3>1. r \in Nat /\ t \in Nat /\ \A q \in S : q \in Nat
            OBVIOUS
        <3>2. \A q \in S : q <= r => q <= t
            BY <1>2, <3>1
        <3> QED
            BY <3>2
    <2>2. t \in Below(t) /\ t \notin Below(r)
        BY <1>2
    <2>3. IsFiniteSet(Below(t))
        BY <1>1
    <2> HIDE DEF Below
    <2>4. Cardinality(Below(t)) = Cardinality(Below(r)) => Below(t) = Below(r)
        BY <2>1, <2>3, FS_Subset
    <2> QED
        BY <2>2, <2>4
<1>3. \A r \in S : Rank(S, r) = Cardinality(Below(r))
    BY DEF Rank
<1>4. Cardinality(S) \in Nat
    BY FS_CardinalityType
<1> HIDE DEF Below
<1>5. \A r, t \in S : r # t => r < t \/ t < r
    OBVIOUS
<1>6. \A r, t \in S : r # t => Cardinality(Below(r)) # Cardinality(Below(t))
    BY <1>2, <1>5
<1> QED
    BY <1>1, <1>3, <1>4, <1>6

\* What a due routine is scheduled for: its next occurrence or a newer one.
LEMMA DueRoutine ==
    ASSUME IInv, NEW r \in DueNow
    PROVE  /\ r \in Routines /\ plan[r] \in Plan /\ RoomForDue(made)
           /\ mem.routines[r].state = "on" /\ mem.routines[r].next \in Nat
           /\ ScheduledFor(r) \in Nat /\ mem.routines[r].next <= ScheduledFor(r) /\ ScheduledFor(r) <= Walk.now
<1>1. /\ r \in Routines /\ RoomForDue(made) /\ mem.routines[r].state = "on"
      /\ mem.routines[r].next \in 0..Walk.now
    BY DEF DueNow, RoomForDue
<1>2. plan[r] \in Plan
    BY <1>1, Constants DEF IInv, ShapeFits
<1>3. Walk.now \in Nat
    BY WalkShape
<1>4. mem.routines[r].next \in Nat /\ mem.routines[r].next <= Walk.now
    BY <1>1, <1>3
<1>5. CASE plan[r].kind = "interval" /\ ~ Late(r)
    <2>1. ScheduledFor(r) = LatestOccurrence(plan[r], Walk.now)
        BY <1>5 DEF ScheduledFor
    <2>2. mem.routines[r].next \in Occurrences(plan[r])
        BY <1>1, <1>4, <1>5 DEF IInv, CopiesFit, Sound, Typed, Recurring, Never
    <2>3. LatestOccurrence(plan[r], Walk.now) # Never
        BY <1>2, <1>3, <1>4, <2>2, LatestExists
    <2>4. /\ LatestOccurrence(plan[r], Walk.now) \in Occurrences(plan[r])
          /\ LatestOccurrence(plan[r], Walk.now) <= Walk.now
          /\ mem.routines[r].next <= LatestOccurrence(plan[r], Walk.now)
        BY <1>2, <1>3, <1>4, <2>2, <2>3, LatestIsPast
    <2>5. LatestOccurrence(plan[r], Walk.now) \in Nat
        BY <1>2, <2>4, OccurrencesAreMinutes
    <2> QED
        BY <1>1, <1>2, <1>4, <2>1, <2>4, <2>5
<1>6. CASE ~ (plan[r].kind = "interval" /\ ~ Late(r))
    <2>1. ScheduledFor(r) = mem.routines[r].next
        BY <1>6 DEF ScheduledFor
    <2> QED
        BY <1>1, <1>2, <1>4, <2>1
<1> QED
    BY <1>5, <1>6

\* Where a due routine goes: off, or to an occurrence after the tick's time.
LEMMA MovedFits ==
    ASSUME IInv, NEW r \in DueNow
    PROVE  /\ Moved(r) \in Where
           /\ Moved(r).state = "on" <=> Moved(r).next # Never
           /\ Moved(r).next # Never =>
                  Recurring(plan, r) /\ Moved(r).next \in Occurrences(plan[r]) /\ Walk.now < Moved(r).next
<1> DEFINE after == Max({Walk.now, ScheduledFor(r)})
           next == IF plan[r].kind = "once" THEN Never ELSE NextOccurrence(plan[r], after)
<1>1. /\ plan[r] \in Plan /\ ScheduledFor(r) \in Nat /\ ScheduledFor(r) <= Walk.now
    BY DueRoutine
<1>2. Walk.now \in Nat /\ Walk.now \in 0..MaxTime
    BY WalkShape, Numbers, Constants DEF IInv
<1>3. after = Walk.now
    <2> DEFINE S == {Walk.now, ScheduledFor(r)}
    <2>1. S \subseteq 0..Walk.now /\ S # {}
        BY <1>1, <1>2
    <2>2. Max(S) \in S /\ \A n \in S : n <= Max(S)
        <3> HIDE DEF S
        <3> QED
            BY <1>2, <2>1, Greatest
    <2> QED
        BY <1>1, <1>2, <2>2
<1> HIDE DEF after
<1>4. next # Never => /\ plan[r].kind # "once" /\ next \in Occurrences(plan[r]) /\ Walk.now < next
    BY <1>1, <1>2, <1>3, NextIsAfter
<1>5. plan[r].kind = "daily" => next # Never
    BY <1>1, <1>2, <1>3, DailyGoesOn
<1>6. Moved(r) = [state |-> IF plan[r].kind # "daily" /\ next = Never THEN "off" ELSE "on", next |-> next]
    BY DEF Moved, after
<1> HIDE DEF next
<1>7. next \in {Never} \cup Nat
    BY <1>1, <1>4, OccurrencesAreMinutes
<1> QED
    BY <1>4, <1>5, <1>6, <1>7 DEF Where, Recurring

\* The run a due routine gets.
DueRun(r) == [NewRun(r, "schedule", ScheduledFor(r), "none") EXCEPT !.status = IF Late(r) THEN "missed" ELSE "queued"]

LEMMA DueRunShape ==
    ASSUME IInv, NEW r \in DueNow
    PROVE  /\ DueRun(r) \in RunType /\ DueRun(r).of = r /\ DueRun(r).by = "schedule"
           /\ DueRun(r).due = ScheduledFor(r)
           /\ DueRun(r).status = IF Late(r) THEN "missed" ELSE "queued"
<1>1. ScheduledFor(r) \in 0..MaxTime
    <2>1. ScheduledFor(r) \in Nat /\ ScheduledFor(r) <= Walk.now
        BY DueRoutine
    <2>2. Walk.now \in Nat /\ Walk.now <= clock /\ clock \in Nat /\ clock <= MaxTime
        BY WalkShape, Numbers DEF IInv
    <2> QED
        BY <2>1, <2>2, Constants
<1>2. r \in Routines
    BY DueRoutine
<1> QED
    BY <1>1, <1>2 DEF DueRun, NewRun, RunType, Live, Ended

\* The batch's runs take the next ids, one each.
LEMMA BatchFits ==
    ASSUME IInv, DueNow # {}
    PROVE  /\ Cardinality(NewRuns) \in Nat /\ made + Cardinality(NewRuns) <= MaxRuns
           /\ \A r \in NewRuns : /\ BatchId(r) \in Runs /\ made < BatchId(r)
                                 /\ BatchId(r) <= made + Cardinality(NewRuns)
           /\ \A r, t \in NewRuns : BatchId(r) = BatchId(t) => r = t
<1>1. PICK some \in DueNow : TRUE
    OBVIOUS
<1>2. made + Cardinality(Routines) <= MaxRuns
    BY <1>1 DEF DueNow
<1>3. NewRuns \in SUBSET Routines
    BY DEF NewRuns, DueNow
<1>4. IsFiniteSet(NewRuns) /\ Cardinality(NewRuns) <= Cardinality(Routines)
    BY <1>3, Constants, FS_Subset
<1>5. NewRuns \subseteq Nat
    BY <1>3, Constants
<1>6. /\ Cardinality(NewRuns) \in Nat
      /\ \A r \in NewRuns : /\ Rank(NewRuns, r) \in Nat /\ 1 <= Rank(NewRuns, r)
                            /\ Rank(NewRuns, r) <= Cardinality(NewRuns)
      /\ \A r, t \in NewRuns : r # t => Rank(NewRuns, r) # Rank(NewRuns, t)
    BY <1>4, <1>5, RanksAreApart
<1>7. \A r : BatchId(r) = made + Rank(NewRuns, r)
    <2> SUFFICES ASSUME NEW r PROVE BatchId(r) = made + Rank(NewRuns, r)
        OBVIOUS
    <2>1. {q \in DueNow : GetsARun(q) /\ q <= r} = {q \in NewRuns : q <= r}
        BY DEF NewRuns
    <2> QED
        BY <2>1 DEF BatchId, Rank
<1>8. made \in Nat /\ MaxRuns \in Nat
    BY Numbers, Constants DEF IInv
<1>9. Cardinality(Routines) \in Nat
    BY Constants, FS_CardinalityType
<1>10. made + Cardinality(NewRuns) <= MaxRuns
    BY <1>2, <1>4, <1>6, <1>8, <1>9
<1> QED
    BY <1>6, <1>7, <1>8, <1>10 DEF Runs

\* What the tick makes of the snapshot in memory.
LEMMA CaughtUpShape ==
    ASSUME IInv, DueNow # {}, NEW m, m = CaughtUp
    PROVE  /\ m \in StateType /\ m.receipts = mem.receipts /\ m.seen = mem.seen
           /\ \A r \in Routines : /\ r \in DueNow => m.routines[r] = Moved(r)
                                  /\ r \notin DueNow => m.routines[r] = mem.routines[r]
           /\ \A r \in NewRuns : m.runs[BatchId(r)] = DueRun(r) /\ mem.runs[BatchId(r)] = NoRun
           /\ \A i \in Runs : (\E r \in NewRuns : BatchId(r) = i) \/ m.runs[i] = mem.runs[i]
<1> DEFINE Chosen(i) == CHOOSE q \in NewRuns : BatchId(q) = i
           runs == [i \in Runs |-> IF \E r \in NewRuns : BatchId(r) = i THEN DueRun(Chosen(i)) ELSE mem.runs[i]]
           routines == [r \in Routines |-> IF r \in DueNow THEN Moved(r) ELSE mem.routines[r]]
<1>1. m = [runs |-> runs, routines |-> routines, receipts |-> mem.receipts, seen |-> mem.seen]
    <2>1. mem = [runs |-> mem.runs, routines |-> mem.routines, receipts |-> mem.receipts, seen |-> mem.seen]
        BY CopiesAreTyped DEF IInv, StateType
    <2> QED
        BY <2>1 DEF CaughtUp, DueRun
<1>2. \A i : (\E r \in NewRuns : BatchId(r) = i) => Chosen(i) \in NewRuns /\ BatchId(Chosen(i)) = i
    OBVIOUS
<1>3. \A r \in NewRuns : Chosen(BatchId(r)) = r
    BY <1>2, BatchFits
<1>4. NewRuns \subseteq DueNow /\ DueNow \subseteq Routines
    BY DEF NewRuns, DueNow
<1>5. mem \in StateType /\ mem.runs \in Runsheet /\ mem.routines \in [Routines -> Where]
      /\ mem.receipts \in SUBSET Cards /\ mem.seen \in [Deliveries -> {Never} \cup 0..MaxTime]
    BY CopiesAreTyped, SnapshotShape DEF IInv
<1> HIDE DEF Chosen
<1>6. \A r \in NewRuns : runs[BatchId(r)] = DueRun(r) /\ BatchId(r) \in Runs
    BY <1>3, BatchFits
<1>7. \A i \in Runs : (\E r \in NewRuns : BatchId(r) = i) \/ runs[i] = mem.runs[i]
    OBVIOUS
<1>8. runs \in Runsheet
    <2>1. \A r \in DueNow : DueRun(r) \in RunType
        BY DueRunShape
    <2>2. \A i \in Runs : (\E r \in NewRuns : BatchId(r) = i) => DueRun(Chosen(i)) \in RunType
        BY <1>2, <1>4, <2>1
    <2> QED
        BY <1>5, <2>2 DEF Runsheet
<1>9. routines \in [Routines -> Where]
    <2>1. \A r \in DueNow : Moved(r) \in Where
        BY MovedFits
    <2> QED
        BY <1>5, <2>1
<1>10. \A r \in NewRuns : mem.runs[BatchId(r)] = NoRun
    <2> SUFFICES ASSUME NEW r \in NewRuns, mem.runs[BatchId(r)] # NoRun PROVE FALSE
        OBVIOUS
    <2>1. BatchId(r) \in Runs /\ made < BatchId(r)
        BY BatchFits
    <2>2. BatchId(r) <= made
        BY <2>1, CopiesAreTyped DEF IInv, Ids
    <2>3. BatchId(r) \in Nat /\ made \in Nat
        BY <2>1, Numbers DEF Runs, IInv
    <2> QED
        BY <2>1, <2>2, <2>3
<1>11. \A r \in Routines : /\ r \in DueNow => routines[r] = Moved(r)
                           /\ r \notin DueNow => routines[r] = mem.routines[r]
    OBVIOUS
<1> HIDE DEF runs, routines
<1>12. m.runs = runs /\ m.routines = routines /\ m.receipts = mem.receipts /\ m.seen = mem.seen
    BY <1>1
<1>13. m \in StateType
    BY <1>1, <1>5, <1>8, <1>9, <1>12, SnapshotShape
<1> QED
    BY <1>6, <1>7, <1>10, <1>11, <1>12, <1>13

\* A due routine has no queued scheduled run once it gets one.
LEMMA BatchIsApart ==
    ASSUME IInv, NEW r \in NewRuns, plan[r].kind # "once", NEW i \in Scheduled(mem.runs), mem.runs[i].of = r
    PROVE  mem.runs[i].status # "queued"
<1>1. GetsARun(r)
    BY DEF NewRuns
<1>2. i \in Ids(mem.runs) /\ i \in Runs /\ mem.runs[i].by = "schedule" /\ i \in OfRoutine(mem.runs, r)
    BY DEF Scheduled, Ids, OfRoutine
<1>3. CASE ~ Overlapping(r)
    BY <1>2, <1>3 DEF Overlapping, In, Live
<1>4. CASE ~ ScheduledQueued(r)
    BY <1>2, <1>4 DEF ScheduledQueued
<1> QED
    BY <1>1, <1>3, <1>4 DEF GetsARun

\* Nothing that is still to fall due is due at the tick's time.
LEMMA NextIsLater ==
    ASSUME IInv, NEW r \in Routines, r \notin DueNow, RoomForDue(made), mem.routines[r].next # Never
    PROVE  Walk.now < mem.routines[r].next
<1>1. mem.routines[r].state = "on"
    BY DEF IInv, CopiesFit, Sound, Typed
<1>2. mem.routines[r].next \in Nat
    <2>1. mem.routines[r] \in Where
        BY CopiesAreTyped, SnapshotShape DEF IInv
    <2> QED
        BY <2>1 DEF Where
<1>3. mem.routines[r].next \notin 0..Walk.now
    BY <1>1 DEF DueNow, RoomForDue
<1>4. Walk.now \in Nat
    BY WalkShape
<1> QED
    BY <1>2, <1>3, <1>4

LEMMA CaughtUpSound ==
    ASSUME IInv, DueNow # {}, NEW m, m = CaughtUp, NEW k, k = made + Cardinality(NewRuns)
    PROVE  /\ Sound(plan, m, k, clock) /\ NotAgain(m, starts, k)
           /\ Kept(mem.runs, m.runs) /\ NoneBack(mem.runs, m.runs, made)
           /\ RoomForDue(made)
           /\ \A r \in Routines : Recurring(plan, r) /\ m.routines[r].next # Never => Walk.now < m.routines[r].next
<1>1. /\ m \in StateType /\ m.receipts = mem.receipts /\ m.seen = mem.seen
      /\ \A r \in Routines : /\ r \in DueNow => m.routines[r] = Moved(r)
                             /\ r \notin DueNow => m.routines[r] = mem.routines[r]
      /\ \A r \in NewRuns : m.runs[BatchId(r)] = DueRun(r) /\ mem.runs[BatchId(r)] = NoRun
      /\ \A i \in Runs : (\E r \in NewRuns : BatchId(r) = i) \/ m.runs[i] = mem.runs[i]
    BY CaughtUpShape
<1>2. /\ k \in Nat /\ made \in Nat /\ made <= k /\ k <= MaxRuns
      /\ \A r \in NewRuns : BatchId(r) \in Runs /\ made < BatchId(r) /\ BatchId(r) <= k
      /\ \A r, t \in NewRuns : BatchId(r) = BatchId(t) => r = t
    BY BatchFits, Numbers DEF IInv
<1>3. NewRuns \subseteq DueNow /\ DueNow \subseteq Routines
    BY DEF NewRuns, DueNow
<1>4. RoomForDue(made)
    <2>1. PICK r \in DueNow : TRUE
        OBVIOUS
    <2> QED
        BY <2>1, DueRoutine
<1>5. \A r \in Routines : m.routines[r].state = "on" <=> m.routines[r].next # Never
    <2> SUFFICES ASSUME NEW r \in Routines PROVE m.routines[r].state = "on" <=> m.routines[r].next # Never
        OBVIOUS
    <2>1. CASE r \in DueNow
        BY <2>1, <1>1, MovedFits
    <2>2. CASE r \notin DueNow
        BY <2>2, <1>1 DEF IInv, CopiesFit, Sound, Typed
    <2> QED
        BY <2>1, <2>2
<1>6. \A r \in Routines : Recurring(plan, r) /\ m.routines[r].next # Never =>
          m.routines[r].next \in Occurrences(plan[r]) /\ Walk.now < m.routines[r].next
    <2> SUFFICES ASSUME NEW r \in Routines, Recurring(plan, r), m.routines[r].next # Never
                 PROVE  m.routines[r].next \in Occurrences(plan[r]) /\ Walk.now < m.routines[r].next
        OBVIOUS
    <2>1. CASE r \in DueNow
        BY <2>1, <1>1, MovedFits
    <2>2. CASE r \notin DueNow
        <3>1. Walk.now < mem.routines[r].next
            BY <2>2, <1>1, <1>4, NextIsLater
        <3> QED
            BY <2>2, <3>1, <1>1 DEF IInv, CopiesFit, Sound, Typed
    <2> QED
        BY <2>1, <2>2
<1>7. \A i \in Scheduled(m.runs) :
          \/ i \in Scheduled(mem.runs) /\ m.runs[i] = mem.runs[i]
          \/ \E r \in NewRuns : i = BatchId(r)
    BY <1>1 DEF Scheduled, Ids
<1>8. \A r \in NewRuns : /\ m.runs[BatchId(r)].of = r /\ m.runs[BatchId(r)].by = "schedule"
                         /\ m.runs[BatchId(r)].due = ScheduledFor(r)
    BY <1>1, <1>3, DueRunShape
<1>9. Typed(plan, m, k)
    <2>1. \A i \in Ids(m.runs) : i <= k
        <3> SUFFICES ASSUME NEW i \in Ids(m.runs) PROVE i <= k
            OBVIOUS
        <3>1. i \in Runs /\ m.runs[i] # NoRun /\ i \in Nat
            BY DEF Ids, Runs
        <3>2. CASE m.runs[i] = mem.runs[i]
            <4>1. i <= made
                BY <3>1, <3>2, CopiesAreTyped DEF IInv, Ids
            <4> QED
                BY <1>2, <3>1, <4>1
        <3>3. CASE \E r \in NewRuns : BatchId(r) = i
            BY <3>3, <1>2
        <3> QED
            BY <1>1, <3>1, <3>2, <3>3
    <2> QED
        BY <1>1, <1>5, <1>6, <2>1 DEF Typed
<1>10. Walk.now \in Nat /\ Walk.now <= clock /\ clock \in Nat
    BY WalkShape, Numbers DEF IInv
<1>11. \A r \in NewRuns : /\ r \in Routines /\ ScheduledFor(r) \in Nat /\ ScheduledFor(r) <= Walk.now
                          /\ mem.routines[r].next \in Nat /\ mem.routines[r].next <= ScheduledFor(r)
    BY <1>3, DueRoutine
<1>12. DueByNow(m, clock)
    <2> SUFFICES ASSUME NEW i \in Scheduled(m.runs) PROVE m.runs[i].of \in Routines /\ m.runs[i].due <= clock
        BY DEF DueByNow
    <2>1. CASE i \in Scheduled(mem.runs) /\ m.runs[i] = mem.runs[i]
        BY <2>1 DEF IInv, CopiesFit, Sound, DueByNow
    <2>2. ASSUME NEW r \in NewRuns, i = BatchId(r) PROVE m.runs[i].of \in Routines /\ m.runs[i].due <= clock
        BY <2>2, <1>8, <1>10, <1>11
    <2> QED
        BY <1>7, <2>1, <2>2
<1>13. \A i \in Scheduled(mem.runs) :
           /\ i \in Runs /\ mem.runs[i].due \in Nat
           /\ mem.runs[i].of \in Routines
           /\ Recurring(plan, mem.runs[i].of) /\ mem.routines[mem.runs[i].of].next # Never =>
                  mem.runs[i].due < mem.routines[mem.runs[i].of].next
    BY <1>4, CopiesAreTyped, RunsAreTyped DEF IInv, CopiesFit, Sound, DueByNow, DueBefore
<1>14. \A r \in DueNow : mem.routines[r].next # Never /\ mem.routines[r].next \in Nat /\ mem.routines[r].next <= Walk.now
    <2> SUFFICES ASSUME NEW r \in DueNow
                 PROVE  mem.routines[r].next # Never /\ mem.routines[r].next \in Nat /\ mem.routines[r].next <= Walk.now
        OBVIOUS
    <2>1. /\ mem.routines[r].next \in Nat /\ ScheduledFor(r) \in Nat
          /\ mem.routines[r].next <= ScheduledFor(r) /\ ScheduledFor(r) <= Walk.now
        BY DueRoutine
    <2> QED
        BY <2>1, <1>10 DEF Never
<1>15. \A r \in Routines : m.routines[r].next \in {Never} \cup Nat
    <2>1. m.routines \in [Routines -> Where]
        BY <1>1, SnapshotShape
    <2> QED
        BY <2>1 DEF Where
<1>16. DueBefore(plan, m, k)
    <2> SUFFICES ASSUME NEW i \in Scheduled(m.runs), NEW r, r = m.runs[i].of, Recurring(plan, r),
                        m.routines[r].next # Never
                 PROVE  m.runs[i].due < m.routines[r].next
        BY DEF DueBefore
    <2>0. r \in Routines
        BY <1>12 DEF DueByNow
    <2>1. Walk.now < m.routines[r].next /\ m.routines[r].next \in Nat
        BY <2>0, <1>6, <1>15
    <2>2. CASE i \in Scheduled(mem.runs) /\ m.runs[i] = mem.runs[i]
        <3>1. CASE r \in DueNow
            <4>1. mem.runs[i].due < mem.routines[r].next /\ mem.routines[r].next <= Walk.now
                BY <2>2, <3>1, <1>13, <1>14
            <4>2. mem.runs[i].due \in Nat /\ mem.routines[r].next \in Nat
                BY <2>2, <3>1, <1>13, <1>14
            <4>3. mem.runs[i].due < m.routines[r].next
                BY ONLY <2>1, <4>1, <4>2, <1>10
            <4> QED
                BY <2>2, <4>3
        <3>2. CASE r \notin DueNow
            BY <2>0, <2>2, <3>2, <1>1, <1>13
        <3> QED
            BY <3>1, <3>2
    <2>3. ASSUME NEW t \in NewRuns, i = BatchId(t) PROVE m.runs[i].due < m.routines[r].next
        <3>1. m.runs[i].due \in Nat /\ m.runs[i].due <= Walk.now
            BY <2>3, <1>8, <1>11
        <3> QED
            BY <2>1, <3>1, <1>10
    <2> QED
        BY <1>7, <2>2, <2>3
<1>17. DueApart(plan, m)
    <2> SUFFICES ASSUME NEW i \in Scheduled(m.runs), NEW j \in Scheduled(m.runs), i # j,
                        m.runs[i].of = m.runs[j].of, Recurring(plan, m.runs[i].of)
                 PROVE  /\ m.runs[i].due # m.runs[j].due
                        /\ m.runs[i].status = "queued" => m.runs[j].due < m.runs[i].due
        BY DEF DueApart
    <2>1. ASSUME NEW r \in NewRuns, NEW h \in Scheduled(mem.runs), mem.runs[h].of = r, Recurring(plan, r)
          PROVE  mem.runs[h].due < m.runs[BatchId(r)].due /\ mem.runs[h].status # "queued"
        <3>1. mem.runs[h].due < mem.routines[r].next
            BY <2>1, <1>3, <1>13, <1>14
        <3>2. mem.routines[r].next <= m.runs[BatchId(r)].due /\ m.runs[BatchId(r)].due \in Nat
            BY <1>8, <1>11
        <3>3. mem.runs[h].status # "queued"
            BY <2>1, BatchIsApart DEF Recurring
        <3> QED
            BY <3>1, <3>2, <3>3, <1>11, <1>13
    <2>2. CASE /\ i \in Scheduled(mem.runs) /\ m.runs[i] = mem.runs[i]
               /\ j \in Scheduled(mem.runs) /\ m.runs[j] = mem.runs[j]
        BY <2>2 DEF IInv, CopiesFit, Sound, DueApart
    <2>3. ASSUME NEW r \in NewRuns, i = BatchId(r), j \in Scheduled(mem.runs), m.runs[j] = mem.runs[j]
          PROVE  /\ m.runs[i].due # m.runs[j].due
                 /\ m.runs[i].status = "queued" => m.runs[j].due < m.runs[i].due
        <3>1. mem.runs[j].of = r /\ Recurring(plan, r)
            BY <2>3, <1>8
        <3>2. mem.runs[j].due < m.runs[i].due
            BY <2>1, <2>3, <3>1
        <3>3. mem.runs[j].due \in Nat /\ m.runs[i].due \in Nat
            BY <2>3, <1>8, <1>11, <1>13
        <3> QED
            BY <2>3, <3>2, <3>3
    <2>4. ASSUME NEW r \in NewRuns, j = BatchId(r), i \in Scheduled(mem.runs), m.runs[i] = mem.runs[i]
          PROVE  /\ m.runs[i].due # m.runs[j].due
                 /\ m.runs[i].status = "queued" => m.runs[j].due < m.runs[i].due
        <3>1. mem.runs[i].of = r /\ Recurring(plan, r)
            BY <2>4, <1>8
        <3>2. mem.runs[i].due < m.runs[j].due /\ mem.runs[i].status # "queued"
            BY <2>1, <2>4, <3>1
        <3>3. mem.runs[i].due \in Nat /\ m.runs[j].due \in Nat
            BY <2>4, <1>8, <1>11, <1>13
        <3> QED
            BY <2>4, <3>2, <3>3
    <2>5. ASSUME NEW r \in NewRuns, i = BatchId(r), NEW t \in NewRuns, j = BatchId(t)
          PROVE  FALSE
        BY <2>5, <1>8
    <2> QED
        BY <1>7, <2>2, <2>3, <2>4, <2>5
<1>18. NotAgain(m, starts, k)
    <2> SUFFICES ASSUME NEW i \in Runs, starts[i] # 0 PROVE i <= k /\ m.runs[i].status # "queued"
        BY DEF NotAgain
    <2>1. i <= made /\ mem.runs[i].status # "queued"
        BY DEF IInv, CopiesFit, NotAgain
    <2>2. i \in Nat
        BY DEF Runs
    <2>3. \A r \in NewRuns : BatchId(r) # i
        <3> SUFFICES ASSUME NEW r \in NewRuns, BatchId(r) = i PROVE FALSE
            OBVIOUS
        <3> QED
            BY <1>2, <2>1, <2>2
    <2> QED
        BY <1>1, <1>2, <2>1, <2>2, <2>3
<1>19. Kept(mem.runs, m.runs)
    BY <1>1, RunShape DEF Kept, Ended
<1>20. NoneBack(mem.runs, m.runs, made)
    <2> SUFFICES ASSUME NEW i \in Runs, i <= made, mem.runs[i] = NoRun PROVE m.runs[i] = NoRun
        BY DEF NoneBack
    <2>1. i \in Nat
        BY DEF Runs
    <2>2. \A r \in NewRuns : BatchId(r) # i
        <3> SUFFICES ASSUME NEW r \in NewRuns, BatchId(r) = i PROVE FALSE
            OBVIOUS
        <3> QED
            BY <1>2, <2>1
    <2> QED
        BY <1>1, <2>2
<1> QED
    BY <1>4, <1>6, <1>9, <1>12, <1>16, <1>17, <1>18, <1>19, <1>20 DEF Sound

\* What is missed is announced as it is queued.
LEMMA CaughtUpTruths ==
    ASSUME IInv, DueNow # {}, NEW m, m = CaughtUp, NEW k, k = made + Cardinality(NewRuns),
           Told({BatchId(r) : r \in {q \in NewRuns : Late(q)}}),
           Truths(mem.runs, turn, told, made)
    PROVE  Truths(m.runs, turn, told', k)
<1>1. /\ \A r \in NewRuns : m.runs[BatchId(r)] = DueRun(r) /\ mem.runs[BatchId(r)] = NoRun
      /\ \A i \in Runs : (\E r \in NewRuns : BatchId(r) = i) \/ m.runs[i] = mem.runs[i]
    BY CaughtUpShape
<1>2. /\ k \in Nat /\ made \in Nat /\ made <= k
      /\ \A r \in NewRuns : BatchId(r) \in Runs /\ made < BatchId(r) /\ BatchId(r) <= k
      /\ \A r, t \in NewRuns : BatchId(r) = BatchId(t) => r = t
    BY BatchFits, Numbers DEF IInv
<1>3. NewRuns \subseteq DueNow
    BY DEF NewRuns
<1>4. \A r \in NewRuns : m.runs[BatchId(r)].status = IF Late(r) THEN "missed" ELSE "queued"
    BY <1>1, <1>3, DueRunShape
<1>5. \A i \in Runs : told'[i] = IF \E r \in NewRuns : Late(r) /\ BatchId(r) = i THEN told[i] + 1 ELSE told[i]
    BY DEF Told
<1>6. ASSUME NEW i \in Runs
      PROVE  TrueOf(m.runs[i], turn[i], told'[i], i <= k)
    <2>1. TrueOf(mem.runs[i], turn[i], told[i], i <= made)
        BY DEF Truths
    <2>2. i \in Nat
        BY DEF Runs
    <2>3. CASE \E r \in NewRuns : BatchId(r) = i
        <3>1. PICK r \in NewRuns : BatchId(r) = i
            BY <2>3
        <3>2. mem.runs[i] = NoRun /\ ~ (i <= made) /\ i <= k
            BY <1>1, <1>2, <2>2, <3>1
        <3>3. turn[i] \notin Engaged /\ told[i] = 0
            BY <2>1, <3>2 DEF TrueOf, NoRun, Working
        <3>4. told'[i] = IF Late(r) THEN 1 ELSE 0
            BY <1>2, <1>5, <3>1, <3>3
        <3>5. m.runs[i].status = IF Late(r) THEN "missed" ELSE "queued"
            BY <1>4, <3>1
        <3> QED
            BY <3>2, <3>3, <3>4, <3>5 DEF TrueOf, Working, Lost
    <2>4. CASE ~ \E r \in NewRuns : BatchId(r) = i
        <3>1. m.runs[i] = mem.runs[i] /\ told'[i] = told[i]
            BY <1>1, <1>5, <2>4
        <3>2. i <= made => i <= k
            BY <1>2, <2>2
        <3> QED
            BY <2>1, <3>1, <3>2 DEF TrueOf
    <2> QED
        BY <2>3, <2>4
<1>7. OneAtWork(m.runs)
    <2> SUFFICES ASSUME NEW i \in Scheduled(m.runs), NEW j \in Scheduled(m.runs), i # j,
                        m.runs[i].of = m.runs[j].of, m.runs[i].status \in Working, m.runs[j].status \in Working
                 PROVE  FALSE
        BY DEF OneAtWork
    <2>1. \A r \in NewRuns : m.runs[BatchId(r)].status \notin Working
        BY <1>4 DEF Working
    <2>2. /\ i \in Runs /\ j \in Runs /\ m.runs[i] = mem.runs[i] /\ m.runs[j] = mem.runs[j]
        BY <1>1, <2>1 DEF Scheduled, Ids
    <2>3. i \in Scheduled(mem.runs) /\ j \in Scheduled(mem.runs)
        BY <2>2 DEF Scheduled, Ids
    <2> QED
        BY <2>2, <2>3 DEF Truths, OneAtWork
<1> QED
    BY <1>6, <1>7 DEF Truths

\* The dispatch starts after what was due has moved on.
LEMMA DispatchBegins ==
    ASSUME IInv, tick' = GoesOn([Walk EXCEPT !.at = "dispatch", !.todo = Ids(mem'.runs), !.stale = <<>>], mem'.runs),
           UNCHANGED <<plan, clock>>,
           RoomForDue(made') => \A r \in Routines : Recurring(plan, r) /\ mem'.routines[r].next # Never =>
                                    Walk.now < mem'.routines[r].next
    PROVE  TickFits' /\ tick'.stale = <<>>
<1>1. CASE tick' = Idle
    BY <1>1, Numbers DEF TickFits, Idle, IInv
<1>2. CASE tick' = [Walk EXCEPT !.at = "dispatch", !.todo = Ids(mem'.runs), !.stale = <<>>]
    <2>1. tick' = [at |-> "dispatch", now |-> Walk.now, todo |-> Ids(mem'.runs), stale |-> <<>>]
        BY <1>2, WalkShape
    <2>2. Walk.now \in Nat /\ Walk.now <= clock' /\ Ids(mem'.runs) \subseteq Runs
        BY WalkShape DEF Ids
    <2> HIDE DEF Walk
    <2>3. /\ tick'.at = "dispatch" /\ tick'.now = Walk.now /\ tick'.stale = <<>>
          /\ tick' \in [at : {"idle", "interrupting", "dispatch", "starting"}, now : Nat, todo : SUBSET Runs,
                        stale : {tick'.stale}]
        BY <2>1, <2>2
    <2> QED
        BY <2>2, <2>3 DEF TickFits, Recurring
<1> QED
    BY <1>1, <1>2 DEF GoesOn

LEMMA CatchesUpFits ==
    ASSUME IInv, CatchesUp
    PROVE  IInv' /\ Step
<1> DEFINE k == made + Cardinality(NewRuns)
           late == {BatchId(r) : r \in {q \in NewRuns : Late(q)}}
           going == GoesOn([Walk EXCEPT !.at = "dispatch", !.todo = Ids(mem'.runs), !.stale = <<>>], mem'.runs)
<1>1. UNCHANGED <<plan, answered, turn, clock, starts, applied, accepts>>
    BY DEF CatchesUp, env
<1>2. \/ /\ IF DueNow = {} THEN UNCHANGED <<mem, disk, failures>> ELSE Saved(CaughtUp)
         /\ made' = k /\ Told(late) /\ tick' = going
      \/ DueNow # {} /\ WriteFails /\ tick' = Idle /\ UNCHANGED <<mem, disk, made, told>>
    BY DEF CatchesUp
<1>3. /\ made \in Nat /\ clock' \in 0..MaxTime /\ clock <= clock' /\ clock' \in Nat /\ turn' \in [Runs -> Turns]
      /\ told \in [Runs -> Nat] /\ failures \in Nat
    BY <1>1, Numbers DEF IInv, ShapeFits
<1>4. CASE DueNow # {} /\ WriteFails /\ tick' = Idle /\ UNCHANGED <<mem, disk, made, told>>
    <2>1. failures' \in Nat /\ failures' # 0
        BY <1>3, <1>4 DEF WriteFails
    <2> QED
        BY <1>1, <1>3, <1>4, <2>1, QuietFits
<1>5. CASE DueNow = {} /\ UNCHANGED <<mem, disk, failures>> /\ made' = k /\ Told(late) /\ tick' = going
    <2>1. NewRuns = {} /\ late = {}
        BY <1>5 DEF NewRuns
    <2>2. made' = made
        BY <1>3, <1>5, <2>1, FS_EmptySet
    <2>3. told' = told
        BY <1>3, <1>5, <2>1 DEF Told
    <2>4. RoomForDue(made) => \A r \in Routines : Recurring(plan, r) /\ mem.routines[r].next # Never =>
                                  Walk.now < mem.routines[r].next
        BY <1>5, NextIsLater
    <2>5. TickFits' /\ tick'.stale = <<>>
        BY <1>1, <1>5, <2>2, <2>4, DispatchBegins
    <2> QED
        BY <1>1, <1>3, <1>5, <2>2, <2>3, <2>5, QuietFits
<1>6. CASE DueNow # {} /\ Saved(CaughtUp) /\ made' = k /\ Told(late) /\ tick' = going
    <2> DEFINE m == CaughtUp
    <2>1. m \in StateType /\ m.receipts = mem.receipts /\ m.seen = mem.seen
        BY <1>6, CaughtUpShape
    <2>2. /\ Sound(plan, m, k, clock) /\ NotAgain(m, starts, k)
          /\ Kept(mem.runs, m.runs) /\ NoneBack(mem.runs, m.runs, made)
          /\ RoomForDue(made)
          /\ \A r \in Routines : Recurring(plan, r) /\ m.routines[r].next # Never => Walk.now < m.routines[r].next
        BY <1>6, CaughtUpSound
    <2>3. Truths(mem.runs, turn, told, made) => Truths(m.runs, turn, told', k)
        BY <1>6, CaughtUpTruths
    <2>4. k \in 0..MaxRuns /\ made <= k /\ k \in Nat
        BY <1>3, <1>6, BatchFits, Constants
    <2>5. Saved(m)
        BY <1>6
    <2>6. told' \in [Runs -> Nat]
        BY <1>3, <1>6 DEF Told
    <2> HIDE DEF m, k, late
    <2>7. Edits1(mem, m)
        BY <1>1, <1>6, <2>2 DEF Edits1
    <2>8. /\ CopiesFit' /\ Kept(disk.runs, disk'.runs) /\ mem'.routines = m.routines
          /\ mem'.receipts = mem.receipts /\ mem'.seen = mem.seen
        BY <2>1, <2>5, <2>7, BothFit DEF Saved
    <2>9. TickFits' /\ tick'.stale = <<>>
        BY <1>1, <1>6, <2>2, <2>8, DispatchBegins
    <2>10. CardsFit' /\ DeliveriesFit'
        BY <1>1, <1>3, <2>8, CardsCalm, DeliveriesCalm DEF IInv
    <2>11. ShapeFits'
        BY <1>1, <1>3, <1>6, <2>4, <2>5, <2>6 DEF IInv, ShapeFits, Turns, Saved
    <2>12. failures' = 0 => Truth'
        <3> SUFFICES ASSUME failures = 0 PROVE Truth'
            BY <2>5 DEF Saved
        <3>1. Truths(m.runs, turn', told', made')
            BY <1>1, <1>6, <2>3 DEF IInv, Truth
        <3> QED
            BY <2>1, <2>5, <2>9, <3>1, TruthFits
    <2>13. Step
        BY <1>1, <2>8 DEF Step, IInv, ShapeFits
    <2> QED
        BY <2>8, <2>9, <2>10, <2>11, <2>12, <2>13 DEF IInv
<1> QED
    BY <1>2, <1>4, <1>5, <1>6

-----------------------------------------------------------------------------
(* The invariant. *)

LEMMA FirstOccurrence ==
    ASSUME NEW s \in Plan
    PROVE  InitialOccurrence(s, 0) \in Nat /\ InitialOccurrence(s, 0) # Never
           /\ InitialOccurrence(s, 0) \in Occurrences(s)
<1>1. s.kind \in {"once", "interval", "daily"}
    BY DEF Plan
<1>2. CASE s.kind = "once"
    BY <1>2, Constants DEF InitialOccurrence, Occurrences, Never
<1>3. CASE s.kind # "once"
    <2>1. NextOccurrence(s, 0) # Never
        <3>1. CASE s.kind = "interval"
            <4>1. Every % Every = 0 /\ Every \in 1..EndsAt /\ 0 < Every
                BY Constants
            <4>2. Every \in Occurrences(s)
                BY <3>1, <4>1 DEF Occurrences
            <4> QED
                BY <4>1, <4>2, NextExists
        <3>2. CASE s.kind = "daily"
            BY <3>2, DailyGoesOn, Constants
        <3> QED
            BY <1>1, <1>3, <3>1, <3>2
    <2>2. NextOccurrence(s, 0) \in Occurrences(s)
        BY <2>1, NextIsAfter
    <2>3. InitialOccurrence(s, 0) = NextOccurrence(s, 0)
        BY <1>3 DEF InitialOccurrence
    <2> QED
        BY <2>1, <2>2, <2>3, OccurrencesAreMinutes
<1> QED
    BY <1>2, <1>3

LEMMA InitFits == Init => IInv
<1> SUFFICES ASSUME Init PROVE IInv
    OBVIOUS
<1>1. /\ plan \in [Routines -> Plans] /\ made = 0 /\ clock = 0 /\ failures = 0 /\ tick = Idle
      /\ mem = Fresh /\ disk = Fresh /\ answered = {} /\ turn = [i \in Runs |-> "none"]
      /\ starts = [i \in Runs |-> 0] /\ told = [i \in Runs |-> 0] /\ applied = [q \in Cards |-> 0]
      /\ accepts = [d \in Deliveries |-> [n |-> 0, at |-> Never]]
    BY DEF Init
<1>2. ShapeFits
    BY <1>1, Constants DEF ShapeFits, Never
<1>3. \A r \in Routines : /\ InitialOccurrence(plan[r], 0) \in Nat /\ InitialOccurrence(plan[r], 0) # Never
                          /\ InitialOccurrence(plan[r], 0) \in Occurrences(plan[r])
    BY <1>1, FirstOccurrence, Constants
<1>4. /\ Fresh = [runs |-> Fresh.runs, routines |-> Fresh.routines, receipts |-> Fresh.receipts, seen |-> Fresh.seen]
      /\ Fresh.runs = [i \in Runs |-> NoRun] /\ Fresh.receipts = {} /\ Fresh.seen = [d \in Deliveries |-> Never]
      /\ Fresh.routines = [r \in Routines |-> [state |-> "on", next |-> InitialOccurrence(plan[r], 0)]]
    BY DEF Fresh
<1>5. Fresh \in StateType
    <2>1. Fresh.routines \in [Routines -> Where]
        BY <1>3, <1>4 DEF Where
    <2>2. Fresh.runs \in Runsheet
        BY <1>4 DEF Runsheet
    <2> QED
        BY <1>4, <2>1, <2>2, SnapshotShape
<1>6. Ids(Fresh.runs) = {} /\ Scheduled(Fresh.runs) = {}
    BY <1>4 DEF Ids, Scheduled
<1>7. \A r \in Routines : /\ Fresh.routines[r].state = "on" /\ Fresh.routines[r].next # Never
                          /\ Fresh.routines[r].next \in Occurrences(plan[r])
    BY <1>3, <1>4
<1>8. Sound(plan, Fresh, made, clock)
    BY <1>5, <1>6, <1>7 DEF Sound, Typed, DueByNow, DueBefore, DueApart
<1>9. NotAgain(Fresh, starts, made)
    BY <1>1 DEF NotAgain
<1>10. \A i \in Runs : Fresh.runs[i] = NoRun
    BY <1>4
<1>11. Capped(Fresh.runs) /\ Kept(Fresh.runs, Fresh.runs)
    BY <1>10, RunShape DEF Capped, Kept, In, Ended
<1> HIDE DEF Fresh
<1>12. CopiesFit
    BY <1>1, <1>8, <1>9, <1>11 DEF CopiesFit
<1>13. TickFits
    BY <1>1 DEF TickFits, Idle
<1>14. CardsFit /\ DeliveriesFit
    BY <1>1, <1>4 DEF CardsFit, DeliveriesFit
<1>15. Truth
    <2>1. \A i \in Runs : TrueOf(Fresh.runs[i], turn[i], told[i], i <= made)
        BY <1>1, <1>10 DEF TrueOf, NoRun, Working, Engaged, Lost
    <2>2. OneAtWork(Fresh.runs)
        BY <1>6 DEF OneAtWork
    <2> QED
        BY <1>1, <2>1, <2>2 DEF Truth, Truths, Idle
<1> QED
    BY <1>2, <1>12, <1>13, <1>14, <1>15 DEF IInv

LEMMA NextFits ==
    ASSUME IInv, [Next]_vars
    PROVE  IInv' /\ Step
<1>1. CASE UNCHANGED vars
    <2>1. /\ UNCHANGED <<plan, mem, disk, answered, made, starts, told, applied, accepts, tick, turn, clock, failures>>
        BY <1>1 DEF vars, env, history
    <2>2. clock \in 0..MaxTime
        BY DEF IInv, ShapeFits
    <2>3. clock' \in 0..MaxTime /\ clock <= clock' /\ failures' \in Nat /\ turn' \in [Runs -> Turns]
        BY <2>1, <2>2, Numbers DEF IInv
    <2> QED
        BY <2>1, <2>3, QuietFits
<1>2. CASE Tick
    BY <1>2, TimesOutFits, CatchesUpFits, DispatchesFits, TickEndsFits DEF Tick
<1>3. CASE Asked
    BY <1>3, RunNowFits, EditsFits, DeletesBotFits, ConfirmsFits, ConfirmsAgainFits, ReceivesFits, CancelsFits DEF Asked
<1>4. CASE World \/ GuestStarts
    BY <1>4, WorldFits, AsksFits DEF World
<1>5. CASE Restarts
    BY <1>5, RestartsFits
<1>6. ASSUME NEW i \in Runs, TurnEnds(i) \/ TurnGoesOn(i) PROVE IInv' /\ Step
    BY <1>6, AsksFits, CompletesFits, FailsFits DEF TurnEnds, TurnGoesOn
<1> QED
    BY <1>1, <1>2, <1>3, <1>4, <1>5, <1>6 DEF Next

LEMMA Invariant == Spec => []IInv
<1>1. IInv /\ [Next]_vars => IInv'
    BY NextFits
<1> QED
    BY <1>1, InitFits, PTL DEF Spec

-----------------------------------------------------------------------------
(* Theorems. *)

\* Memory and file keep their shape and the history cap, and an enabled
\* routine has a next occurrence, whatever fails and wherever the process dies
\* (routines.ts:1444-1457, :1882-1894).
THEOREM RoutinesTyped == Spec => []TypeOK
<1>1. IInv => TypeOK
    <2> SUFFICES ASSUME IInv PROVE TypeOK
        OBVIOUS
    <2>1. /\ mem \in StateType /\ disk \in StateType
          /\ \A i \in Ids(mem.runs) : i <= made
        BY CopiesAreTyped DEF IInv
    <2>2. \A r \in Routines : (mem.routines[r].state = "on") = (mem.routines[r].next # Never)
        BY DEF IInv, CopiesFit, Sound, Typed
    <2>3. \A f \in {mem, disk} :
              In(f.runs, Ended) # {} => Cardinality(Ids(f.runs)) <= Max({Retain, Cardinality(In(f.runs, Live))})
        BY DEF IInv, CopiesFit, Capped
    <2> QED
        BY <2>1, <2>2, <2>3 DEF TypeOK, IInv, ShapeFits
<1> QED
    BY <1>1, Invariant, PTL

\* No run is started twice, no occurrence of a recurring routine gets two
\* runs, no confirmed card is carried out twice, across failed writes of the
\* one file or the other and restarts (routines.ts:1420-1450, :1485-1548,
\* :1853-1879).
THEOREM NothingDoneTwice == Spec => []NothingTwice
<1>1. IInv => NothingTwice
    <2> SUFFICES ASSUME IInv PROVE NothingTwice
        OBVIOUS
    <2>1. StartedOnce
        BY DEF StartedOnce, IInv, ShapeFits
    <2>2. OccurrenceOnce
        <3> SUFFICES ASSUME NEW i \in Ids(mem.runs), NEW j \in Ids(mem.runs), i # j,
                            mem.runs[i].of = mem.runs[j].of, mem.runs[i].by = "schedule",
                            mem.runs[j].by = "schedule", plan[mem.runs[i].of].kind # "once"
                     PROVE  mem.runs[i].due # mem.runs[j].due
            BY DEF OccurrenceOnce
        <3>1. i \in Scheduled(mem.runs) /\ j \in Scheduled(mem.runs)
            BY DEF Scheduled
        <3> QED
            BY <3>1 DEF IInv, CopiesFit, Sound, DueApart, Recurring
    <2>3. CardAppliedOnce
        BY DEF CardAppliedOnce, IInv, ShapeFits, CardsFit
    <2> QED
        BY <2>1, <2>2, <2>3 DEF NothingTwice
<1> QED
    BY <1>1, Invariant, PTL

\* While every write succeeds the runs say what the engine does: one is at
\* work exactly when a turn of it is on, a routine's scheduled runs take turns,
\* and each failed or missed run is announced once (routines.ts:1322-1340,
\* :1386-1411, :1503-1507, :1688-1706).
THEOREM RunsSayTheTruth == Spec => []RunsAreTrue
<1>1. IInv => RunsAreTrue
    <2> SUFFICES ASSUME IInv, failures = 0
                 PROVE  WorkHasATurn /\ ScheduledRunsTakeTurns /\ FailuresAreTold
        BY DEF RunsAreTrue
    <2>1. Truths(mem.runs, turn, told, made)
        BY DEF IInv, Truth
    <2>2. \A i \in Runs : TrueOf(mem.runs[i], turn[i], told[i], i <= made)
        BY <2>1 DEF Truths
    <2>3. WorkHasATurn
        BY <2>2 DEF WorkHasATurn, TrueOf, Engaged
    <2>4. ScheduledRunsTakeTurns
        <3> SUFFICES ASSUME NEW i \in Runs, NEW j \in Runs, i # j, {i, j} \subseteq Ids(mem.runs),
                            mem.runs[i].of = mem.runs[j].of,
                            mem.runs[i].by = "schedule", mem.runs[j].by = "schedule",
                            turn[i] \in Engaged, turn[j] \in Engaged
                     PROVE  FALSE
            BY DEF ScheduledRunsTakeTurns, Engaged
        <3>1. i \in Scheduled(mem.runs) /\ j \in Scheduled(mem.runs)
            BY DEF Scheduled
        <3>2. mem.runs[i].status \in Working /\ mem.runs[j].status \in Working
            BY <2>2 DEF TrueOf
        <3> QED
            BY <2>1, <3>1, <3>2 DEF Truths, OneAtWork
    <2>5. FailuresAreTold
        BY <2>2 DEF FailuresAreTold, TrueOf, Lost
    <2> QED
        BY <2>3, <2>4, <2>5
<1> QED
    BY <1>1, Invariant, PTL

\* A repeated delivery is queued again only when its window and its run are
\* over, and what the file says has ended is never revived, by whichever write,
\* event or restart (routines.ts:1204-1214, :1248-1266, :1586-1588,
\* webhooks.ts:453-472).
THEOREM RepeatsIgnored == Spec => RepeatsAndLateEventsAreIgnored
<1>1. ASSUME IInv, [Next]_vars
      PROVE  [/\ \A d \in Deliveries :
                   accepts'[d].n > accepts[d].n /\ accepts[d].n > 0
                     => clock - accepts[d].at > RetryWindow /\ ~HasLiveRun(d)
              /\ \A i \in Runs : disk.runs[i].status \in Ended => disk'.runs[i] \in {disk.runs[i], NoRun}]_vars
    <2>1. Step
        BY <1>1, NextFits
    <2> QED
        BY <2>1 DEF Step, Kept
<1>2. Spec => [][Next]_vars
    BY PTL DEF Spec
<1> QED
    BY <1>1, <1>2, Invariant, PTL DEF RepeatsAndLateEventsAreIgnored
=============================================================================
