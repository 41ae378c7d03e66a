------------------------- MODULE DelegationsProofs -------------------------
(* Theorems about the handoffs between bots, for every instance of          *)
(* Delegations: the types of the state; that each handoff is accounted for, *)
(* started once and credited with its own reply; that nothing sleeps in     *)
(* vain; that handoffs begin and end by the rules.                          *)
EXTENDS Delegations, FiniteSetTheorems, WellFoundedInduction, TLAPS

-----------------------------------------------------------------------------
(* The inductive invariant. *)

Pending(do, t) == Job(do, t) \in ToSet(jobs)

\* Handoffs are queued, parked and drained in the thread they come from.
Homed ==
    /\ \A t \in Threads : \A i \in ToSet(queue[t]) : i \in born /\ From[i] = t
    /\ \A t \in Threads : \A i \in ToSet(drain[t].todo) : i \in born /\ From[i] = t
    /\ \A i \in parked : Queued(i)
    /\ \A i \in Items : starts[i] > 0 \/ receipt[i] # "none" => i \in born
    /\ \A t \in Threads : watch[t] # NoItem => watch[t] \in born

\* One job at most carries the drain of a thread on, and it is the job that
\* the state of the drain calls for.
Carriers == {"item", "answered", "ack"}
Lone(js) ==
    \A k, m \in 1..Len(js) :
        js[k].do \in Carriers /\ js[m].do \in Carriers /\ js[k].thread = js[m].thread => k = m
CarriedAt(t) ==
    /\ Draining(t) <=> drain[t].snapshot # {}
    /\ drain[t].await # "none" => drain[t].todo # <<>> /\ drain[t].snapshot # {}
    /\ Pending("item", t) => Draining(t) /\ drain[t].await = "none"
    /\ Pending("answered", t) => drain[t].await \in {"allow", "deny"}
    /\ Pending("ack", t) <=> drain[t].await \in {"settled", "requeued", "dispatched"}
    /\ t \in redrain => Draining(t)
Carried == Lone(jobs) /\ \A t \in Threads : CarriedAt(t)

\* A parked handoff whose target can take it again is about to be released or
\* looked at.
ToExamine(i) ==
    LET d == drain[From[i]] IN
    /\ d.todo # <<>>
    /\ i = Head(d.todo) /\ d.await = "requeued" => i \in ToSet(Tail(d.todo))
    /\ i \in ToSet(d.todo)
Freeing(b) == \E u \in Threads : Owner[u] = b /\ (Pending("retry", u) \/ Pending("release", u))
Attended(i) ==
    \/ Freeing(Owner[To[i]]) \/ ToExamine(i)
    \/ Pending("drain", From[i]) \/ From[i] \in redrain
ParkedFits == \A i \in parked : CanTake(i) => Attended(i)

\* A source that learnt of an outcome is about to be woken, or its wake is
\* parked; what is parked and could be served is about to be.
Serving == \E u \in Threads : Pending("wakes", u) \/ Pending("retry", u)
WakesFit ==
    /\ \A t \in unseen : t \in ToSet(wakes) \/ t \in gone \/ Pending("wake", t)
    /\ \A t \in ToSet(wakes) : Admits(t) => Serving

\* What leaves the queue has an answer, or a turn that will give it.
Answered(i) == receipt[i] # "none" \/ (\E t \in Threads : watch[t] = i) \/ i \in lost
AnswersFit ==
    /\ \A i \in born : Queued(i) \/ Answered(i)
    /\ \A t \in Threads : drain[t].await \in {"settled", "dispatched"} => Answered(Handling(t))

\* A handoff that was started or settled stays queued only until its drain
\* acknowledges it; a turn that is watched is the only one of its handoff.
Acknowledging(i, awaits) == drain[From[i]].await \in awaits /\ i = Handling(From[i])
OnceAt(i) ==
    /\ starts[i] <= 1
    /\ Queued(i) /\ starts[i] > 0 => Acknowledging(i, {"dispatched"})
    /\ Queued(i) /\ receipt[i] # "none" => Acknowledging(i, {"settled", "dispatched"})
    /\ \A t \in Threads : watch[t] = i => /\ receipt[i] = "none" /\ starts[i] > 0
                                          /\ \A u \in Threads : watch[u] = i => u = t
OnceFits == \A i \in Items \ torn : OnceAt(i)

IInv ==
    /\ TypeOK /\ Homed /\ Carried /\ ParkedFits /\ WakesFit
    /\ AnswersFit /\ OnceFits /\ ReplyIsItsOwn

-----------------------------------------------------------------------------
(* Facts about sequences. *)

LEMMA EmptySet == ToSet(<<>>) = {}
BY DEF ToSet

LEMMA SingleSet == ASSUME NEW e PROVE ToSet(<<e>>) = {e}
BY DEF ToSet

LEMMA PairSet == ASSUME NEW d, NEW e PROVE ToSet(<<d, e>>) = {d, e}
BY DEF ToSet

LEMMA AppendSet ==
    ASSUME NEW S, NEW s \in Seq(S), NEW e \in S
    PROVE  ToSet(Append(s, e)) = ToSet(s) \cup {e}
<1>1. DOMAIN Append(s, e) = 1..(Len(s) + 1) /\ DOMAIN s = 1..Len(s) /\ Len(s) \in Nat
  OBVIOUS
<1>2. \A k \in 1..(Len(s) + 1) : Append(s, e)[k] = IF k = Len(s) + 1 THEN e ELSE s[k]
  OBVIOUS
<1>3. ASSUME NEW x \in ToSet(s) PROVE x \in ToSet(Append(s, e))
  <2>1. PICK k \in 1..Len(s) : s[k] = x
    BY <1>1 DEF ToSet
  <2>2. k \in 1..(Len(s) + 1) /\ Append(s, e)[k] = x
    BY <1>1, <1>2, <2>1
  <2> QED
    BY <1>1, <2>2 DEF ToSet
<1>4. e \in ToSet(Append(s, e))
  <2>1. Len(s) + 1 \in 1..(Len(s) + 1) /\ Append(s, e)[Len(s) + 1] = e
    BY <1>1, <1>2
  <2> QED
    BY <1>1, <2>1 DEF ToSet
<1>5. ASSUME NEW x \in ToSet(Append(s, e)) PROVE x \in ToSet(s) \cup {e}
  <2>1. PICK k \in 1..(Len(s) + 1) : Append(s, e)[k] = x
    BY <1>1 DEF ToSet
  <2>2. CASE k = Len(s) + 1
    BY <1>2, <2>1, <2>2
  <2>3. CASE k # Len(s) + 1
    <3>1. k \in 1..Len(s) /\ s[k] = x
      BY <1>1, <1>2, <2>1, <2>3
    <3> QED
      BY <1>1, <3>1 DEF ToSet
  <2> QED
    BY <2>2, <2>3
<1> QED
  BY <1>3, <1>4, <1>5

LEMMA ConcatSet ==
    ASSUME NEW S, NEW a \in Seq(S), NEW b \in Seq(S)
    PROVE  ToSet(a \o b) = ToSet(a) \cup ToSet(b)
<1>1. /\ DOMAIN (a \o b) = 1..(Len(a) + Len(b)) /\ DOMAIN a = 1..Len(a) /\ DOMAIN b = 1..Len(b)
      /\ Len(a) \in Nat /\ Len(b) \in Nat
  OBVIOUS
<1>2. \A k \in 1..(Len(a) + Len(b)) : (a \o b)[k] = IF k <= Len(a) THEN a[k] ELSE b[k - Len(a)]
  OBVIOUS
<1>3. ASSUME NEW x \in ToSet(a) PROVE x \in ToSet(a \o b)
  <2>1. PICK k \in 1..Len(a) : a[k] = x
    BY <1>1 DEF ToSet
  <2>2. k \in 1..(Len(a) + Len(b)) /\ (a \o b)[k] = x
    BY <1>1, <1>2, <2>1
  <2> QED
    BY <1>1, <2>2 DEF ToSet
<1>4. ASSUME NEW x \in ToSet(b) PROVE x \in ToSet(a \o b)
  <2>1. PICK k \in 1..Len(b) : b[k] = x
    BY <1>1 DEF ToSet
  <2>2. k + Len(a) \in 1..(Len(a) + Len(b)) /\ (a \o b)[k + Len(a)] = x
    BY <1>1, <1>2, <2>1
  <2> QED
    BY <1>1, <2>2 DEF ToSet
<1>5. ASSUME NEW x \in ToSet(a \o b) PROVE x \in ToSet(a) \cup ToSet(b)
  <2>1. PICK k \in 1..(Len(a) + Len(b)) : (a \o b)[k] = x
    BY <1>1 DEF ToSet
  <2>2. CASE k <= Len(a)
    <3>1. k \in 1..Len(a) /\ a[k] = x
      BY <1>1, <1>2, <2>1, <2>2
    <3> QED
      BY <1>1, <3>1 DEF ToSet
  <2>3. CASE ~(k <= Len(a))
    <3>1. k - Len(a) \in 1..Len(b) /\ b[k - Len(a)] = x
      BY <1>1, <1>2, <2>1, <2>3
    <3> QED
      BY <1>1, <3>1 DEF ToSet
  <2> QED
    BY <2>2, <2>3
<1> QED
  BY <1>3, <1>4, <1>5

\* A non-empty set of numbers has a least one.
LEMMA MinOfNat ==
    ASSUME NEW T, T \subseteq Nat, T # {}
    PROVE  \E m \in T : \A n \in T : m <= n
<1>1. \E m \in T : \A n \in T : ~ (<<n, m>> \in OpToRel(<, Nat))
  BY NatLessThanWellFounded, WFMin
<1>2. \A m, n \in Nat : n < m => <<n, m>> \in OpToRel(<, Nat)
  BY DEF OpToRel
<1>3. PICK m \in T : \A n \in T : ~ (<<n, m>> \in OpToRel(<, Nat))
  BY <1>1
<1>4. \A n \in T : ~ (n < m)
  BY <1>2, <1>3
<1> QED
  BY <1>4

\* What is left of a sequence without the members of a set.
LEMMA WithoutFacts ==
    ASSUME NEW X, NEW s \in Seq(X), NEW S
    PROVE  Without(s, S) \in Seq(X) /\ ToSet(Without(s, S)) = ToSet(s) \ S
<1> DEFINE kept[n \in 0..Len(s)] == IF n = 0 THEN <<>>
                                 ELSE IF s[n] \in S THEN kept[n - 1] ELSE Append(kept[n - 1], s[n])
           Step(g, n) == IF s[n] \in S THEN g[n - 1] ELSE Append(g[n - 1], s[n])
           Whole(g) == [n \in 0..Len(s) |-> IF n = 0 THEN <<>>
                                     ELSE IF s[n] \in S THEN g[n - 1] ELSE Append(g[n - 1], s[n])]
           Fits(g, n) == /\ g \in [0..n -> Seq(X)] /\ g[0] = <<>>
                         /\ \A k \in 1..n : g[k] = Step(g, k)
<1> HIDE DEF kept
<1>0. Len(s) \in Nat /\ DOMAIN s = 1..Len(s) /\ \A k \in 1..Len(s) : s[k] \in X
  OBVIOUS
<1>1. \A n \in 0..Len(s) : \E g : Fits(g, n)
  <2> DEFINE Bad == {n \in 0..Len(s) : ~\E g : Fits(g, n)}
  <2> SUFFICES ASSUME Bad # {} PROVE FALSE
    OBVIOUS
  <2>0. Bad \subseteq 0..Len(s) /\ Bad \subseteq Nat
    BY <1>0
  <2> HIDE DEF Bad
  <2>1. PICK n \in Bad : \A m \in Bad : n <= m
    BY <2>0, MinOfNat
  <2>2. n \in 0..Len(s) /\ n - 1 \notin Bad
    BY <1>0, <2>0, <2>1
  <2> USE DEF Bad
  <2>3. ~\E g : Fits(g, n)
    BY <2>1
  <2>4. CASE n = 0
    <3>1. Fits([k \in 0..0 |-> <<>>], 0)
      OBVIOUS
    <3> QED
      BY <2>3, <2>4, <3>1
  <2>5. CASE n # 0
    <3>1. n - 1 \in 0..Len(s) /\ n \in 1..Len(s)
      BY <1>0, <2>2, <2>5
    <3> HIDE DEF Fits
    <3>2. PICK g : Fits(g, n - 1)
      BY <2>2, <3>1
    <3> USE DEF Fits
    <3> DEFINE h == [k \in 0..n |-> IF k = n THEN Step(g, n) ELSE g[k]]
    <3>3. g[n - 1] \in Seq(X) /\ s[n] \in X
      BY <1>0, <3>1, <3>2
    <3>4. Step(g, n) \in Seq(X)
      BY <3>3
    <3> HIDE DEF Step
    <3>5. h \in [0..n -> Seq(X)] /\ h[0] = <<>>
      BY <3>1, <3>2, <3>4
    <3>6. ASSUME NEW k \in 1..n PROVE h[k] = Step(h, k)
      <4>1. k - 1 \in 0..(n - 1) /\ h[k - 1] = g[k - 1]
        BY <3>1
      <4>2. Step(h, k) = Step(g, k)
        BY <4>1 DEF Step
      <4>3. CASE k = n
        BY <3>1, <4>2, <4>3
      <4>4. CASE k # n
        <5>1. k \in 1..(n - 1) /\ h[k] = g[k]
          BY <3>1, <4>4
        <5> QED
          BY <3>2, <4>2, <5>1
      <4> QED
        BY <4>3, <4>4
    <3> HIDE DEF h
    <3>7. Fits(h, n)
      BY <3>5, <3>6
    <3> QED
      BY <2>3, <3>7
  <2> QED
    BY <2>4, <2>5
<1> HIDE DEF Fits
<1>2. PICK g : Fits(g, Len(s))
  BY <1>0, <1>1
<1> USE DEF Fits
<1>3. g = Whole(g)
  <2>1. ASSUME NEW n \in 0..Len(s) PROVE g[n] = Whole(g)[n]
    <3>1. CASE n = 0
      BY <1>2, <3>1
    <3>2. CASE n # 0
      <4>1. n \in 1..Len(s)
        BY <1>0, <3>2
      <4>2. g[n] = Step(g, n)
        BY <1>2, <4>1
      <4> QED
        BY <3>2, <4>2
    <3> QED
      BY <3>1, <3>2
  <2>2. g = [n \in 0..Len(s) |-> g[n]]
    BY <1>2
  <2>3. Whole(g) = [n \in 0..Len(s) |-> Whole(g)[n]]
    OBVIOUS
  <2> HIDE DEF Whole
  <2> QED
    BY <2>1, <2>2, <2>3
<1>4. kept = Whole(kept)
  BY <1>3 DEF kept
<1>5. Without(s, S) = kept[Len(s)]
  BY DEF Without, kept
<1>6. ASSUME NEW n \in 1..Len(s) PROVE kept[n] = Step(kept, n)
  <2>1. kept[n] = Whole(kept)[n]
    BY <1>4
  <2>2. n \in 0..Len(s) /\ n # 0
    BY <1>0
  <2>3. Whole(kept)[n] = Step(kept, n)
    BY <2>2
  <2> QED
    BY <2>1, <2>3
<1>7. kept[0] = <<>>
  <2>1. kept[0] = Whole(kept)[0]
    BY <1>4
  <2>2. 0 \in 0..Len(s)
    BY <1>0
  <2> QED
    BY <2>1, <2>2
<1> DEFINE Good(n) == kept[n] \in Seq(X) /\ ToSet(kept[n]) = {s[k] : k \in 1..n} \ S
<1>8. \A n \in 0..Len(s) : Good(n)
  <2> DEFINE Bad == {n \in 0..Len(s) : ~Good(n)}
  <2> SUFFICES ASSUME Bad # {} PROVE FALSE
    OBVIOUS
  <2>0. Bad \subseteq 0..Len(s) /\ Bad \subseteq Nat
    BY <1>0
  <2> HIDE DEF Bad
  <2>1. PICK n \in Bad : \A m \in Bad : n <= m
    BY <2>0, MinOfNat
  <2>2. n \in 0..Len(s) /\ n - 1 \notin Bad
    BY <1>0, <2>0, <2>1
  <2>3. ~Good(n)
    BY <2>1 DEF Bad
  <2>4. CASE n = 0
    <3>1. {s[k] : k \in 1..0} = {} /\ <<>> \in Seq(X)
      OBVIOUS
    <3> QED
      BY <1>7, <2>3, <2>4, <3>1, EmptySet
  <2>5. CASE n # 0
    <3>1. n - 1 \in 0..Len(s) /\ n \in 1..Len(s)
      BY <1>0, <2>2, <2>5
    <3>2. Good(n - 1)
      <4> HIDE DEF Good
      <4> QED
        BY <2>2, <3>1 DEF Bad
    <3>3. {s[k] : k \in 1..n} = {s[k] : k \in 1..(n - 1)} \cup {s[n]}
      <4>1. \A k \in 1..n : k = n \/ k \in 1..(n - 1)
        BY <3>1
      <4>2. \A k \in 1..(n - 1) : k \in 1..n
        BY <3>1
      <4>3. n \in 1..n
        BY <3>1
      <4> QED
        BY <4>1, <4>2, <4>3
    <3>4. CASE s[n] \in S
      <4>1. kept[n] = kept[n - 1]
        BY <1>6, <3>1, <3>4
      <4> QED
        BY <2>3, <3>2, <3>3, <3>4, <4>1
    <3>5. CASE s[n] \notin S
      <4>1. kept[n] = Append(kept[n - 1], s[n]) /\ s[n] \in X
        BY <1>0, <1>6, <3>1, <3>5
      <4>2. ToSet(kept[n]) = ToSet(kept[n - 1]) \cup {s[n]} /\ kept[n] \in Seq(X)
        BY <3>2, <4>1, AppendSet
      <4> QED
        BY <2>3, <3>2, <3>3, <3>5, <4>2
    <3> QED
      BY <3>4, <3>5
  <2> QED
    BY <2>4, <2>5
<1>9. Good(Len(s))
  <2> HIDE DEF Good
  <2> QED
    BY <1>0, <1>8
<1>10. ToSet(s) = {s[k] : k \in 1..Len(s)}
  BY <1>0 DEF ToSet
<1> QED
  BY <1>5, <1>9, <1>10

-----------------------------------------------------------------------------
(* Facts about the jobs of the event loop. *)

LEMMA Constants ==
    /\ IsFiniteSet(Threads) /\ IsFiniteSet(Items)
    /\ Owner \in [Threads -> Bots] /\ Home \in [Bots -> Threads]
    /\ From \in [Items -> Threads] /\ To \in [Items -> Threads] /\ Fresh \subseteq Items
    /\ NoItem \notin Items /\ Capacity \in Nat /\ WakeBudget \in Nat /\ WakeBudget > 0
    /\ MaxTurns \in Nat /\ MaxCrashes \in Nat
BY ConstantsAssumption

LEMMA JobType ==
    ASSUME NEW t \in Threads
    PROVE  \A do \in {"drain", "item", "answered", "ack", "retry", "release", "wake", "wakes"} :
              Job(do, t) \in Jobs /\ Job(do, t).do = do /\ Job(do, t).thread = t
BY DEF Job, Jobs

\* An order of a finite set visits each member.
LEMMA OrderVisitsAll ==
    ASSUME NEW S, IsFiniteSet(S), NEW f \in SetToSeqs(S)
    PROVE  f \in Seq(S) /\ DOMAIN f = 1..Len(f) /\ {f[k] : k \in 1..Len(f)} = S
<1> DEFINE n == Cardinality(S)
<1>1. n \in Nat
  BY FS_CardinalityType
<1>2. f \in [1..n -> S] /\ \A k, m \in 1..n : k # m => f[k] # f[m]
  BY DEF SetToSeqs
<1>3. f \in Injection(1..n, S)
  BY <1>2 DEF Injection, IsInjective
<1>4. Cardinality(1..n) = n
  BY <1>1, FS_Interval
<1>5. f \in Surjection(1..n, S)
  BY <1>3, <1>4, FS_Injection
<1>6. f \in Seq(S) /\ Len(f) = n /\ DOMAIN f = 1..n
  BY <1>1, <1>2
<1>7. \A x \in S : \E k \in 1..n : f[k] = x
  BY <1>5 DEF Surjection
<1> HIDE DEF n
<1> QED
  BY <1>2, <1>6, <1>7

LEMMA OrderedJobs ==
    ASSUME NEW S, S \subseteq Threads, NEW f \in SetToSeqs(S),
           NEW do \in {"drain", "wake"}
    PROVE  LET js == [k \in DOMAIN f |-> Job(do, f[k])]
           IN js \in Seq(Jobs) /\ ToSet(js) = {Job(do, t) : t \in S}
<1> DEFINE js == [k \in DOMAIN f |-> Job(do, f[k])]
<1>1. f \in Seq(S) /\ DOMAIN f = 1..Len(f) /\ {f[k] : k \in 1..Len(f)} = S
  BY Constants, FS_Subset, OrderVisitsAll
<1>2. \A k \in 1..Len(f) : f[k] \in S /\ Job(do, f[k]) \in Jobs
  BY <1>1, JobType
<1>3. js \in [1..Len(f) -> Jobs] /\ Len(f) \in Nat
  BY <1>1, <1>2
<1>4. js \in Seq(Jobs) /\ DOMAIN js = 1..Len(f)
  BY <1>3
<1>5. \A k \in 1..Len(f) : js[k] = Job(do, f[k])
  BY <1>1
<1> HIDE DEF js
<1>6. ToSet(js) = {Job(do, f[k]) : k \in 1..Len(f)}
  BY <1>4, <1>5 DEF ToSet
<1>7. {Job(do, f[k]) : k \in 1..Len(f)} = {Job(do, t) : t \in S}
  BY <1>1
<1> QED
  BY <1>4, <1>6, <1>7 DEF js

\* The same for the handoffs that were swept: each wakes its source.
LEMMA OrderedWakes ==
    ASSUME NEW S, S \subseteq Items, NEW f \in SetToSeqs(S)
    PROVE  LET js == [k \in DOMAIN f |-> Job("wake", From[f[k]])]
           IN js \in Seq(Jobs) /\ ToSet(js) = {Job("wake", From[i]) : i \in S}
<1> DEFINE js == [k \in DOMAIN f |-> Job("wake", From[f[k]])]
<1>1. f \in Seq(S) /\ DOMAIN f = 1..Len(f) /\ {f[k] : k \in 1..Len(f)} = S
  BY Constants, FS_Subset, OrderVisitsAll
<1>2. \A k \in 1..Len(f) : f[k] \in S /\ Job("wake", From[f[k]]) \in Jobs
  BY <1>1, JobType, Constants
<1>3. js \in [1..Len(f) -> Jobs] /\ Len(f) \in Nat
  BY <1>1, <1>2
<1>4. js \in Seq(Jobs) /\ DOMAIN js = 1..Len(f)
  BY <1>3
<1>5. \A k \in 1..Len(f) : js[k] = Job("wake", From[f[k]])
  BY <1>1
<1> HIDE DEF js
<1>6. ToSet(js) = {Job("wake", From[f[k]]) : k \in 1..Len(f)}
  BY <1>4, <1>5 DEF ToSet
<1>7. {Job("wake", From[f[k]]) : k \in 1..Len(f)} = {Job("wake", From[i]) : i \in S}
  BY <1>1
<1> QED
  BY <1>4, <1>6, <1>7 DEF js

LEMMA HeadAndTail ==
    ASSUME NEW X, NEW s \in Seq(X), s # <<>>
    PROVE  /\ Head(s) \in X /\ Tail(s) \in Seq(X)
           /\ ToSet(s) = {Head(s)} \cup ToSet(Tail(s))
           /\ Len(Tail(s)) = Len(s) - 1 /\ Len(s) >= 1
           /\ \A k \in 1..(Len(s) - 1) : Tail(s)[k] = s[k + 1]
<1>1. /\ Head(s) \in X /\ Tail(s) \in Seq(X) /\ Head(s) = s[1]
      /\ Len(Tail(s)) = Len(s) - 1 /\ Len(s) \in Nat /\ Len(s) >= 1
      /\ DOMAIN s = 1..Len(s) /\ DOMAIN Tail(s) = 1..(Len(s) - 1)
      /\ \A k \in 1..(Len(s) - 1) : Tail(s)[k] = s[k + 1]
  OBVIOUS
<1>2. ASSUME NEW x \in ToSet(s) PROVE x = Head(s) \/ x \in ToSet(Tail(s))
  <2>1. PICK k \in 1..Len(s) : s[k] = x
    BY <1>1 DEF ToSet
  <2>2. CASE k = 1
    BY <1>1, <2>1, <2>2
  <2>3. CASE k # 1
    <3>1. k - 1 \in 1..(Len(s) - 1) /\ (k - 1) + 1 = k
      BY <1>1, <2>3
    <3>2. Tail(s)[k - 1] = x
      BY <1>1, <2>1, <3>1
    <3> QED
      BY <1>1, <3>1, <3>2 DEF ToSet
  <2> QED
    BY <2>2, <2>3
<1>3. Head(s) \in ToSet(s)
  <2>1. 1 \in 1..Len(s)
    BY <1>1
  <2> QED
    BY <1>1, <2>1 DEF ToSet
<1>4. ASSUME NEW x \in ToSet(Tail(s)) PROVE x \in ToSet(s)
  <2>1. PICK k \in 1..(Len(s) - 1) : Tail(s)[k] = x
    BY <1>1 DEF ToSet
  <2>2. k + 1 \in 1..Len(s) /\ s[k + 1] = x
    BY <1>1, <2>1
  <2> QED
    BY <1>1, <2>2 DEF ToSet
<1> QED
  BY <1>1, <1>2, <1>3, <1>4

\* When the loop takes a job off its front, nothing else of it is gone.
LEMMA Taken ==
    ASSUME jobs \in Seq(Jobs), NEW j, Running(j)
    PROVE  /\ jobs # <<>> /\ j \in Jobs /\ Tail(jobs) \in Seq(Jobs)
           /\ ToSet(jobs) = {j} \cup ToSet(Tail(jobs))
BY HeadAndTail DEF Running, Quiet

LEMMA SyncJobs ==
    ASSUME jobs \in Seq(Jobs), jobs # <<>>, NEW first \in Seq(Jobs), Sync(first)
    PROVE  jobs' \in Seq(Jobs) /\ ToSet(jobs') = ToSet(first) \cup ToSet(Tail(jobs))
<1>1. Tail(jobs) \in Seq(Jobs)
  BY HeadAndTail
<1>2. ToSet(first \o Tail(jobs)) = ToSet(first) \cup ToSet(Tail(jobs))
  <2>1. \A a, b \in Seq(Jobs) : ToSet(a \o b) = ToSet(a) \cup ToSet(b)
    BY ConcatSet
  <2> QED
    BY <1>1, <2>1
<1>3. first \o Tail(jobs) \in Seq(Jobs)
  BY <1>1
<1> QED
  BY <1>2, <1>3 DEF Sync

LEMMA AsyncJobs ==
    ASSUME jobs \in Seq(Jobs), jobs # <<>>, NEW j \in Jobs, Async(j)
    PROVE  jobs' \in Seq(Jobs) /\ ToSet(jobs') = {j} \cup ToSet(Tail(jobs))
<1>1. Tail(jobs) \in Seq(Jobs)
  BY HeadAndTail
<1>2. ToSet(Append(Tail(jobs), j)) = ToSet(Tail(jobs)) \cup {j}
  <2>1. \A s \in Seq(Jobs) : ToSet(Append(s, j)) = ToSet(s) \cup {j}
    BY AppendSet
  <2> QED
    BY <1>1, <2>1
<1>3. Append(Tail(jobs), j) \in Seq(Jobs)
  BY <1>1
<1> QED
  BY <1>2, <1>3 DEF Async

\* Carriers of one thread stay alone.
LEMMA LoneTail ==
    ASSUME NEW s \in Seq(Jobs), s # <<>>, Lone(s)
    PROVE  /\ Lone(Tail(s))
           /\ Head(s).do \in Carriers =>
                 \A x \in ToSet(Tail(s)) : x.do \in Carriers => x.thread # Head(s).thread
<1>1. /\ Len(Tail(s)) = Len(s) - 1 /\ Len(s) >= 1 /\ Len(s) \in Nat
      /\ \A k \in 1..(Len(s) - 1) : Tail(s)[k] = s[k + 1]
      /\ DOMAIN Tail(s) = 1..(Len(s) - 1) /\ Head(s) = s[1]
  BY HeadAndTail
<1>2. ASSUME NEW k \in 1..(Len(s) - 1), NEW m \in 1..(Len(s) - 1),
             Tail(s)[k].do \in Carriers, Tail(s)[m].do \in Carriers,
             Tail(s)[k].thread = Tail(s)[m].thread
      PROVE  k = m
  <2>1. k + 1 \in 1..Len(s) /\ m + 1 \in 1..Len(s)
    BY <1>1
  <2>2. k + 1 = m + 1
    BY <1>1, <1>2, <2>1 DEF Lone
  <2> QED
    BY <2>2
<1>3. ASSUME NEW x \in ToSet(Tail(s)), x.do \in Carriers, Head(s).do \in Carriers
      PROVE  x.thread # Head(s).thread
  <2>1. PICK k \in 1..(Len(s) - 1) : Tail(s)[k] = x
    BY <1>1 DEF ToSet
  <2>2. k + 1 \in 1..Len(s) /\ 1 \in 1..Len(s) /\ k + 1 # 1 /\ s[k + 1] = x
    BY <1>1, <2>1
  <2> QED
    BY <1>1, <1>3, <2>2 DEF Lone
<1> QED
  BY <1>1, <1>2, <1>3 DEF Lone

LEMMA LoneConcat ==
    ASSUME NEW a \in Seq(Jobs), NEW b \in Seq(Jobs), Lone(a), Lone(b),
           \A x \in ToSet(a), y \in ToSet(b) :
              x.do \in Carriers /\ y.do \in Carriers => x.thread # y.thread
    PROVE  Lone(a \o b)
<1>1. /\ DOMAIN a = 1..Len(a) /\ DOMAIN b = 1..Len(b) /\ Len(a \o b) = Len(a) + Len(b)
      /\ Len(a) \in Nat /\ Len(b) \in Nat
  OBVIOUS
<1>2. \A k \in 1..(Len(a) + Len(b)) : (a \o b)[k] = IF k <= Len(a) THEN a[k] ELSE b[k - Len(a)]
  OBVIOUS
<1>3. ASSUME NEW k \in 1..(Len(a) + Len(b)), k > Len(a)
      PROVE  k - Len(a) \in 1..Len(b) /\ (a \o b)[k] = b[k - Len(a)] /\ b[k - Len(a)] \in ToSet(b)
  <2>1. k - Len(a) \in 1..Len(b)
    BY <1>1, <1>3
  <2> QED
    BY <1>1, <1>2, <1>3, <2>1 DEF ToSet
<1>4. ASSUME NEW k \in 1..(Len(a) + Len(b)), ~(k > Len(a))
      PROVE  k \in 1..Len(a) /\ (a \o b)[k] = a[k] /\ a[k] \in ToSet(a)
  <2>1. k \in 1..Len(a)
    BY <1>1, <1>4
  <2> QED
    BY <1>1, <1>2, <1>4, <2>1 DEF ToSet
<1> DEFINE c == a \o b
<1> HIDE DEF c
<1>5. ASSUME NEW k \in 1..(Len(a) + Len(b)), NEW m \in 1..(Len(a) + Len(b)),
             c[k].do \in Carriers, c[m].do \in Carriers, c[k].thread = c[m].thread
      PROVE  k = m
  <2>1. CASE k > Len(a) /\ m > Len(a)
    <3>1. k - Len(a) = m - Len(a)
      BY <1>3, <1>5, <2>1 DEF Lone, c
    <3> QED
      BY <1>1, <3>1
  <2>2. CASE ~(k > Len(a)) /\ ~(m > Len(a))
    BY <1>4, <1>5, <2>2 DEF Lone, c
  <2>3. CASE k > Len(a) /\ ~(m > Len(a))
    BY <1>3, <1>4, <1>5, <2>3 DEF c
  <2>4. CASE ~(k > Len(a)) /\ m > Len(a)
    BY <1>3, <1>4, <1>5, <2>4 DEF c
  <2> QED
    BY <2>1, <2>2, <2>3, <2>4
<1> QED
  BY <1>1, <1>5 DEF Lone, c

LEMMA LoneShort ==
    /\ Lone(<<>>)
    /\ \A d : Lone(<<d>>)
    /\ \A s \in Seq(Jobs) : (\A x \in ToSet(s) : x.do \notin Carriers) => Lone(s)
<1>1. Lone(<<>>) /\ \A d : Lone(<<d>>)
  BY DEF Lone
<1>2. ASSUME NEW s \in Seq(Jobs), \A x \in ToSet(s) : x.do \notin Carriers PROVE Lone(s)
  <2>1. \A k \in 1..Len(s) : s[k] \in ToSet(s)
    BY DEF ToSet
  <2> QED
    BY <1>2, <2>1 DEF Lone
<1> QED
  BY <1>1, <1>2

\* What the end of a watch writes, tells and leaves to do.
LEMMA TellFacts ==
    ASSUME NEW i \in Items
    PROVE  /\ Tell(i) \in Seq(Jobs) /\ Lone(Tell(i))
           /\ ToSet(Tell(i)) = IF From[i] \in gone THEN {} ELSE {Job("wake", From[i])}
<1>1. Job("wake", From[i]) \in Jobs
  BY Constants, JobType
<1>2. CASE From[i] \in gone
  BY <1>2, EmptySet, LoneShort DEF Tell
<1>3. CASE From[i] \notin gone
  BY <1>1, <1>3, SingleSet, LoneShort DEF Tell
<1> QED
  BY <1>2, <1>3

LEMMA WatchFacts ==
    ASSUME TypeOK, NEW t \in Threads
    PROVE  /\ Watched(t) = IF watch[t] = NoItem THEN {} ELSE {watch[t]}
           /\ Watched(t) \subseteq Items
           /\ FinalJobs(t) \in Seq(Jobs)
           /\ \A x \in ToSet(FinalJobs(t)) : x.do = "wake"
           /\ \A i \in Watched(t) : From[i] \notin gone => Job("wake", From[i]) \in ToSet(FinalJobs(t))
           /\ \A ok \in BOOLEAN : Final(t, ok) \in [Items -> Outcomes]
<1>1. watch[t] \in Items \cup {NoItem}
  BY DEF TypeOK
<1>2. Watched(t) = IF watch[t] = NoItem THEN {} ELSE {watch[t]}
  BY DEF Watched
<1>3. \A ok \in BOOLEAN : Final(t, ok) \in [Items -> Outcomes]
  BY DEF Final, Outcomes, TypeOK
<1>4. \A u : Job("wake", u).do = "wake"
  BY DEF Job
<1>5. CASE watch[t] = NoItem
  BY <1>1, <1>2, <1>3, <1>5, EmptySet DEF FinalJobs
<1>6. CASE watch[t] # NoItem
  <2>1. watch[t] \in Items /\ FinalJobs(t) = Tell(watch[t])
    BY <1>1, <1>6 DEF FinalJobs
  <2>2. /\ FinalJobs(t) \in Seq(Jobs)
        /\ ToSet(FinalJobs(t)) = IF From[watch[t]] \in gone THEN {} ELSE {Job("wake", From[watch[t]])}
    BY <2>1, TellFacts
  <2> QED
    BY <1>2, <1>3, <1>4, <1>6, <2>1, <2>2
<1> QED
  BY <1>5, <1>6

LEMMA RetryFacts ==
    ASSUME NEW js \in Seq(Jobs), NEW t \in Threads
    PROVE  /\ WithRetry(js, t) \in Seq(Jobs)
           /\ ToSet(js) \subseteq ToSet(WithRetry(js, t))
           /\ ToSet(WithRetry(js, t)) \subseteq ToSet(js) \cup {Job("retry", t)}
           /\ \E u \in Threads : Owner[u] = Owner[t] /\ Job("retry", u) \in ToSet(WithRetry(js, t))
<1>1. Job("retry", t) \in Jobs
  BY JobType
<1>2. CASE \E k \in DOMAIN js : js[k].do = "retry" /\ Owner[js[k].thread] = Owner[t]
  <2>1. PICK k \in DOMAIN js : js[k].do = "retry" /\ Owner[js[k].thread] = Owner[t]
    BY <1>2
  <2>2. js[k] \in Jobs /\ js[k] \in ToSet(js)
    BY DEF ToSet
  <2>3. js[k] = Job("retry", js[k].thread) /\ js[k].thread \in Threads
    BY <2>1, <2>2 DEF Job, Jobs
  <2>4. WithRetry(js, t) = js
    BY <1>2 DEF WithRetry
  <2> QED
    BY <2>1, <2>2, <2>3, <2>4
<1>3. CASE ~\E k \in DOMAIN js : js[k].do = "retry" /\ Owner[js[k].thread] = Owner[t]
  <2>1. WithRetry(js, t) = Append(js, Job("retry", t))
    BY <1>3 DEF WithRetry
  <2>2. \A j \in Jobs : ToSet(Append(js, j)) = ToSet(js) \cup {j} /\ Append(js, j) \in Seq(Jobs)
    BY AppendSet
  <2> QED
    BY <1>1, <2>1, <2>2
<1> QED
  BY <1>2, <1>3

LEMMA TypeInit == Init => TypeOK
BY Constants DEF Init, TypeOK, NoDrain, Drains, Outcomes, TurnPhases, ConstantsAssumption

-----------------------------------------------------------------------------
(* Types. *)

\* What a drain under way may become.
LEMMA DrainTypes ==
    ASSUME TypeOK, NEW t \in Threads,
           NEW x \in {"none", "card", "allow", "deny", "settled", "requeued", "dispatched"}
    PROVE  /\ [drain EXCEPT ![t].await = x] \in [Threads -> Drains]
           /\ drain[t].todo # <<>> =>
                /\ [drain EXCEPT ![t].todo = Tail(@)] \in [Threads -> Drains]
                /\ [drain EXCEPT ![t].todo = Tail(@), ![t].await = x] \in [Threads -> Drains]
                /\ Handling(t) \in Items
<1>1. /\ drain \in [Threads -> Drains] /\ drain[t].todo \in Seq(Items)
      /\ drain[t].todo # <<>> => Tail(drain[t].todo) \in Seq(Items) /\ Handling(t) \in Items
  BY HeadAndTail DEF TypeOK, Drains, Handling
<1> QED
  BY <1>1 DEF Drains

LEMMA WorldTypes ==
    ASSUME TypeOK, World
    PROVE  TypeOK'
<1> USE Constants
<1>0. Quiet => jobs = <<>>
  BY DEF Quiet
<1>j. \A t \in Threads : /\ Job("wakes", t) \in Jobs /\ Job("retry", t) \in Jobs
                         /\ Job("drain", t) \in Jobs /\ Job("answered", t) \in Jobs
  BY JobType
<1>b. \A t \in Threads, i \in Items \cup {NoItem} : Begin(t, i) =>
          /\ turn' \in [Threads -> TurnPhases] /\ work' \in [Threads -> Items \cup {NoItem}]
  <2> SUFFICES ASSUME NEW t \in Threads, NEW i \in Items \cup {NoItem}, Begin(t, i)
               PROVE  turn' \in [Threads -> TurnPhases] /\ work' \in [Threads -> Items \cup {NoItem}]
    OBVIOUS
  <2>1. turn' \in [Threads -> TurnPhases]
    BY DEF TypeOK, Begin, TurnPhases
  <2>2. work' \in [Threads -> Items \cup {NoItem}]
    BY DEF TypeOK, Begin
  <2> QED
    BY <2>1, <2>2
<1>u. \A t \in Threads : Unwatch(t) => watch' \in [Threads -> Items \cup {NoItem}]
  BY DEF TypeOK, Unwatch
<1>t. \A S \in SUBSET Items : Told(S) \subseteq Threads
  BY DEF TypeOK, Told
<1>1. ASSUME NEW t \in Threads, PersonStarts(t) PROVE TypeOK'
  <2>1. turns' \in 0..MaxTurns /\ spent' \in [Threads -> 0..WakeBudget]
    BY <1>1 DEF PersonStarts, TypeOK
  <2> QED
    BY <1>1, <1>b, <2>1 DEF PersonStarts, TypeOK, durable
<1>2. ASSUME NEW t \in Threads, Acknowledged(t) PROVE TypeOK'
  <2>1. jobs' \in Seq(Jobs)
    <3>1. <<Job("wakes", t), Job("retry", t)>> \in Seq(Jobs)
      BY <1>j
    <3> QED
      BY <1>2, <3>1 DEF Acknowledged, TypeOK
  <2>2. turn' \in [Threads -> TurnPhases]
    BY <1>2 DEF Acknowledged, TypeOK, TurnPhases
  <2> QED
    BY <1>2, <2>1, <2>2 DEF Acknowledged, TypeOK, durable, history
<1>3. ASSUME NEW t \in Threads, SetupFails(t) PROVE TypeOK'
  <2>1. jobs' \in Seq(Jobs)
    <3>1. FinalJobs(t) \in Seq(Jobs) /\ <<Job("wakes", t), Job("retry", t)>> \in Seq(Jobs)
      BY <1>j, WatchFacts
    <3> QED
      BY <1>3, <3>1 DEF SetupFails
  <2>2. turn' \in [Threads -> TurnPhases] /\ receipt' \in [Items -> Outcomes] /\ unseen' \subseteq Threads
    BY <1>3, <1>t, WatchFacts DEF SetupFails, TypeOK, TurnPhases
  <2> QED
    BY <1>3, <1>u, <2>1, <2>2 DEF SetupFails, TypeOK
<1>4. ASSUME NEW t \in Threads, Stalls(t) PROVE TypeOK'
  <2>1. jobs' \in Seq(Jobs)
    BY <1>4, WatchFacts DEF Stalls
  <2>2. turn' \in [Threads -> TurnPhases] /\ receipt' \in [Items -> Outcomes] /\ unseen' \subseteq Threads
    BY <1>4, <1>t, WatchFacts DEF Stalls, TypeOK, TurnPhases
  <2> QED
    BY <1>4, <1>u, <2>1, <2>2 DEF Stalls, TypeOK
<1>5. ASSUME NEW t \in Threads, Released(t) PROVE TypeOK'
  <2>1. jobs' \in Seq(Jobs)
    <3>1. /\ <<Job("wakes", t)>> \in Seq(Jobs) /\ <<>> \in Seq(Jobs) /\ <<Job("retry", t)>> \in Seq(Jobs)
      BY <1>j
    <3> QED
      BY <1>5, <3>1 DEF Released
  <2>2. turn' \in [Threads -> TurnPhases]
    BY <1>5 DEF Released, TypeOK, TurnPhases
  <2> QED
    BY <1>5, <2>1, <2>2 DEF Released, TypeOK, durable, history
<1>6. ASSUME NEW t \in Threads, WindowPasses(t) PROVE TypeOK'
  <2>1. spent' \in [Threads -> 0..WakeBudget]
    BY <1>6 DEF WindowPasses, TypeOK
  <2> QED
    BY <1>6, <2>1 DEF WindowPasses, TypeOK, durable, history
<1>7. ASSUME NEW t \in Threads, Delete(t) PROVE TypeOK'
  BY <1>7 DEF Delete, TypeOK, memory, history
<1>8. ASSUME NEW t \in Threads, Open(t) PROVE TypeOK'
  BY <1>8 DEF Open, TypeOK, memory, history
<1>9. ASSUME NEW t \in Threads, NEW ok \in BOOLEAN, NEW next \in TurnPhases, Completed(t, ok, next)
      PROVE  TypeOK'
  <2>1. jobs' \in Seq(Jobs)
    <3>1. /\ FinalJobs(t) \in Seq(Jobs) /\ <<Job("wakes", t)>> \in Seq(Jobs)
          /\ (IF ok THEN <<Job("drain", t)>> ELSE <<>>) \in Seq(Jobs)
      BY <1>j, WatchFacts
    <3>2. FinalJobs(t) \o (IF ok THEN <<Job("drain", t)>> ELSE <<>>) \o <<Job("wakes", t)>> \in Seq(Jobs)
      BY <3>1
    <3> QED
      BY <1>9, <3>2, RetryFacts DEF Completed
  <2>2. turn' \in [Threads -> TurnPhases] /\ unseen' \subseteq Threads
    BY <1>9, <1>t, WatchFacts DEF Completed, TypeOK, TurnPhases
  <2>3. receipt' \in [Items -> Outcomes]
    <3>1. Final(t, ok) \in [Items -> Outcomes] /\ "dropped" \in Outcomes
      BY WatchFacts DEF Outcomes
    <3> QED
      BY <1>9, <3>1 DEF Completed
  <2>4. queue' \in [Threads -> Seq(Items)] /\ parked' \subseteq Items
    <3>1. \A S : Without(queue[t], S) \in Seq(Items)
      BY WithoutFacts DEF TypeOK
    <3> QED
      BY <1>9, <3>1 DEF Completed, TypeOK
  <2> QED
    BY <1>9, <1>u, <2>1, <2>2, <2>3, <2>4 DEF Completed, TypeOK
<1>10. ASSUME NEW t \in Threads, NEW verdict \in {"allow", "deny"}, Answer(t, verdict) PROVE TypeOK'
  <2>1. jobs' \in Seq(Jobs)
    BY <1>10, <1>j DEF Answer
  <2>2. drain' \in [Threads -> Drains]
    BY <1>10, DrainTypes DEF Answer
  <2> QED
    BY <1>10, <2>1, <2>2 DEF Answer, TypeOK, durable, history
<1>11. ASSUME NEW i \in Items, Age(i) PROVE TypeOK'
  BY <1>11 DEF Age, TypeOK, memory, history
<1>12. ASSUME NEW i \in Items, Bar(i) PROVE TypeOK'
  BY <1>12 DEF Bar, TypeOK, memory, history
<1>13. ASSUME NEW i \in Items, NEW approved \in BOOLEAN, Queue(i, approved) PROVE TypeOK'
  <2>1. queue' \in [Threads -> Seq(Items)]
    <3>1. queue[From[i]] \in Seq(Items)
      BY DEF TypeOK
    <3>2. Append(queue[From[i]], i) \in Seq(Items)
      BY <3>1
    <3> QED
      BY <1>13, <3>2 DEF Queue, TypeOK
  <2> QED
    BY <1>13, <2>1 DEF Queue, TypeOK, memory
<1>14. ASSUME Sweep PROVE TypeOK'
  <2> DEFINE due == {i \in born : Queued(i) /\ ~Draining(From[i]) /\ Due(i)}
  <2>1. due \subseteq Items
    BY DEF TypeOK
  <2>2. queue' = [t \in Threads |-> Without(queue[t], due)] /\ parked' = parked \ due
        /\ receipt' = Settled(due, "expired") /\ unseen' = Told(due)
    BY <1>14 DEF Sweep
  <2>3. PICK order \in SetToSeqs({i \in due : From[i] \notin gone}) :
           jobs' = [k \in DOMAIN order |-> Job("wake", From[order[k]])]
    BY <1>14 DEF Sweep
  <2> HIDE DEF due
  <2>4. jobs' \in Seq(Jobs)
    BY <2>1, <2>3, OrderedWakes
  <2>5. queue' \in [Threads -> Seq(Items)]
    BY <2>2, WithoutFacts DEF TypeOK
  <2>6. receipt' \in [Items -> Outcomes] /\ unseen' \subseteq Threads
    BY <1>t, <2>1, <2>2 DEF Settled, TypeOK, Outcomes
  <2> QED
    BY <1>14, <2>2, <2>4, <2>5, <2>6 DEF Sweep, TypeOK
<1> QED
  BY <1>1, <1>2, <1>3, <1>4, <1>5, <1>6, <1>7, <1>8, <1>9, <1>10, <1>11, <1>12, <1>13, <1>14 DEF World

LEMMA CarrierTypes ==
    ASSUME TypeOK, NEW t \in Threads, Looks(t) \/ Running(Job("answered", t)), Async(Job("ack", t))
    PROVE  jobs' \in Seq(Jobs) /\ jobs # <<>>
<1>1. jobs # <<>> /\ jobs \in Seq(Jobs)
  BY DEF Looks, Running, Quiet, TypeOK
<1> QED
  BY <1>1, JobType, AsyncJobs

LEMMA WakeTypes ==
    ASSUME TypeOK, NEW t \in Threads, NEW refused \in BOOLEAN, WakeNow(t, refused)
    PROVE  /\ spent' \in [Threads -> 0..WakeBudget] /\ unseen' \subseteq Threads
           /\ turn' \in [Threads -> TurnPhases] /\ work' \in [Threads -> Items \cup {NoItem}]
<1> USE Constants
<1>1. spent' \in [Threads -> 0..WakeBudget]
  <2>1. spent[t] \in 0..WakeBudget
    BY DEF TypeOK
  <2>2. CASE spent[t] >= WakeBudget
    BY <2>2 DEF WakeNow, TypeOK
  <2>3. CASE ~(spent[t] >= WakeBudget)
    <3>1. spent[t] + 1 \in 0..WakeBudget
      BY <2>1, <2>3
    <3>2. spent' = [spent EXCEPT ![t] = spent[t] + 1]
      BY <2>3 DEF WakeNow
    <3> QED
      BY <3>1, <3>2 DEF TypeOK
  <2> QED
    BY <2>2, <2>3
<1>2. unseen' \subseteq Threads
  BY DEF WakeNow, TypeOK
<1>3. turn' \in [Threads -> TurnPhases]
  BY DEF WakeNow, TypeOK, Begin, TurnPhases
<1>4. work' \in [Threads -> Items \cup {NoItem}]
  BY DEF WakeNow, TypeOK, Begin
<1> QED
  BY <1>1, <1>2, <1>3, <1>4

LEMMA LoopTypes ==
    ASSUME TypeOK, Carried, Loop
    PROVE  TypeOK'
<1> USE Constants
<1>s. ASSUME NEW j, Running(j), NEW first \in Seq(Jobs), Sync(first) PROVE jobs' \in Seq(Jobs)
  BY <1>s, SyncJobs DEF Running, Quiet, TypeOK
<1>j. \A t \in Threads, do \in {"drain", "item", "answered", "ack", "retry", "release", "wake", "wakes"} :
          Job(do, t) \in Jobs /\ <<Job(do, t)>> \in Seq(Jobs)
  BY JobType
<1>e. <<>> \in Seq(Jobs)
  OBVIOUS
<1>t. \A S \in SUBSET Items : Told(S) \subseteq Threads
  BY DEF TypeOK, Told
<1>g. \A t \in Threads, i \in Items : Grant(t, i) => granted' \subseteq Items
  BY DEF TypeOK, Grant
<1>r. ASSUME NEW t \in Threads, NEW i \in Items, Looks(t) \/ Running(Job("answered", t)),
             Grant(t, i) \/ UNCHANGED granted, NEW outcome \in Outcomes, Refuse(t, i, outcome)
      PROVE  TypeOK'
  <2>1. jobs' \in Seq(Jobs)
    BY <1>r, CarrierTypes DEF Refuse
  <2>2. drain' \in [Threads -> Drains]
    BY <1>r, DrainTypes DEF Refuse
  <2>3. granted' \subseteq Items
    BY <1>g, <1>r DEF TypeOK
  <2>4. receipt' \in [Items -> Outcomes]
    BY <1>r DEF Refuse, Settled, TypeOK
  <2> QED
    BY <1>r, <2>1, <2>2, <2>3, <2>4 DEF Refuse, TypeOK, history
<1>l. \A t \in Threads, i \in Items : Examined(t, i) => Looks(t) \/ Running(Job("answered", t))
  BY DEF Examined, Allowed
<1>o. {"dropped", "denied", "expired"} \subseteq Outcomes
  BY DEF Outcomes
<1>1. ASSUME NEW t \in Threads, DrainBegins(t) PROVE TypeOK'
  <2>1. jobs' \in Seq(Jobs)
    <3>1. (IF queue[t] = <<>> THEN <<>> ELSE <<Job("item", t)>>) \in Seq(Jobs)
      BY <1>j
    <3> QED
      BY <1>1, <1>e, <1>s, <3>1 DEF DrainBegins
  <2>2. drain' \in [Threads -> Drains]
    <3>1. queue[t] \in Seq(Items) /\ ToSet(queue[t]) \subseteq Items
      BY DEF TypeOK, ToSet
    <3>2. [todo |-> queue[t], snapshot |-> ToSet(queue[t]), await |-> "none"] \in Drains
      BY <3>1 DEF Drains
    <3>3. drain' = drain \/ drain' = [drain EXCEPT ![t] =
                                [todo |-> queue[t], snapshot |-> ToSet(queue[t]), await |-> "none"]]
      <4>1. CASE Draining(t)
        BY <1>1, <4>1 DEF DrainBegins
      <4>2. CASE ~Draining(t)
        BY <1>1, <4>2 DEF DrainBegins
      <4> QED
        BY <4>1, <4>2
    <3>4. \A x \in Drains : [drain EXCEPT ![t] = x] \in [Threads -> Drains]
      BY DEF TypeOK
    <3>5. drain \in [Threads -> Drains]
      BY DEF TypeOK
    <3> QED
      BY <3>2, <3>3, <3>4, <3>5
  <2>3. redrain' \subseteq Threads
    BY <1>1 DEF DrainBegins, TypeOK
  <2> QED
    BY <1>1, <2>1, <2>2, <2>3 DEF DrainBegins, TypeOK, durable, history
<1>2. ASSUME NEW t \in Threads, DrainEnds(t) PROVE TypeOK'
  <2>1. jobs' \in Seq(Jobs)
    <3>1. (IF t \in redrain \/ ToSet(queue[t]) \ drain[t].snapshot # {}
            THEN <<Job("drain", t)>> ELSE <<>>) \in Seq(Jobs)
      BY <1>j
    <3> QED
      BY <1>2, <1>s, <3>1 DEF DrainEnds
  <2>2. NoDrain \in Drains
    BY DEF NoDrain, Drains
  <2>3. drain' \in [Threads -> Drains] /\ redrain' \subseteq Threads
    BY <1>2, <2>2 DEF DrainEnds, TypeOK
  <2> QED
    BY <1>2, <2>1, <2>3 DEF DrainEnds, TypeOK, durable, history
<1>3. ASSUME NEW t \in Threads, Skip(t) PROVE TypeOK'
  <2>1. drain' \in [Threads -> Drains]
    BY <1>3, DrainTypes DEF Skip, Looks
  <2> QED
    BY <1>3, <2>1 DEF Skip, TypeOK, durable, history
<1>4. ASSUME NEW t \in Threads, Ignore(t) PROVE TypeOK'
  <2>1. jobs' \in Seq(Jobs)
    BY <1>4, CarrierTypes DEF Ignore
  <2>2. drain' \in [Threads -> Drains]
    BY <1>4, DrainTypes DEF Ignore
  <2> QED
    BY <1>4, <2>1, <2>2 DEF Ignore, TypeOK, durable, history
<1>5. ASSUME NEW t \in Threads, Acknowledge(t) PROVE TypeOK'
  <2>1. drain[t].todo # <<>>
    <3>1. Pending("ack", t)
      BY <1>5, Taken DEF Acknowledge, Pending, TypeOK
    <3> QED
      BY <3>1 DEF Carried, CarriedAt
  <2>2. Handling(t) \in Items /\ drain' \in [Threads -> Drains]
    BY <1>5, <2>1, DrainTypes DEF Acknowledge
  <2> DEFINE told == IF drain[t].await = "settled" /\ Queued(Handling(t)) THEN {Handling(t)} ELSE {}
  <2>3. told \subseteq Items /\ unseen' = Told(told)
    BY <1>5, <2>2 DEF Acknowledge
  <2>4. jobs' \in Seq(Jobs)
    <3>1. Sync((IF told = {} THEN <<>> ELSE Tell(Handling(t))) \o <<Job("item", t)>>)
      BY <1>5 DEF Acknowledge
    <3>2. (IF told = {} THEN <<>> ELSE Tell(Handling(t))) \in Seq(Jobs)
      BY <2>2, TellFacts
    <3> HIDE DEF told
    <3>3. (IF told = {} THEN <<>> ELSE Tell(Handling(t))) \o <<Job("item", t)>> \in Seq(Jobs)
      BY <1>j, <3>2
    <3> QED
      BY <1>5, <1>s, <3>1, <3>3 DEF Acknowledge
  <2> HIDE DEF told
  <2>5. queue' \in [Threads -> Seq(Items)]
    <3>1. \A S : Without(queue[t], S) \in Seq(Items)
      BY WithoutFacts DEF TypeOK
    <3> QED
      BY <1>5, <3>1 DEF Acknowledge, TypeOK
  <2>6. parked' \subseteq Items /\ unseen' \subseteq Threads
    BY <1>5, <1>t, <2>3 DEF Acknowledge, TypeOK
  <2> QED
    BY <1>5, <2>2, <2>4, <2>5, <2>6 DEF Acknowledge, TypeOK
<1>6. ASSUME NEW t \in Threads, Retry(t) PROVE TypeOK'
  <2>1. <<Job("wakes", t), Job("release", t)>> \in Seq(Jobs)
    BY <1>j
  <2>2. jobs' \in Seq(Jobs)
    BY <1>6, <1>s, <2>1 DEF Retry
  <2> QED
    BY <1>6, <2>2 DEF Retry, TypeOK, durable, history
<1>7. ASSUME NEW t \in Threads, Release(t) PROVE TypeOK'
  <2>1. PICK freed \in SUBSET parked : /\ parked' = parked \ freed
                      /\ \E order \in SetToSeqs({From[i] : i \in freed}) :
                            Sync([k \in DOMAIN order |-> Job("drain", order[k])])
    BY <1>7 DEF Release
  <2>2. PICK order \in SetToSeqs({From[i] : i \in freed}) :
            Sync([k \in DOMAIN order |-> Job("drain", order[k])])
    BY <2>1
  <2>3. {From[i] : i \in freed} \subseteq Threads
    BY DEF TypeOK
  <2>4. [k \in DOMAIN order |-> Job("drain", order[k])] \in Seq(Jobs)
    BY <2>3, OrderedJobs
  <2>5. jobs' \in Seq(Jobs)
    BY <1>7, <1>s, <2>2, <2>4 DEF Release
  <2> QED
    BY <1>7, <2>1, <2>5 DEF Release, TypeOK, history
<1>8. ASSUME NEW t \in Threads, NEW i \in Items, Drop(t, i) PROVE TypeOK'
  BY <1>8, <1>l, <1>o, <1>r DEF Drop
<1>9. ASSUME NEW t \in Threads, NEW i \in Items, Expire(t, i) PROVE TypeOK'
  BY <1>9, <1>l, <1>o, <1>r DEF Expire
<1>10. ASSUME NEW t \in Threads, NEW i \in Items, Deny(t, i) PROVE TypeOK'
  BY <1>10, <1>o, <1>r DEF Deny
<1>11. ASSUME NEW t \in Threads, NEW i \in Items, Park(t, i) PROVE TypeOK'
  <2>1. jobs' \in Seq(Jobs)
    BY <1>11, <1>l, CarrierTypes DEF Park
  <2>2. drain' \in [Threads -> Drains]
    BY <1>11, DrainTypes DEF Park
  <2> QED
    BY <1>11, <1>g, <2>1, <2>2 DEF Park, TypeOK, history
<1>12. ASSUME NEW t \in Threads, NEW i \in Items, Ask(t, i) PROVE TypeOK'
  <2>1. Running(Job("item", t)) /\ Sync(<<>>)
    BY <1>12 DEF Ask, NeedsCard, Looks
  <2>2. jobs' \in Seq(Jobs)
    BY <1>e, <1>s, <2>1
  <2>3. drain' \in [Threads -> Drains]
    BY <1>12, DrainTypes DEF Ask
  <2> QED
    BY <1>12, <2>2, <2>3 DEF Ask, TypeOK, history
<1>13. ASSUME NEW t \in Threads, NEW i \in Items, NEW refused \in Refusals, Dispatch(t, i, refused)
       PROVE  TypeOK'
  <2> DEFINE target == Target(i)
             ok == Admits(target) /\ ~refused
  <2>1. target \in Threads
    BY DEF Target, TypeOK
  <2>2. /\ Looks(t) \/ Running(Job("answered", t))
        /\ parked' = parked \ {i} /\ Grant(t, i)
        /\ drain' = [drain EXCEPT ![t].await = "dispatched"]
        /\ watch' = [watch EXCEPT ![target] = IF ok THEN i ELSE NoItem]
        /\ lost' = lost \cup Watched(target)
        /\ UNCHANGED <<queue, gone, active, barred, stale, redrain, wakes, spent, born, torn, turns, crashes>>
    BY <1>13, <1>l DEF Dispatch
  <2>3. /\ ok => /\ Begin(target, i) /\ starts' = [starts EXCEPT ![i] = @ + 1]
                 /\ Async(Job("ack", t)) /\ unseen' = unseen \ {target} /\ receipt' = receipt
        /\ ~ok => /\ receipt' = Settled({i}, "failed") /\ unseen' = Told({i})
                  /\ jobs' = Append(Tell(i) \o Tail(jobs), Job("ack", t))
                  /\ UNCHANGED <<turn, work, starts>>
    BY <1>13 DEF Dispatch
  <2> HIDE DEF ok, target
  <2>4. jobs' \in Seq(Jobs)
    <3>1. CASE ok
      BY <2>2, <2>3, <3>1, CarrierTypes
    <3>2. CASE ~ok
      <4>1. Tell(i) \in Seq(Jobs) /\ Tail(jobs) \in Seq(Jobs)
        <5>1. jobs # <<>> /\ jobs \in Seq(Jobs)
          BY <2>2 DEF Looks, Running, Quiet, TypeOK
        <5>2. Tail(jobs) \in Seq(Jobs)
          BY <5>1, HeadAndTail
        <5> QED
          BY <5>2, TellFacts
      <4>2. Tell(i) \o Tail(jobs) \in Seq(Jobs)
        BY <4>1
      <4>3. \A s \in Seq(Jobs), j \in Jobs : Append(s, j) \in Seq(Jobs)
        OBVIOUS
      <4> QED
        BY <1>j, <2>3, <3>2, <4>2, <4>3
    <3> QED
      BY <3>1, <3>2
  <2>5. drain' \in [Threads -> Drains]
    BY <2>2, DrainTypes
  <2>6. watch' \in [Threads -> Items \cup {NoItem}] /\ lost' \subseteq Items
    BY <2>1, <2>2, WatchFacts DEF TypeOK
  <2>7. turn' \in [Threads -> TurnPhases] /\ work' \in [Threads -> Items \cup {NoItem}]
    <3>1. ok => turn' = [turn EXCEPT ![target] = "setup"] /\ work' = [work EXCEPT ![target] = i]
      BY <2>3 DEF Begin
    <3>2. "setup" \in TurnPhases
      BY DEF TurnPhases
    <3>3. turn' = turn \/ turn' = [turn EXCEPT ![target] = "setup"]
      BY <2>3, <3>1
    <3>4. work' = work \/ work' = [work EXCEPT ![target] = i]
      BY <2>3, <3>1
    <3>5. turn' \in [Threads -> TurnPhases]
      <4>1. turn \in [Threads -> TurnPhases]
        BY DEF TypeOK
      <4> QED
        BY <3>2, <3>3, <4>1
    <3>6. work' \in [Threads -> Items \cup {NoItem}]
      <4>1. work \in [Threads -> Items \cup {NoItem}] /\ i \in Items \cup {NoItem}
        BY DEF TypeOK
      <4>2. [work EXCEPT ![target] = i] \in [Threads -> Items \cup {NoItem}]
        BY <4>1
      <4> QED
        BY <3>4, <4>1, <4>2
    <3> QED
      BY <3>5, <3>6
  <2>8. starts' \in [Items -> Nat] /\ receipt' \in [Items -> Outcomes] /\ unseen' \subseteq Threads
    <3>1. "failed" \in Outcomes /\ Told({i}) \subseteq Threads
      BY <1>t DEF Outcomes
    <3>2. starts' \in [Items -> Nat]
      <4>0. starts \in [Items -> Nat]
        BY DEF TypeOK
      <4>1. [starts EXCEPT ![i] = starts[i] + 1] \in [Items -> Nat]
        BY <4>0
      <4>2. starts' = starts \/ starts' = [starts EXCEPT ![i] = starts[i] + 1]
        BY <2>3
      <4> QED
        BY <4>0, <4>1, <4>2
    <3>3. receipt' \in [Items -> Outcomes]
      BY <2>3, <3>1 DEF Settled, TypeOK
    <3> QED
      BY <2>3, <3>1, <3>2, <3>3 DEF TypeOK
  <2>9. granted' \subseteq Items /\ parked' \subseteq Items
    BY <1>g, <2>2 DEF TypeOK
  <2> QED
    BY <2>2, <2>4, <2>5, <2>6, <2>7, <2>8, <2>9 DEF TypeOK
<1>16. ASSUME WakesDone PROVE TypeOK'
  <2>1. jobs' \in Seq(Jobs)
    BY <1>16, <1>e, SyncJobs DEF WakesDone, Quiet, TypeOK
  <2> QED
    BY <1>16, <2>1 DEF WakesDone, TypeOK, durable, history
<1>14. ASSUME NEW t \in Threads, NEW refused \in Refusals, Wake(t, refused) PROVE TypeOK'
  <2>1. jobs' \in Seq(Jobs)
    BY <1>14, <1>e, <1>s DEF Wake
  <2>2. refused \in BOOLEAN
    BY ConstantsAssumption
  <2>3. CASE t \notin gone /\ Admits(t)
    <3>1. WakeNow(t, refused) /\ UNCHANGED wakes
      BY <1>14, <2>3 DEF Wake
    <3>2. /\ spent' \in [Threads -> 0..WakeBudget] /\ unseen' \subseteq Threads
          /\ turn' \in [Threads -> TurnPhases] /\ work' \in [Threads -> Items \cup {NoItem}]
      BY <2>2, <3>1, WakeTypes
    <3> QED
      BY <1>14, <2>1, <3>1, <3>2 DEF Wake, TypeOK, durable
  <2>4. CASE ~(t \notin gone /\ Admits(t))
    <3>1. wakes' \in Seq(Threads)
      <4>1. Append(wakes, t) \in Seq(Threads)
        BY DEF TypeOK
      <4> QED
        BY <1>14, <2>4, <4>1 DEF Wake, Debt, TypeOK
    <3> QED
      BY <1>14, <2>1, <2>4, <3>1 DEF Wake, TypeOK, durable
  <2> QED
    BY <2>3, <2>4
<1>15. ASSUME NEW t \in Threads, NEW refused \in Refusals, WakeParked(t, refused) PROVE TypeOK'
  <2>1. wakes' \in Seq(Threads)
    BY <1>15, WithoutFacts DEF WakeParked, TypeOK
  <2>2. refused \in BOOLEAN
    BY ConstantsAssumption
  <2>3. CASE t \in gone
    BY <1>15, <2>1, <2>3 DEF WakeParked, TypeOK, durable
  <2>4. CASE t \notin gone
    <3>1. WakeNow(t, refused)
      BY <1>15, <2>4 DEF WakeParked
    <3>2. /\ spent' \in [Threads -> 0..WakeBudget] /\ unseen' \subseteq Threads
          /\ turn' \in [Threads -> TurnPhases] /\ work' \in [Threads -> Items \cup {NoItem}]
      BY <2>2, <3>1, WakeTypes
    <3> QED
      BY <1>15, <2>1, <3>2 DEF WakeParked, TypeOK, durable
  <2> QED
    BY <2>3, <2>4
<1> QED
  BY <1>1, <1>2, <1>3, <1>4, <1>5, <1>6, <1>7, <1>8, <1>9, <1>10, <1>11, <1>12, <1>13, <1>14, <1>15,
     <1>16 DEF Loop

LEMMA CrashTypes ==
    ASSUME TypeOK, Carried, Crash
    PROVE  TypeOK'
<1> USE Constants
<1>1. PICK order \in SetToSeqs({t \in Threads : queue[t] # <<>>}) :
         jobs' = [k \in DOMAIN order |-> Job("drain", order[k])]
  BY DEF Crash
<1>2. {t \in Threads : queue[t] # <<>>} \subseteq Threads
  OBVIOUS
<1>3. jobs' \in Seq(Jobs)
  BY <1>1, <1>2, OrderedJobs
<1>4. torn' \subseteq Items
  <2>1. \A u \in Threads : drain[u].await \in {"settled", "dispatched"} => Handling(u) \in Items
    BY DrainTypes DEF Carried, CarriedAt
  <2> QED
    BY <2>1 DEF Crash, TypeOK
<1>5. lost' \subseteq Items
  <2>1. \A u \in Threads : Watched(u) \subseteq Items
    BY WatchFacts
  <2>2. lost' = lost \cup UNION {Watched(u) : u \in Threads}
    BY DEF Crash
  <2> QED
    BY <2>1, <2>2 DEF TypeOK
<1>6. crashes' \in 0..MaxCrashes
  BY DEF Crash, TypeOK
<1>7. drain' \in [Threads -> Drains]
  BY DEF Crash, NoDrain, Drains
<1>8. /\ turn' \in [Threads -> TurnPhases] /\ spent' \in [Threads -> 0..WakeBudget]
      /\ work' \in [Threads -> Items \cup {NoItem}] /\ watch' \in [Threads -> Items \cup {NoItem}]
  BY DEF Crash, TurnPhases
<1> QED
  BY <1>3, <1>4, <1>5, <1>6, <1>7, <1>8 DEF Crash, TypeOK

LEMMA TypeStep ==
    ASSUME TypeOK, Carried, [Next]_vars
    PROVE  TypeOK'
<1>1. CASE UNCHANGED vars
  BY <1>1 DEF vars, durable, memory, history, TypeOK
<1> QED
  BY <1>1, WorldTypes, LoopTypes, CrashTypes DEF Next

-----------------------------------------------------------------------------
(* One job carries each drain on. *)

LEMMA SameJob ==
    ASSUME NEW c, NEW d, NEW t, NEW u
    PROVE  /\ Job(c, t) = Job(d, u) <=> c = d /\ t = u
           /\ Job(c, t).do = c /\ Job(c, t).thread = t
BY DEF Job

LEMMA LoneAppend ==
    ASSUME NEW a \in Seq(Jobs), Lone(a), NEW e \in Jobs,
           \A x \in ToSet(a) : x.do \in Carriers /\ e.do \in Carriers => x.thread # e.thread
    PROVE  Lone(Append(a, e))
<1>1. <<e>> \in Seq(Jobs) /\ Append(a, e) = a \o <<e>> /\ ToSet(<<e>>) = {e}
  BY SingleSet
<1> QED
  BY <1>1, LoneShort, LoneConcat

\* No job of the rest of the queue carries the drain of t.
Free(t) == \A x \in ToSet(Tail(jobs)) : x.do \in Carriers => x.thread # t

LEMMA CarrierTaken ==
    ASSUME TypeOK, Carried, NEW t \in Threads, NEW c \in Carriers, Running(Job(c, t))
    PROVE  /\ jobs \in Seq(Jobs) /\ jobs # <<>> /\ Free(t) /\ Pending(c, t)
           /\ \A u \in Threads : \A d : u # t \/ d # c =>
                 (Pending(d, u) <=> Job(d, u) \in ToSet(Tail(jobs)))
<1>1. jobs \in Seq(Jobs) /\ jobs # <<>> /\ Head(jobs) = Job(c, t)
  BY DEF TypeOK, Running, Quiet
<1>2. ToSet(jobs) = {Job(c, t)} \cup ToSet(Tail(jobs))
  BY <1>1, HeadAndTail
<1>3. Free(t)
  BY <1>1, LoneTail, SameJob DEF Carried, Free
<1> QED
  BY <1>1, <1>2, <1>3, SameJob DEF Pending

\* A job of no drain, of a thread without a drain under way.
LEMMA NothingCarried ==
    ASSUME TypeOK, Carried, NEW t \in Threads, ~Draining(t), jobs # <<>>
    PROVE  Free(t)
<1>1. jobs \in Seq(Jobs) /\ ToSet(Tail(jobs)) \subseteq ToSet(jobs) /\ Tail(jobs) \in Seq(Jobs)
  BY HeadAndTail DEF TypeOK
<1>2. \A c \in Carriers : ~Pending(c, t)
  BY DEF Carried, CarriedAt, Carriers, Draining, NoDrain
<1>3. \A x \in ToSet(Tail(jobs)) : x = Job(x.do, x.thread)
  <2>1. \A x \in ToSet(Tail(jobs)) : x \in Jobs
    BY <1>1 DEF ToSet
  <2> QED
    BY <2>1 DEF Jobs, Job
<1> QED
  BY <1>1, <1>2, <1>3 DEF Free, Pending

\* What becomes of the carriers when one of them, or a job of a thread that
\* has none, makes place for others.
LEMMA CarriersMove ==
    ASSUME jobs \in Seq(Jobs), jobs # <<>>, Lone(jobs), NEW t \in Threads, Free(t),
           NEW first \in Seq(Jobs), Lone(first),
           \A x \in ToSet(first) : x.do \in Carriers => x.thread = t
    PROVE  /\ Sync(first) => Lone(jobs')
           /\ \A last \in Jobs :
                /\ last.thread = t /\ \A x \in ToSet(first) : x.do \notin Carriers
                /\ jobs' = Append(first \o Tail(jobs), last)
                => Lone(jobs') /\ ToSet(jobs') = ToSet(first) \cup {last} \cup ToSet(Tail(jobs))
<1>1. Tail(jobs) \in Seq(Jobs) /\ Lone(Tail(jobs))
  BY HeadAndTail, LoneTail
<1>2. \A x \in ToSet(first), y \in ToSet(Tail(jobs)) :
         x.do \in Carriers /\ y.do \in Carriers => x.thread # y.thread
  BY DEF Free
<1>3. Lone(first \o Tail(jobs))
  <2>1. \A b \in Seq(Jobs) :
           /\ Lone(b)
           /\ \A x \in ToSet(first), y \in ToSet(b) : x.do \in Carriers /\ y.do \in Carriers => x.thread # y.thread
           => Lone(first \o b)
    BY LoneConcat
  <2> QED
    BY <1>1, <1>2, <2>1
<1>4. ToSet(first \o Tail(jobs)) = ToSet(first) \cup ToSet(Tail(jobs))
  <2>1. \A b \in Seq(Jobs) : ToSet(first \o b) = ToSet(first) \cup ToSet(b)
    BY ConcatSet
  <2> QED
    BY <1>1, <2>1
<1>5. first \o Tail(jobs) \in Seq(Jobs)
  BY <1>1
<1>6. ASSUME NEW last \in Jobs, last.thread = t, \A x \in ToSet(first) : x.do \notin Carriers,
             jobs' = Append(first \o Tail(jobs), last)
      PROVE  Lone(jobs') /\ ToSet(jobs') = ToSet(first) \cup {last} \cup ToSet(Tail(jobs))
  <2>1. \A x \in ToSet(first \o Tail(jobs)) : x.do \in Carriers /\ last.do \in Carriers => x.thread # last.thread
    BY <1>4, <1>6 DEF Free
  <2>2. \A a \in Seq(Jobs) :
           /\ ToSet(Append(a, last)) = ToSet(a) \cup {last}
           /\ /\ Lone(a)
              /\ \A x \in ToSet(a) : x.do \in Carriers /\ last.do \in Carriers => x.thread # last.thread
              => Lone(Append(a, last))
    BY LoneAppend, AppendSet
  <2> QED
    BY <1>3, <1>4, <1>5, <1>6, <2>1, <2>2
<1> QED
  BY <1>3, <1>6 DEF Sync

\* The same in the words of the invariant: what is pending for the thread is
\* what was added, and nothing changes for the other threads.
LEMMA CarriedMoves ==
    ASSUME TypeOK, Carried, NEW t \in Threads, Free(t), Lone(jobs'), jobs # <<>>,
           Head(jobs).do \in Carriers => Head(jobs).thread = t,
           NEW N, ToSet(jobs') = N \cup ToSet(Tail(jobs)),
           \A x \in N : x.do \in Carriers => x.thread = t,
           \A u \in Threads \ {t} : drain'[u] = drain[u] /\ (u \in redrain' => u \in redrain),
           \/ /\ drain'[t].snapshot # {} /\ (drain'[t].await # "none" => drain'[t].todo # <<>>)
              /\ Job("item", t) \in N => drain'[t].await = "none"
              /\ Job("answered", t) \in N => drain'[t].await \in {"allow", "deny"}
              /\ Job("ack", t) \in N <=> drain'[t].await \in {"settled", "requeued", "dispatched"}
           \/ /\ drain'[t] = NoDrain /\ t \notin redrain'
              /\ \A c \in Carriers : Job(c, t) \notin N
    PROVE  Carried'
<1>1. ToSet(jobs) = {Head(jobs)} \cup ToSet(Tail(jobs))
  BY HeadAndTail DEF TypeOK
<1>2. ASSUME NEW u \in Threads, u # t PROVE CarriedAt(u)'
  <2>1. \A c \in Carriers : Pending(c, u)' <=> Pending(c, u)
    BY <1>1, <1>2, SameJob DEF Pending
  <2>2. CarriedAt(u) /\ drain'[u] = drain[u] /\ (u \in redrain' => u \in redrain)
    BY <1>2 DEF Carried
  <2> QED
    BY <2>1, <2>2 DEF CarriedAt, Draining, Carriers
<1>3. \A c \in Carriers : Pending(c, t)' <=> Job(c, t) \in N
  BY SameJob DEF Pending, Free
<1>4. CarriedAt(t)'
  <2>1. CASE drain'[t] = NoDrain /\ t \notin redrain' /\ \A c \in Carriers : Job(c, t) \notin N
    BY <1>3, <2>1 DEF CarriedAt, Draining, Carriers, NoDrain
  <2>2. CASE /\ drain'[t].snapshot # {} /\ (drain'[t].await # "none" => drain'[t].todo # <<>>)
             /\ Job("item", t) \in N => drain'[t].await = "none"
             /\ Job("answered", t) \in N => drain'[t].await \in {"allow", "deny"}
             /\ Job("ack", t) \in N <=> drain'[t].await \in {"settled", "requeued", "dispatched"}
    <3>1. Draining(t)'
      BY <2>2 DEF Draining, NoDrain
    <3> QED
      BY <1>3, <2>2, <3>1 DEF CarriedAt, Carriers
  <2> QED
    BY <2>1, <2>2
<1> QED
  BY <1>2, <1>4 DEF Carried

\* A job that carries no drain makes place for such jobs only.
LEMMA CarriersStay ==
    ASSUME jobs \in Seq(Jobs), jobs # <<>>, Lone(jobs), Head(jobs).do \notin Carriers,
           NEW first \in Seq(Jobs), \A x \in ToSet(first) : x.do \notin Carriers, Sync(first)
    PROVE  Lone(jobs') /\ \A c \in Carriers, u \in Threads : Pending(c, u)' <=> Pending(c, u)
<1>1. Tail(jobs) \in Seq(Jobs) /\ Lone(Tail(jobs)) /\ Lone(first)
  BY HeadAndTail, LoneTail, LoneShort
<1>2. Lone(first \o Tail(jobs))
  <2>1. \A b \in Seq(Jobs) :
           /\ Lone(b)
           /\ \A x \in ToSet(first), y \in ToSet(b) : x.do \in Carriers /\ y.do \in Carriers => x.thread # y.thread
           => Lone(first \o b)
    BY <1>1, LoneConcat
  <2> QED
    BY <1>1, <2>1
<1>3. ToSet(jobs') = ToSet(first) \cup ToSet(Tail(jobs)) /\ ToSet(jobs) = {Head(jobs)} \cup ToSet(Tail(jobs))
  BY SyncJobs, HeadAndTail
<1> QED
  BY <1>2, <1>3, SameJob DEF Pending, Sync

\* Nothing that carries a drain, and no drain, changes.
LEMMA CarriedStays ==
    ASSUME Carried, UNCHANGED <<drain, redrain>>, Lone(jobs'),
           \A c \in Carriers, u \in Threads : Pending(c, u)' <=> Pending(c, u)
    PROVE  Carried'
<1>1. ASSUME NEW u \in Threads PROVE CarriedAt(u)'
  <2>1. CarriedAt(u)
    BY DEF Carried
  <2> QED
    BY <2>1 DEF CarriedAt, Draining, Carriers
<1> QED
  BY <1>1 DEF Carried

LEMMA AwaitSet ==
    ASSUME drain \in [Threads -> Drains], NEW t \in Threads, NEW x,
           drain' = [drain EXCEPT ![t].await = x]
    PROVE  /\ drain'[t].await = x /\ drain'[t].todo = drain[t].todo
           /\ drain'[t].snapshot = drain[t].snapshot
           /\ \A u \in Threads \ {t} : drain'[u] = drain[u]
BY DEF Drains

LEMMA TodoTaken ==
    ASSUME drain \in [Threads -> Drains], NEW t \in Threads, NEW x,
           drain' = [drain EXCEPT ![t].todo = Tail(@), ![t].await = x]
    PROVE  /\ drain'[t].await = x /\ drain'[t].todo = Tail(drain[t].todo)
           /\ drain'[t].snapshot = drain[t].snapshot
           /\ \A u \in Threads \ {t} : drain'[u] = drain[u]
BY DEF Drains

\* What the state of a drain is when its carrier runs, and when none does.
LEMMA DrainState ==
    ASSUME TypeOK, Carried, NEW t \in Threads
    PROVE  /\ drain[t] \in Drains
           /\ Quiet => drain[t].await \notin {"settled", "requeued", "dispatched"}
           /\ Running(Job("item", t)) => drain[t].await = "none" /\ drain[t].snapshot # {} /\ Draining(t)
           /\ Running(Job("answered", t)) =>
                drain[t].await \in {"allow", "deny"} /\ drain[t].todo # <<>> /\ drain[t].snapshot # {}
           /\ Running(Job("ack", t)) => /\ drain[t].await \in {"settled", "requeued", "dispatched"}
                                        /\ drain[t].todo # <<>> /\ drain[t].snapshot # {}
<1>1. CarriedAt(t) /\ drain[t] \in Drains
  BY DEF Carried, TypeOK
<1>2. \A do : Running(Job(do, t)) => Pending(do, t)
  BY Taken DEF Pending, TypeOK
<1>3. Quiet => ~Pending("ack", t)
  BY EmptySet DEF Pending, Quiet
<1> QED
  BY <1>1, <1>2, <1>3 DEF CarriedAt

\* What the end of a turn leaves for the loop to do.
LEMMA EndJobs ==
    ASSUME TypeOK, NEW t \in Threads
    PROVE  /\ SetupFails(t) => ToSet(jobs') = ToSet(FinalJobs(t)) \cup {Job("wakes", t), Job("retry", t)}
           /\ Released(t) => /\ Job("retry", t) \in ToSet(jobs')
                             /\ ToSet(jobs') \subseteq {Job("wakes", t), Job("retry", t)}
           /\ \A ok \in BOOLEAN, next \in TurnPhases : Completed(t, ok, next) =>
                /\ ToSet(FinalJobs(t)) \cup {Job("wakes", t)} \subseteq ToSet(jobs')
                /\ ToSet(jobs') \subseteq ToSet(FinalJobs(t))
                                            \cup {Job("drain", t), Job("wakes", t), Job("retry", t)}
                /\ \E u \in Threads : Owner[u] = Owner[t] /\ Job("retry", u) \in ToSet(jobs')
<1>1. \A a, b \in Seq(Jobs) : ToSet(a \o b) = ToSet(a) \cup ToSet(b) /\ a \o b \in Seq(Jobs)
  BY ConcatSet
<1>2. /\ FinalJobs(t) \in Seq(Jobs)
      /\ <<Job("wakes", t)>> \in Seq(Jobs) /\ <<Job("retry", t)>> \in Seq(Jobs)
      /\ <<Job("drain", t)>> \in Seq(Jobs) /\ <<Job("wakes", t), Job("retry", t)>> \in Seq(Jobs)
  BY WatchFacts, JobType
<1>3. /\ <<>> \in Seq(Jobs) /\ ToSet(<<>>) = {}
      /\ \A d : ToSet(<<d>>) = {d}
      /\ \A d, e : ToSet(<<d, e>>) = {d, e}
  BY EmptySet, SingleSet, PairSet
<1>4. ASSUME SetupFails(t)
      PROVE  ToSet(jobs') = ToSet(FinalJobs(t)) \cup {Job("wakes", t), Job("retry", t)}
  <2>1. jobs' = FinalJobs(t) \o <<Job("wakes", t), Job("retry", t)>>
    BY <1>4 DEF SetupFails
  <2>2. ToSet(jobs') = ToSet(FinalJobs(t)) \cup ToSet(<<Job("wakes", t), Job("retry", t)>>)
    BY <1>1, <1>2, <2>1
  <2> QED
    BY <1>3, <2>2
<1>5. ASSUME Released(t)
      PROVE  /\ Job("retry", t) \in ToSet(jobs')
             /\ ToSet(jobs') \subseteq {Job("wakes", t), Job("retry", t)}
  <2>1. CASE turn[t] = "settling"
    <3>1. jobs' = <<Job("wakes", t)>> \o <<Job("retry", t)>>
      BY <1>5, <2>1 DEF Released
    <3>2. ToSet(jobs') = ToSet(<<Job("wakes", t)>>) \cup ToSet(<<Job("retry", t)>>)
      BY <1>1, <1>2, <3>1
    <3> QED
      BY <1>3, <3>2
  <2>2. CASE turn[t] # "settling"
    <3>1. jobs' = <<>> \o <<Job("retry", t)>>
      BY <1>5, <2>2 DEF Released
    <3>2. ToSet(jobs') = ToSet(<<>>) \cup ToSet(<<Job("retry", t)>>)
      BY <1>1, <1>2, <1>3, <3>1
    <3> QED
      BY <1>3, <3>2
  <2> QED
    BY <2>1, <2>2
<1>6. ASSUME NEW ok \in BOOLEAN, NEW next \in TurnPhases, Completed(t, ok, next)
      PROVE  /\ ToSet(FinalJobs(t)) \cup {Job("wakes", t)} \subseteq ToSet(jobs')
             /\ ToSet(jobs') \subseteq ToSet(FinalJobs(t))
                                         \cup {Job("drain", t), Job("wakes", t), Job("retry", t)}
             /\ \E u \in Threads : Owner[u] = Owner[t] /\ Job("retry", u) \in ToSet(jobs')
  <2> DEFINE drains == IF ok THEN <<Job("drain", t)>> ELSE <<>>
             js == FinalJobs(t) \o drains \o <<Job("wakes", t)>>
  <2>1. drains \in Seq(Jobs) /\ ToSet(drains) \subseteq {Job("drain", t)}
    BY <1>2, <1>3
  <2>2. jobs' = WithRetry(js, t)
    BY <1>6 DEF Completed
  <2>3. js \in Seq(Jobs) /\ ToSet(js) = ToSet(FinalJobs(t)) \cup ToSet(drains) \cup {Job("wakes", t)}
    <3> HIDE DEF drains
    <3>1. /\ FinalJobs(t) \o drains \in Seq(Jobs)
          /\ ToSet(FinalJobs(t) \o drains) = ToSet(FinalJobs(t)) \cup ToSet(drains)
      BY <1>1, <1>2, <2>1
    <3> DEFINE first == FinalJobs(t) \o drains
               last == <<Job("wakes", t)>>
    <3>2. first \in Seq(Jobs) /\ last \in Seq(Jobs) /\ ToSet(last) = {Job("wakes", t)}
      BY <1>2, <1>3, <3>1
    <3>3. js = first \o last
      OBVIOUS
    <3> HIDE DEF first, last, js
    <3>4. js \in Seq(Jobs) /\ ToSet(js) = ToSet(first) \cup {Job("wakes", t)}
      BY <1>1, <3>2, <3>3
    <3> QED
      BY <3>1, <3>4 DEF first
  <2> HIDE DEF js, drains
  <2> QED
    BY <2>1, <2>2, <2>3, RetryFacts
<1> QED
  BY <1>4, <1>5, <1>6

\* The outside world finds no carrier; a person's answer brings one.
LEMMA WorldCarried ==
    ASSUME TypeOK, Carried, World
    PROVE  Carried'
<1>q. Quiet => \A c, u : ~Pending(c, u)
  BY EmptySet DEF Pending, Quiet
<1>p. ASSUME Quiet, UNCHANGED <<drain, redrain>>, jobs' \in Seq(Jobs),
             \A x \in ToSet(jobs') : x.do \notin Carriers
      PROVE  Carried'
  <2>1. Lone(jobs')
    BY <1>p, LoneShort
  <2>2. \A c \in Carriers, u \in Threads : ~Pending(c, u)'
    BY <1>p, SameJob DEF Pending
  <2> QED
    BY <1>p, <1>q, <2>1, <2>2, CarriedStays
<1>t. TypeOK'
  BY WorldTypes
<1>j. jobs' \in Seq(Jobs)
  BY <1>t DEF TypeOK
<1>s. ASSUME UNCHANGED <<jobs, drain, redrain>> PROVE Carried'
  BY <1>s DEF Carried, CarriedAt, Pending, Draining, Lone
<1>1. ASSUME NEW t \in Threads, Acknowledged(t) PROVE Carried'
  <2>1. CASE turn[t] = "setup"
    BY <1>1, <1>s, <2>1 DEF Acknowledged
  <2>2. CASE turn[t] = "early"
    <3>1. ToSet(jobs') = {Job("wakes", t), Job("retry", t)}
      BY <1>1, <2>2, PairSet DEF Acknowledged
    <3> QED
      BY <1>1, <1>j, <1>p, <3>1, SameJob DEF Acknowledged, Carriers
  <2> QED
    BY <1>1, <2>1, <2>2 DEF Acknowledged
<1>2. ASSUME NEW t \in Threads, SetupFails(t) PROVE Carried'
  <2>1. \A x \in ToSet(FinalJobs(t)) : x.do = "wake"
    BY WatchFacts
  <2>2. \A x \in ToSet(jobs') : x.do \in {"wake", "wakes", "retry"}
    BY <1>2, <2>1, EndJobs, SameJob
  <2> QED
    BY <1>2, <1>j, <1>p, <2>2 DEF SetupFails, Carriers
<1>3. ASSUME NEW t \in Threads, Stalls(t) PROVE Carried'
  <2>1. \A x \in ToSet(jobs') : x.do = "wake"
    BY <1>3, WatchFacts DEF Stalls
  <2> QED
    BY <1>3, <1>j, <1>p, <2>1 DEF Stalls, Carriers
<1>4. ASSUME NEW t \in Threads, Released(t) PROVE Carried'
  <2>1. \A x \in ToSet(jobs') : x.do \in {"wakes", "retry"}
    BY <1>4, EndJobs, SameJob
  <2> QED
    BY <1>4, <1>j, <1>p, <2>1 DEF Released, Carriers
<1>5. ASSUME NEW t \in Threads, NEW ok \in BOOLEAN, NEW next \in TurnPhases, Completed(t, ok, next)
      PROVE  Carried'
  <2>1. \A x \in ToSet(FinalJobs(t)) : x.do = "wake"
    BY WatchFacts
  <2>2. \A x \in ToSet(jobs') : x.do \in {"wake", "drain", "wakes", "retry"}
    BY <1>5, <2>1, EndJobs, SameJob
  <2> QED
    BY <1>5, <1>j, <1>p, <2>2 DEF Completed, Carriers
<1>6. ASSUME NEW t \in Threads, NEW verdict \in {"allow", "deny"}, Answer(t, verdict) PROVE Carried'
  <2>1. /\ drain'[t].await = verdict /\ drain'[t].todo = drain[t].todo
        /\ drain'[t].snapshot = drain[t].snapshot
        /\ \A u \in Threads \ {t} : drain'[u] = drain[u]
    BY <1>6, AwaitSet DEF Answer, TypeOK
  <2>2. ToSet(jobs') = {Job("answered", t)} /\ Lone(jobs')
    BY <1>6, SingleSet, LoneShort DEF Answer
  <2>3. CarriedAt(t)'
    <3>1. CarriedAt(t) /\ drain[t].await = "card"
      BY <1>6 DEF Answer, Carried
    <3>2. Pending("answered", t)' /\ ~Pending("item", t)' /\ ~Pending("ack", t)'
      BY <2>2, SameJob DEF Pending
    <3>3. Draining(t)'
      BY <2>1, <3>1 DEF CarriedAt, Draining, NoDrain
    <3> QED
      BY <2>1, <3>1, <3>2, <3>3 DEF CarriedAt
  <2>4. ASSUME NEW u \in Threads, u # t PROVE CarriedAt(u)'
    <3>1. CarriedAt(u) /\ drain'[u] = drain[u] /\ redrain' = redrain /\ \A c : ~Pending(c, u)
      BY <1>6, <1>q, <2>1, <2>4 DEF Carried, Answer
    <3>2. \A c : ~Pending(c, u)'
      BY <2>2, <2>4, SameJob DEF Pending
    <3> QED
      BY <3>1, <3>2 DEF CarriedAt, Draining
  <2> QED
    BY <2>2, <2>3, <2>4 DEF Carried
<1>7. ASSUME Sweep PROVE Carried'
  <2>1. \A x \in ToSet(jobs') : x.do = "wake"
    <3>1. PICK S \in SUBSET Items : \E order \in SetToSeqs(S) :
              jobs' = [k \in DOMAIN order |-> Job("wake", From[order[k]])]
      <4> DEFINE due == {i \in born : Queued(i) /\ ~Draining(From[i]) /\ Due(i)}
      <4>1. \E order \in SetToSeqs({i \in due : From[i] \notin gone}) :
              jobs' = [k \in DOMAIN order |-> Job("wake", From[order[k]])]
        BY <1>7 DEF Sweep
      <4>2. {i \in due : From[i] \notin gone} \subseteq Items
        BY DEF TypeOK
      <4> HIDE DEF due
      <4> QED
        BY <4>1, <4>2
    <3>2. ToSet(jobs') = {Job("wake", From[i]) : i \in S}
      BY <3>1, OrderedWakes
    <3> QED
      BY <3>2, SameJob
  <2> QED
    BY <1>7, <1>j, <1>p, <2>1 DEF Sweep, Carriers
<1>8. ASSUME NEW t \in Threads, PersonStarts(t) \/ WindowPasses(t) \/ Delete(t) \/ Open(t) PROVE Carried'
  BY <1>8, <1>s DEF PersonStarts, WindowPasses, Delete, Open, memory
<1>9. ASSUME NEW i \in Items, NEW approved \in BOOLEAN, Age(i) \/ Bar(i) \/ Queue(i, approved) PROVE Carried'
  BY <1>9, <1>s DEF Age, Bar, Queue, memory
<1> QED
  BY <1>1, <1>2, <1>3, <1>4, <1>5, <1>6, <1>7, <1>8, <1>9 DEF World

\* A handoff that was handled is about to be acknowledged.
LEMMA AckCarried ==
    ASSUME TypeOK, Carried, NEW t \in Threads, Looks(t) \/ Running(Job("answered", t)),
           NEW x \in {"settled", "requeued", "dispatched"},
           drain' = [drain EXCEPT ![t].await = x], redrain' = redrain,
           NEW first \in Seq(Jobs), Lone(first), \A y \in ToSet(first) : y.do = "wake",
           jobs' = Append(first \o Tail(jobs), Job("ack", t))
    PROVE  /\ Carried'
           /\ ToSet(jobs') = ToSet(first) \cup {Job("ack", t)} \cup ToSet(Tail(jobs))
<1>1. PICK c \in {"item", "answered"} : Running(Job(c, t))
  BY DEF Looks
<1>2. jobs \in Seq(Jobs) /\ jobs # <<>> /\ Free(t) /\ c \in Carriers /\ Head(jobs) = Job(c, t)
  BY <1>1, CarrierTaken DEF Carriers, Running
<1>3. Lone(jobs') /\ ToSet(jobs') = ToSet(first) \cup {Job("ack", t)} \cup ToSet(Tail(jobs))
  <2>1. Job("ack", t) \in Jobs /\ Job("ack", t).thread = t
    BY JobType
  <2>2. \A y \in ToSet(first) : y.do \notin Carriers
    BY DEF Carriers
  <2>3. Lone(jobs)
    BY DEF Carried
  <2> QED
    BY <1>2, <2>1, <2>2, <2>3, CarriersMove
<1>4. /\ drain'[t].await = x /\ drain'[t].todo # <<>> /\ drain'[t].snapshot # {}
      /\ \A u \in Threads \ {t} : drain'[u] = drain[u]
  <2>1. drain[t].todo # <<>> /\ drain[t].snapshot # {}
    BY DrainState DEF Looks
  <2>2. drain \in [Threads -> Drains]
    BY DEF TypeOK
  <2> QED
    BY <2>1, <2>2, AwaitSet
<1> DEFINE N == ToSet(first) \cup {Job("ack", t)}
<1>5. /\ Job("ack", t) \in N /\ Job("item", t) \notin N /\ Job("answered", t) \notin N
      /\ \A y \in N : y.do \in Carriers => y.thread = t
  BY SameJob DEF Carriers
<1>6. Head(jobs).do \in Carriers => Head(jobs).thread = t
  BY <1>2, SameJob
<1>7. ToSet(jobs') = N \cup ToSet(Tail(jobs))
  BY <1>3
<1> HIDE DEF N
<1>8. Carried'
  BY <1>2, <1>3, <1>4, <1>5, <1>6, <1>7, CarriedMoves
<1> QED
  BY <1>3, <1>8

\* The steps that end in an acknowledgement.
LEMMA HandledCarried ==
    ASSUME TypeOK, Carried, NEW t \in Threads
    PROVE  /\ Ignore(t) => Carried'
           /\ \A i \in Items : Drop(t, i) \/ Expire(t, i) \/ Deny(t, i) \/ Park(t, i) => Carried'
           /\ \A i \in Items, refused \in Refusals : Dispatch(t, i, refused) => Carried'
<1>1. ASSUME Looks(t) \/ Running(Job("answered", t)), Async(Job("ack", t)), redrain' = redrain,
             NEW x \in {"settled", "requeued", "dispatched"}, drain' = [drain EXCEPT ![t].await = x]
      PROVE  Carried'
  <2>1. Tail(jobs) \in Seq(Jobs)
    BY <1>1, HeadAndTail DEF Looks, Running, Quiet, TypeOK
  <2>2. jobs' = Append(<<>> \o Tail(jobs), Job("ack", t))
    BY <1>1, <2>1 DEF Async
  <2>3. <<>> \in Seq(Jobs) /\ Lone(<<>>) /\ ToSet(<<>>) = {}
    BY EmptySet, LoneShort
  <2> QED
    BY <1>1, <2>2, <2>3, AckCarried
<1>2. ASSUME Ignore(t) PROVE Carried'
  BY <1>1, <1>2 DEF Ignore
<1>3. \A i \in Items : \A outcome :
         (Looks(t) \/ Running(Job("answered", t))) /\ Refuse(t, i, outcome) => Carried'
  BY <1>1 DEF Refuse
<1>4. \A i \in Items : Examined(t, i) => Looks(t) \/ Running(Job("answered", t))
  BY DEF Examined, Allowed
<1>5. ASSUME NEW i \in Items, Drop(t, i) \/ Expire(t, i) \/ Deny(t, i) \/ Park(t, i) PROVE Carried'
  <2>1. CASE Drop(t, i)
    BY <1>3, <1>4, <2>1 DEF Drop
  <2>2. CASE Expire(t, i)
    BY <1>3, <1>4, <2>2 DEF Expire
  <2>3. CASE Deny(t, i)
    BY <1>3, <2>3 DEF Deny
  <2>4. CASE Park(t, i)
    BY <1>1, <1>4, <2>4 DEF Park
  <2> QED
    BY <1>5, <2>1, <2>2, <2>3, <2>4
<1>6. ASSUME NEW i \in Items, NEW refused \in Refusals, Dispatch(t, i, refused) PROVE Carried'
  <2>1. /\ Looks(t) \/ Running(Job("answered", t))
        /\ redrain' = redrain
        /\ drain' = [drain EXCEPT ![t].await = "dispatched"]
    BY <1>4, <1>6 DEF Dispatch
  <2>2. Async(Job("ack", t)) \/ jobs' = Append(Tell(i) \o Tail(jobs), Job("ack", t))
    BY <1>6 DEF Dispatch
  <2>3. CASE Async(Job("ack", t))
    BY <1>1, <1>4, <1>6, <2>1, <2>3 DEF Dispatch
  <2>4. CASE jobs' = Append(Tell(i) \o Tail(jobs), Job("ack", t))
    <3>1. Tell(i) \in Seq(Jobs) /\ Lone(Tell(i)) /\ \A y \in ToSet(Tell(i)) : y.do = "wake"
      BY TellFacts, SameJob
    <3> QED
      BY <2>1, <2>4, <3>1, AckCarried
  <2> QED
    BY <2>2, <2>3, <2>4
<1> QED
  BY <1>2, <1>5, <1>6

\* What an acknowledgement leaves for the loop to do.
LEMMA AckJobs ==
    ASSUME TypeOK, Carried, NEW t \in Threads, Acknowledge(t)
    PROVE  \E first \in Seq(Jobs) :
              /\ Sync(first) /\ Lone(first)
              /\ Job("item", t) \in ToSet(first)
              /\ \A x \in ToSet(first) : x.do = "wake" \/ x = Job("item", t)
              /\ \A u \in unseen' : u \in unseen \/ Job("wake", u) \in ToSet(first)
<1> DEFINE i == Handling(t)
           told == IF drain[t].await = "settled" /\ Queued(i) THEN {i} ELSE {}
           tells == IF told = {} THEN <<>> ELSE Tell(i)
           last == <<Job("item", t)>>
           first == tells \o last
<1>1. Sync(first) /\ unseen' = Told(told)
  BY DEF Acknowledge
<1>2. i \in Items
  BY DrainState, DrainTypes DEF Acknowledge
<1>3. /\ tells \in Seq(Jobs) /\ Lone(tells) /\ \A x \in ToSet(tells) : x.do = "wake"
      /\ \A u \in unseen' : u \in unseen \/ Job("wake", u) \in ToSet(tells)
  <2>1. CASE told = {}
    BY <1>1, <2>1, EmptySet, LoneShort DEF Told
  <2>2. CASE told # {}
    <3>1. told = {i} /\ tells = Tell(i)
      BY <2>2
    <3> HIDE DEF told, tells, i
    <3>2. /\ Tell(i) \in Seq(Jobs) /\ Lone(Tell(i))
          /\ ToSet(Tell(i)) = IF From[i] \in gone THEN {} ELSE {Job("wake", From[i])}
      BY <1>2, TellFacts
    <3>3. unseen' = unseen \cup ({From[i]} \ gone)
      BY <1>1, <3>1 DEF Told
    <3> QED
      BY <3>1, <3>2, <3>3, SameJob
  <2> QED
    BY <2>1, <2>2
<1>4. last \in Seq(Jobs) /\ Lone(last) /\ ToSet(last) = {Job("item", t)}
  BY JobType, SingleSet, LoneShort
<1> HIDE DEF tells, last, told, i
<1>5. first \in Seq(Jobs) /\ ToSet(first) = ToSet(tells) \cup {Job("item", t)}
  <2>1. ToSet(tells \o last) = ToSet(tells) \cup ToSet(last)
    BY <1>3, <1>4, ConcatSet
  <2> QED
    BY <1>3, <1>4, <2>1
<1>6. Lone(first)
  <2>1. \A x \in ToSet(tells) : x.do \notin Carriers
    BY <1>3 DEF Carriers
  <2> QED
    BY <1>3, <1>4, <2>1, LoneConcat
<1> HIDE DEF first
<1> QED
  BY <1>1, <1>3, <1>5, <1>6

LEMMA LoopCarried ==
    ASSUME TypeOK, Carried, Loop
    PROVE  Carried'
<1>l. Lone(jobs) /\ jobs \in Seq(Jobs) /\ drain \in [Threads -> Drains]
  BY DEF Carried, TypeOK
<1>p. ASSUME NEW j \in Jobs, Running(j), j.do \notin Carriers, NEW first \in Seq(Jobs),
             \A x \in ToSet(first) : x.do \notin Carriers, Sync(first)
      PROVE  /\ Lone(jobs') /\ \A c \in Carriers, u \in Threads : Pending(c, u)' <=> Pending(c, u)
             /\ UNCHANGED <<drain, redrain>> => Carried'
  <2>1. Lone(jobs') /\ \A c \in Carriers, u \in Threads : Pending(c, u)' <=> Pending(c, u)
    <3>1. jobs # <<>> /\ Head(jobs).do \notin Carriers
      BY <1>p DEF Running, Quiet
    <3> QED
      BY <1>l, <1>p, <3>1, CarriersStay
  <2> QED
    BY <2>1, CarriedStays
<1>j. \A t \in Threads : \A do \in {"drain", "item", "ack", "retry", "release", "wake", "wakes"} :
         Job(do, t) \in Jobs /\ <<Job(do, t)>> \in Seq(Jobs)
  BY JobType
<1>e. <<>> \in Seq(Jobs) /\ ToSet(<<>>) = {} /\ Lone(<<>>) /\ \A d : Lone(<<d>>) /\ ToSet(<<d>>) = {d}
  BY EmptySet, SingleSet, LoneShort
<1>m. ASSUME NEW t \in Threads, Free(t), jobs # <<>>, NEW first \in Seq(Jobs), Lone(first),
             \A x \in ToSet(first) : x.do \in Carriers => x.thread = t, Sync(first)
      PROVE  Lone(jobs') /\ ToSet(jobs') = ToSet(first) \cup ToSet(Tail(jobs))
  BY <1>l, <1>m, CarriersMove, SyncJobs
<1>1. ASSUME NEW t \in Threads, DrainBegins(t) PROVE Carried'
  <2>0. Running(Job("drain", t)) /\ Job("drain", t) \in Jobs /\ Job("drain", t).do \notin Carriers
    BY <1>1, <1>j, SameJob DEF DrainBegins, Carriers
  <2>1. CASE Draining(t)
    <3>1. Sync(<<>>) /\ drain' = drain /\ redrain' = redrain \cup {t}
      BY <1>1, <2>1 DEF DrainBegins
    <3>2. Lone(jobs') /\ \A c \in Carriers, u \in Threads : Pending(c, u)' <=> Pending(c, u)
      BY <1>e, <1>p, <2>0, <3>1
    <3>3. ASSUME NEW u \in Threads PROVE CarriedAt(u)'
      <4>1. CarriedAt(u) /\ (u \in redrain' => Draining(u))
        BY <2>1, <3>1 DEF Carried, CarriedAt
      <4> QED
        BY <3>1, <3>2, <4>1 DEF CarriedAt, Draining, Carriers
    <3> QED
      BY <3>2, <3>3 DEF Carried
  <2>2. CASE ~Draining(t) /\ queue[t] = <<>>
    <3>1. Sync(<<>>) /\ UNCHANGED <<drain, redrain>>
      BY <1>1, <2>2 DEF DrainBegins
    <3> QED
      BY <1>e, <1>p, <2>0, <3>1
  <2>3. CASE ~Draining(t) /\ queue[t] # <<>>
    <3> DEFINE d == [todo |-> queue[t], snapshot |-> ToSet(queue[t]), await |-> "none"]
    <3>1. Sync(<<Job("item", t)>>) /\ drain' = [drain EXCEPT ![t] = d] /\ redrain' = redrain
      BY <1>1, <2>3 DEF DrainBegins
    <3>2. jobs # <<>> /\ Free(t) /\ (Head(jobs).do \in Carriers => Head(jobs).thread = t)
      BY <2>0, <2>3, NothingCarried DEF Running, Quiet
    <3>3. Lone(jobs') /\ ToSet(jobs') = {Job("item", t)} \cup ToSet(Tail(jobs))
      <4>1. \A x \in ToSet(<<Job("item", t)>>) : x.do \in Carriers => x.thread = t
        BY <1>e, SameJob
      <4> QED
        BY <1>e, <1>j, <1>m, <3>1, <3>2, <4>1
    <3>4. d.snapshot # {} /\ d.await = "none" /\ d.todo # <<>>
      <4>1. queue[t] \in Seq(Items)
        BY DEF TypeOK
      <4>2. ToSet(queue[t]) # {}
        BY <2>3, <4>1, HeadAndTail
      <4> QED
        BY <2>3, <4>2
    <3>5. drain'[t] = d /\ \A u \in Threads \ {t} : drain'[u] = drain[u]
      BY <1>l, <3>1
    <3> HIDE DEF d
    <3> DEFINE N == {Job("item", t)}
    <3>6. /\ \A x \in N : x.do \in Carriers => x.thread = t
          /\ Job("answered", t) \notin N /\ Job("ack", t) \notin N
          /\ ToSet(jobs') = N \cup ToSet(Tail(jobs))
      BY <3>3, SameJob
    <3>7. /\ drain'[t].snapshot # {} /\ drain'[t].await = "none"
          /\ \A u \in Threads \ {t} : drain'[u] = drain[u] /\ (u \in redrain' => u \in redrain)
      BY <3>1, <3>4, <3>5
    <3> HIDE DEF N
    <3> QED
      BY <3>2, <3>3, <3>6, <3>7, CarriedMoves
  <2> QED
    BY <2>1, <2>2, <2>3
<1>2. ASSUME NEW t \in Threads, DrainEnds(t) PROVE Carried'
  <2>1. /\ jobs # <<>> /\ Free(t) /\ (Head(jobs).do \in Carriers => Head(jobs).thread = t)
    BY <1>2, CarrierTaken, SameJob DEF DrainEnds, Carriers, Running
  <2>2. PICK first \in {<<>>, <<Job("drain", t)>>} : Sync(first)
    BY <1>2 DEF DrainEnds
  <2>3. first \in Seq(Jobs) /\ Lone(first) /\ \A x \in ToSet(first) : x = Job("drain", t)
    BY <1>e, <1>j
  <2>4. \A x \in ToSet(first) : x.do \notin Carriers
    BY <2>3, SameJob DEF Carriers
  <2>5. Lone(jobs') /\ ToSet(jobs') = ToSet(first) \cup ToSet(Tail(jobs))
    BY <1>m, <2>1, <2>2, <2>3, <2>4
  <2>6. drain'[t] = NoDrain /\ t \notin redrain'
        /\ \A u \in Threads \ {t} : drain'[u] = drain[u] /\ (u \in redrain' => u \in redrain)
    BY <1>2, <1>l DEF DrainEnds
  <2>7. \A c \in Carriers : Job(c, t) \notin ToSet(first)
    BY <2>4, SameJob
  <2> DEFINE N == ToSet(first)
  <2> HIDE DEF N
  <2> QED
    BY <2>1, <2>4, <2>5, <2>6, <2>7, CarriedMoves
<1>3. ASSUME NEW t \in Threads, Skip(t) PROVE Carried'
  <2>1. drain[t].await = "none" /\ drain[t].snapshot # {}
    BY <1>3, DrainState DEF Skip, Looks
  <2>2. /\ drain'[t].await = "none" /\ drain'[t].snapshot # {} /\ redrain' = redrain /\ jobs' = jobs
        /\ \A u \in Threads \ {t} : drain'[u] = drain[u]
    BY <1>3, <1>l, <2>1 DEF Skip, Drains
  <2>3. ASSUME NEW u \in Threads PROVE CarriedAt(u)'
    <3>1. CarriedAt(u) /\ (Pending("item", u)' <=> Pending("item", u))
          /\ (Pending("answered", u)' <=> Pending("answered", u)) /\ (Pending("ack", u)' <=> Pending("ack", u))
      BY <2>2 DEF Carried, Pending
    <3>2. CASE u = t
      <4>1. Draining(t)' /\ ~Pending("answered", t) /\ ~Pending("ack", t)
        BY <2>1, <2>2, <3>1, <3>2 DEF CarriedAt, Draining, NoDrain
      <4> QED
        BY <2>1, <2>2, <3>1, <3>2, <4>1 DEF CarriedAt
    <3>3. CASE u # t
      BY <2>2, <3>1, <3>3 DEF CarriedAt, Draining
    <3> QED
      BY <3>2, <3>3
  <2> QED
    BY <1>l, <2>2, <2>3 DEF Carried, Lone
<1>4. ASSUME NEW t \in Threads, Acknowledge(t) PROVE Carried'
  <2>1. jobs # <<>> /\ Free(t) /\ (Head(jobs).do \in Carriers => Head(jobs).thread = t)
    BY <1>4, CarrierTaken, SameJob DEF Acknowledge, Carriers, Running
  <2>2. PICK first \in Seq(Jobs) :
              /\ Sync(first) /\ Lone(first)
              /\ Job("item", t) \in ToSet(first)
              /\ \A x \in ToSet(first) : x.do = "wake" \/ x = Job("item", t)
    BY <1>4, AckJobs
  <2>3. /\ \A x \in ToSet(first) : x.do \in Carriers => x.thread = t
        /\ Job("answered", t) \notin ToSet(first) /\ Job("ack", t) \notin ToSet(first)
    BY <2>2, SameJob DEF Carriers
  <2>4. Lone(jobs') /\ ToSet(jobs') = ToSet(first) \cup ToSet(Tail(jobs))
    BY <1>m, <2>1, <2>2, <2>3
  <2>5. /\ drain'[t].await = "none" /\ drain'[t].snapshot # {} /\ redrain' = redrain
        /\ \A u \in Threads \ {t} : drain'[u] = drain[u]
    <3>1. drain[t].snapshot # {}
      BY <1>4, DrainState DEF Acknowledge
    <3> QED
      BY <1>4, <1>l, <3>1, TodoTaken DEF Acknowledge
  <2> QED
    BY <2>1, <2>2, <2>3, <2>4, <2>5, CarriedMoves
<1>5. ASSUME NEW t \in Threads, NEW i \in Items, Ask(t, i) PROVE Carried'
  <2>1. Looks(t) /\ Running(Job("item", t)) /\ Sync(<<>>) /\ redrain' = redrain
    BY <1>5 DEF Ask, NeedsCard, Looks
  <2>2. jobs # <<>> /\ Free(t) /\ (Head(jobs).do \in Carriers => Head(jobs).thread = t)
    BY <2>1, CarrierTaken, SameJob DEF Carriers, Running
  <2> DEFINE N == {}
  <2>3. /\ Lone(jobs') /\ ToSet(jobs') = N \cup ToSet(Tail(jobs))
        /\ \A x : x \notin N
    BY <1>e, <1>m, <2>1, <2>2
  <2>4. /\ drain'[t].await = "card" /\ drain'[t].snapshot # {} /\ drain'[t].todo # <<>>
        /\ \A u \in Threads \ {t} : drain'[u] = drain[u]
    <3>1. drain[t].snapshot # {} /\ drain[t].todo # <<>>
      BY <2>1, DrainState DEF Looks
    <3> QED
      BY <1>5, <1>l, <3>1, AwaitSet DEF Ask
  <2> HIDE DEF N
  <2> QED
    BY <2>1, <2>2, <2>3, <2>4, CarriedMoves
<1>6. ASSUME NEW t \in Threads, Retry(t) PROVE Carried'
  <2>1. <<Job("wakes", t), Job("release", t)>> \in Seq(Jobs)
        /\ ToSet(<<Job("wakes", t), Job("release", t)>>) = {Job("wakes", t), Job("release", t)}
    BY <1>j, PairSet
  <2>2. \A x \in {Job("wakes", t), Job("release", t), Job("retry", t)} : x.do \notin Carriers
    BY SameJob DEF Carriers
  <2>3. Job("retry", t) \in Jobs
    BY <1>j
  <2> QED
    BY <1>6, <1>p, <2>1, <2>2, <2>3 DEF Retry
<1>7. ASSUME NEW t \in Threads, Release(t) PROVE Carried'
  <2>1. PICK S \in SUBSET Threads : \E order \in SetToSeqs(S) :
            Sync([k \in DOMAIN order |-> Job("drain", order[k])])
    <3>1. PICK freed \in SUBSET parked : \E order \in SetToSeqs({From[i] : i \in freed}) :
              Sync([k \in DOMAIN order |-> Job("drain", order[k])])
      BY <1>7 DEF Release
    <3>2. {From[i] : i \in freed} \subseteq Threads
      BY Constants DEF TypeOK
    <3> QED
      BY <3>1, <3>2
  <2>2. PICK order \in SetToSeqs(S) : Sync([k \in DOMAIN order |-> Job("drain", order[k])])
    BY <2>1
  <2> DEFINE first == [k \in DOMAIN order |-> Job("drain", order[k])]
  <2>3. first \in Seq(Jobs) /\ ToSet(first) = {Job("drain", u) : u \in S}
    BY OrderedJobs
  <2> HIDE DEF first
  <2>4. Sync(first)
    BY <2>2 DEF first
  <2>5. /\ Running(Job("release", t)) /\ Job("release", t) \in Jobs /\ Job("release", t).do \notin Carriers
        /\ UNCHANGED <<drain, redrain>>
    BY <1>7, <1>j, SameJob DEF Release, Carriers
  <2>6. \A x \in ToSet(first) : x.do \notin Carriers
    BY <2>3, SameJob DEF Carriers
  <2> QED
    BY <1>p, <2>3, <2>4, <2>5, <2>6
<1>8. ASSUME NEW t \in Threads, NEW refused \in Refusals, Wake(t, refused) PROVE Carried'
  <2>1. /\ Running(Job("wake", t)) /\ Job("wake", t) \in Jobs /\ Job("wake", t).do \notin Carriers
        /\ Sync(<<>>) /\ UNCHANGED <<drain, redrain>>
    BY <1>8, <1>j, SameJob DEF Wake, Carriers
  <2> QED
    BY <1>e, <1>p, <2>1
<1>9. ASSUME NEW t \in Threads, NEW refused \in Refusals, WakeParked(t, refused) PROVE Carried'
  <2>1. UNCHANGED <<jobs, drain, redrain>>
    BY <1>9 DEF WakeParked
  <2> QED
    BY <2>1 DEF Carried, CarriedAt, Pending, Draining, Lone
<1>10. ASSUME WakesDone PROVE Carried'
  <2>1. Running(Head(jobs)) /\ Head(jobs) \in Jobs /\ Head(jobs).do \notin Carriers
        /\ Sync(<<>>) /\ UNCHANGED <<drain, redrain>>
    BY <1>10, <1>l, HeadAndTail DEF WakesDone, Carriers, Running, Quiet
  <2> QED
    BY <1>e, <1>p, <2>1
<1> QED
  BY <1>1, <1>2, <1>3, <1>4, <1>5, <1>6, <1>7, <1>8, <1>9, <1>10, HandledCarried DEF Loop

LEMMA CarriedStep ==
    ASSUME TypeOK, Carried, [Next]_vars
    PROVE  Carried'
<1>1. CASE UNCHANGED vars
  BY <1>1 DEF vars, durable, memory, Carried, CarriedAt, Pending, Draining, Lone
<1>2. CASE Crash
  <2>1. PICK S \in SUBSET Threads : \E order \in SetToSeqs(S) :
            jobs' = [k \in DOMAIN order |-> Job("drain", order[k])]
    <3>1. {t \in Threads : queue[t] # <<>>} \subseteq Threads
      OBVIOUS
    <3> QED
      BY <1>2, <3>1 DEF Crash
  <2>2. jobs' \in Seq(Jobs) /\ ToSet(jobs') = {Job("drain", t) : t \in S}
    BY <2>1, OrderedJobs
  <2>3. \A x \in ToSet(jobs') : x.do \notin Carriers
    BY <2>2, SameJob DEF Carriers
  <2>4. Lone(jobs') /\ \A c \in Carriers, u \in Threads : ~Pending(c, u)'
    BY <2>2, <2>3, LoneShort, SameJob DEF Pending
  <2>5. \A u \in Threads : drain'[u] = NoDrain /\ redrain' = {}
    BY <1>2 DEF Crash
  <2> QED
    BY <2>4, <2>5 DEF Carried, CarriedAt, Draining, NoDrain, Carriers
<1> QED
  BY <1>1, <1>2, WorldCarried, LoopCarried DEF Next

-----------------------------------------------------------------------------
(* Handoffs stay at home. *)

\* What the steps that take handoffs out of the saved queues leave there.
LEMMA QueueLeft ==
    ASSUME TypeOK
    PROVE  \A S : \A u \in Threads : ToSet(Without(queue[u], S)) = ToSet(queue[u]) \ S
<1>1. \A s \in Seq(Items) : \A S : ToSet(Without(s, S)) = ToSet(s) \ S
  BY WithoutFacts
<1>2. \A u \in Threads : queue[u] \in Seq(Items)
  BY DEF TypeOK
<1> QED
  BY <1>1, <1>2

LEMMA QueueEdits ==
    ASSUME TypeOK, NEW t \in Threads, NEW S, queue' = [queue EXCEPT ![t] = Without(@, S)]
    PROVE  \A u \in Threads : ToSet(queue'[u]) = IF u = t THEN ToSet(queue[u]) \ S ELSE ToSet(queue[u])
<1>1. queue'[t] = Without(queue[t], S) /\ \A u \in Threads \ {t} : queue'[u] = queue[u]
  BY DEF TypeOK
<1>2. ToSet(Without(queue[t], S)) = ToSet(queue[t]) \ S
  BY QueueLeft
<1> QED
  BY <1>1, <1>2

LEMMA QueuesSwept ==
    ASSUME TypeOK, NEW S, queue' = [u \in Threads |-> Without(queue[u], S)]
    PROVE  \A u \in Threads : ToSet(queue'[u]) = ToSet(queue[u]) \ S
BY QueueLeft

\* What a completion does to the handoffs: its turn's watch is settled, and
\* the thread's own handoffs are dropped when the turn failed.
Ended(t, ok, dropped) ==
    /\ dropped \subseteq ToSet(queue[t])
    /\ Quiet /\ UNCHANGED <<drain, starts, born, torn, lost>>
    /\ receipt' = [i \in Items |-> IF i \in dropped THEN "dropped" ELSE Final(t, ok)[i]]
    /\ Unwatch(t)
    /\ \A u \in Threads : ToSet(queue'[u]) = IF u = t THEN ToSet(queue[u]) \ dropped ELSE ToSet(queue[u])
    /\ parked' = parked \ dropped

\* The steps of the outside world that end turns and settle.
LEMMA SettlementEdits ==
    ASSUME TypeOK, NEW t \in Threads
    PROVE  /\ SetupFails(t) \/ Stalls(t) =>
                /\ Quiet /\ UNCHANGED <<queue, parked, drain, starts, born, torn, lost>>
                /\ receipt' = Final(t, FALSE) /\ Unwatch(t) /\ turn'[t] \in {"idle", "stalled"}
           /\ \A ok \in BOOLEAN, next \in TurnPhases : Completed(t, ok, next) =>
                \E dropped : Ended(t, ok, dropped)
<1>1. ASSUME SetupFails(t) \/ Stalls(t)
      PROVE  /\ Quiet /\ UNCHANGED <<queue, parked, drain, starts, born, torn, lost>>
             /\ receipt' = Final(t, FALSE) /\ Unwatch(t) /\ turn'[t] \in {"idle", "stalled"}
  <2>1. CASE SetupFails(t)
    BY <2>1 DEF SetupFails, TypeOK
  <2>2. CASE Stalls(t)
    BY <2>2 DEF Stalls, TypeOK
  <2> QED
    BY <1>1, <2>1, <2>2
<1>2. ASSUME NEW ok \in BOOLEAN, NEW next \in TurnPhases, Completed(t, ok, next)
      PROVE  \E dropped : Ended(t, ok, dropped)
  <2> DEFINE dropped == IF ok THEN {} ELSE ToSet(queue[t])
  <2>1. /\ Quiet /\ UNCHANGED <<drain, starts, born, torn, lost>>
        /\ receipt' = [i \in Items |-> IF i \in dropped THEN "dropped" ELSE Final(t, ok)[i]]
        /\ Unwatch(t) /\ queue' = [queue EXCEPT ![t] = Without(@, dropped)]
        /\ parked' = parked \ dropped
    BY <1>2 DEF Completed
  <2>2. dropped \subseteq ToSet(queue[t])
    OBVIOUS
  <2> HIDE DEF dropped
  <2>3. \A u \in Threads : ToSet(queue'[u]) = IF u = t THEN ToSet(queue[u]) \ dropped ELSE ToSet(queue[u])
    <3>1. queue' = [queue EXCEPT ![t] = Without(@, dropped)]
      BY <2>1
    <3> QED
      BY <3>1, QueueEdits
  <2>4. Ended(t, ok, dropped)
    BY <2>1, <2>2, <2>3 DEF Ended
  <2> QED
    BY <2>4
<1> QED
  BY <1>1, <1>2

\* The end of a watch: nothing else is written, nothing else is unwatched.
LEMMA FinalFacts ==
    ASSUME TypeOK, NEW t \in Threads, NEW ok \in BOOLEAN, NEW i \in Items
    PROVE  /\ watch[t] # i => Final(t, ok)[i] = receipt[i]
           /\ watch[t] = i => Final(t, ok)[i] # "none"
           /\ Unwatch(t) => \A u \in Threads : watch'[u] = i <=> u # t /\ watch[u] = i
<1>1. watch \in [Threads -> Items \cup {NoItem}] /\ i # NoItem
  BY Constants DEF TypeOK
<1> QED
  BY <1>1 DEF Final, Watched, Unwatch

\* The hourly sweep takes what it expires out of the queues.
LEMMA SweepEdits ==
    ASSUME TypeOK, Sweep
    PROVE  \E due \in SUBSET born :
              /\ Quiet /\ UNCHANGED <<drain, redrain, starts, born, torn, lost, watch, turn, gone, wakes>>
              /\ \A i \in due : Queued(i) /\ ~Draining(From[i])
              /\ receipt' = Settled(due, "expired") /\ unseen' = Told(due)
              /\ \A u \in Threads : ToSet(queue'[u]) = ToSet(queue[u]) \ due
              /\ parked' = parked \ due
              /\ \A i \in due : From[i] \notin gone => Job("wake", From[i]) \in ToSet(jobs')
              /\ \A x \in ToSet(jobs') : x.do = "wake"
<1> DEFINE due == {i \in born : Queued(i) /\ ~Draining(From[i]) /\ Due(i)}
           told == {i \in due : From[i] \notin gone}
<1>1. /\ Quiet /\ UNCHANGED <<drain, redrain, starts, born, torn, lost, watch, turn, gone, wakes>>
      /\ receipt' = Settled(due, "expired") /\ unseen' = Told(due)
      /\ queue' = [u \in Threads |-> Without(queue[u], due)] /\ parked' = parked \ due
  BY DEF Sweep
<1>2. PICK order \in SetToSeqs(told) : jobs' = [k \in DOMAIN order |-> Job("wake", From[order[k]])]
  BY DEF Sweep
<1>3. due \subseteq born /\ told \subseteq Items /\ \A i \in due : Queued(i) /\ ~Draining(From[i])
  BY DEF TypeOK
<1>4. \A i \in due : From[i] \notin gone => i \in told
  OBVIOUS
<1> HIDE DEF due, told
<1>5. ToSet(jobs') = {Job("wake", From[i]) : i \in told}
  BY <1>2, <1>3, OrderedWakes
<1>6. /\ \A i \in due : From[i] \notin gone => Job("wake", From[i]) \in ToSet(jobs')
      /\ \A x \in ToSet(jobs') : x.do = "wake"
  BY <1>4, <1>5, SameJob
<1>7. \A u \in Threads : ToSet(queue'[u]) = ToSet(queue[u]) \ due
  BY <1>1, QueuesSwept
<1> QED
  BY <1>1, <1>3, <1>6, <1>7

\* A handoff that its drain handles now.
Handles(t, i) ==
    /\ i = Handling(t) /\ Queued(i) /\ From[i] = t /\ i \in born
    /\ drain[t].todo # <<>> /\ i \in ToSet(drain[t].todo)
    /\ drain[t].await \in {"none", "allow", "deny"}

LEMMA HandlesNow ==
    ASSUME TypeOK, Homed, Carried, NEW t \in Threads, NEW i \in Items
    PROVE  /\ Drop(t, i) \/ Expire(t, i) \/ Deny(t, i) \/ Park(t, i) \/ Ask(t, i) => Handles(t, i)
           /\ \A refused : Dispatch(t, i, refused) => Handles(t, i)
           /\ Drop(t, i) \/ Expire(t, i) \/ Deny(t, i) =>
                \E outcome \in Outcomes \ {"none"} : Refuse(t, i, outcome)
<1>1. ASSUME Looks(t) \/ Running(Job("answered", t)), i = Handling(t), Queued(i) PROVE Handles(t, i)
  <2>1. drain[t].todo # <<>> /\ drain[t].await \in {"none", "allow", "deny"} /\ drain[t].todo \in Seq(Items)
    BY <1>1, DrainState DEF Looks, Drains
  <2>2. i \in ToSet(drain[t].todo)
    BY <1>1, <2>1, HeadAndTail DEF Handling
  <2> QED
    BY <1>1, <2>1, <2>2 DEF Homed, Handles
<1>2. Examined(t, i) => Handles(t, i)
  BY <1>1 DEF Examined, Allowed
<1>3. Deny(t, i) => Handles(t, i)
  BY <1>1 DEF Deny
<1>4. Drop(t, i) \/ Expire(t, i) \/ Park(t, i) \/ Ask(t, i) => Handles(t, i)
  BY <1>2 DEF Drop, Expire, Park, Ask
<1>5. \A refused : Dispatch(t, i, refused) => Handles(t, i)
  BY <1>2 DEF Dispatch
<1>6. /\ "dropped" \in Outcomes \ {"none"} /\ "expired" \in Outcomes \ {"none"}
      /\ "denied" \in Outcomes \ {"none"}
  BY DEF Outcomes
<1>7. Drop(t, i) \/ Expire(t, i) \/ Deny(t, i) => \E outcome \in Outcomes \ {"none"} : Refuse(t, i, outcome)
  BY <1>6 DEF Drop, Expire, Deny
<1> QED
  BY <1>3, <1>4, <1>5, <1>7

\* What leaves the queue when a handoff is acknowledged, and who is told.
LEMMA AckEdits ==
    ASSUME TypeOK, Homed, Carried, NEW t \in Threads, Acknowledge(t)
    PROVE  /\ drain[t].await \in {"settled", "requeued", "dispatched"} /\ drain[t].todo # <<>>
           /\ Handling(t) \in Items /\ From[Handling(t)] = t
           /\ drain'[t].todo = Tail(drain[t].todo) /\ drain'[t].await = "none"
           /\ ToSet(drain[t].todo) = {Handling(t)} \cup ToSet(Tail(drain[t].todo))
           /\ \A u \in Threads \ {t} : drain'[u] = drain[u]
           /\ \A u \in Threads : ToSet(queue'[u]) = IF u = t THEN ToSet(queue[u]) \ Removed(t)
                                                    ELSE ToSet(queue[u])
           /\ parked' = parked \ Removed(t)
           /\ Removed(t) = IF drain[t].await = "requeued" THEN {} ELSE {Handling(t)}
<1>1. /\ drain[t].await \in {"settled", "requeued", "dispatched"} /\ drain[t].todo # <<>>
      /\ drain[t].todo \in Seq(Items) /\ drain \in [Threads -> Drains]
  BY DrainState DEF Acknowledge, Drains, TypeOK
<1>2. Handling(t) \in Items /\ ToSet(drain[t].todo) = {Handling(t)} \cup ToSet(Tail(drain[t].todo))
  BY <1>1, HeadAndTail DEF Handling
<1>3. /\ drain'[t].todo = Tail(drain[t].todo) /\ drain'[t].await = "none"
      /\ \A u \in Threads \ {t} : drain'[u] = drain[u]
  BY <1>1, TodoTaken DEF Acknowledge
<1>4. \A u \in Threads : ToSet(queue'[u]) = IF u = t THEN ToSet(queue[u]) \ Removed(t) ELSE ToSet(queue[u])
  <2>1. queue' = [queue EXCEPT ![t] = Without(@, Removed(t))]
    BY DEF Acknowledge
  <2> QED
    BY <2>1, QueueEdits
<1>5. From[Handling(t)] = t
  BY <1>2 DEF Homed
<1> QED
  BY <1>1, <1>2, <1>3, <1>4, <1>5 DEF Acknowledge, Removed

\* How a drain moves on while no handoff is handled: its list only grows when
\* it takes up the queue, and its state is none that awaits anything.
LEMMA DrainEdits ==
    ASSUME TypeOK, Carried, NEW t \in Threads
    PROVE  /\ DrainBegins(t) => \/ drain' = drain
                                \/ /\ ~Draining(t) /\ drain'[t].todo = queue[t] /\ drain'[t].await = "none"
                                   /\ \A u \in Threads \ {t} : drain'[u] = drain[u]
           /\ DrainEnds(t) => /\ drain[t].todo = <<>> /\ drain[t].await = "none"
                              /\ drain'[t].todo = <<>> /\ drain'[t].await = "none"
                              /\ \A u \in Threads \ {t} : drain'[u] = drain[u]
           /\ Skip(t) => /\ drain[t].todo # <<>> /\ drain[t].await = "none" /\ drain'[t].await = "none"
                         /\ drain'[t].todo = Tail(drain[t].todo) /\ ~Queued(Handling(t))
                         /\ ToSet(drain[t].todo) = {Handling(t)} \cup ToSet(Tail(drain[t].todo))
                         /\ \A u \in Threads \ {t} : drain'[u] = drain[u]
           /\ Ignore(t) => /\ drain[t].todo # <<>> /\ drain[t].await \in {"allow", "deny"}
                           /\ drain'[t].todo = drain[t].todo /\ drain'[t].await = "settled"
                           /\ ~Queued(Handling(t))
                           /\ \A u \in Threads \ {t} : drain'[u] = drain[u]
           /\ \A verdict \in {"allow", "deny"} : Answer(t, verdict) =>
                /\ drain[t].await = "card" /\ drain'[t].await = verdict /\ drain'[t].todo = drain[t].todo
                /\ \A u \in Threads \ {t} : drain'[u] = drain[u]
<1>1. drain \in [Threads -> Drains] /\ drain[t].todo \in Seq(Items)
  BY DEF TypeOK, Drains
<1>2. DrainBegins(t) => \/ drain' = drain
                        \/ /\ ~Draining(t) /\ drain'[t].todo = queue[t] /\ drain'[t].await = "none"
                           /\ \A u \in Threads \ {t} : drain'[u] = drain[u]
  BY <1>1 DEF DrainBegins
<1>3. DrainEnds(t) => /\ drain[t].todo = <<>> /\ drain[t].await = "none"
                      /\ drain'[t].todo = <<>> /\ drain'[t].await = "none"
                      /\ \A u \in Threads \ {t} : drain'[u] = drain[u]
  BY <1>1, DrainState DEF DrainEnds, NoDrain
<1>4. Skip(t) => /\ drain[t].todo # <<>> /\ drain[t].await = "none" /\ drain'[t].await = "none"
                 /\ drain'[t].todo = Tail(drain[t].todo) /\ ~Queued(Handling(t))
                 /\ ToSet(drain[t].todo) = {Handling(t)} \cup ToSet(Tail(drain[t].todo))
                 /\ \A u \in Threads \ {t} : drain'[u] = drain[u]
  <2> SUFFICES ASSUME Skip(t)
               PROVE  /\ drain[t].todo # <<>> /\ drain[t].await = "none" /\ drain'[t].await = "none"
                      /\ drain'[t].todo = Tail(drain[t].todo) /\ ~Queued(Handling(t))
                      /\ ToSet(drain[t].todo) = {Handling(t)} \cup ToSet(Tail(drain[t].todo))
                      /\ \A u \in Threads \ {t} : drain'[u] = drain[u]
    OBVIOUS
  <2>1. drain[t].todo # <<>> /\ drain[t].await = "none" /\ ~Queued(Handling(t))
    BY DrainState DEF Skip, Looks
  <2>2. /\ drain'[t].await = drain[t].await /\ drain'[t].todo = Tail(drain[t].todo)
        /\ \A u \in Threads \ {t} : drain'[u] = drain[u]
    BY <1>1 DEF Skip, Drains
  <2>3. ToSet(drain[t].todo) = {Handling(t)} \cup ToSet(Tail(drain[t].todo))
    BY <1>1, <2>1, HeadAndTail DEF Handling
  <2> QED
    BY <2>1, <2>2, <2>3
<1>5. Ignore(t) => /\ drain[t].todo # <<>> /\ drain[t].await \in {"allow", "deny"}
                   /\ drain'[t].todo = drain[t].todo /\ drain'[t].await = "settled"
                   /\ ~Queued(Handling(t))
                   /\ \A u \in Threads \ {t} : drain'[u] = drain[u]
  BY <1>1, DrainState, AwaitSet DEF Ignore
<1>6. \A verdict \in {"allow", "deny"} : Answer(t, verdict) =>
                /\ drain[t].await = "card" /\ drain'[t].await = verdict /\ drain'[t].todo = drain[t].todo
                /\ \A u \in Threads \ {t} : drain'[u] = drain[u]
  BY <1>1, AwaitSet DEF Answer
<1> QED
  BY <1>2, <1>3, <1>4, <1>5, <1>6

\* How the drain stands after it handled a handoff.
Leaves(t, await) ==
    /\ drain'[t].await = await /\ drain'[t].todo = drain[t].todo
    /\ \A u \in Threads \ {t} : drain'[u] = drain[u]

\* What the handling of a handoff changes.
LEMMA HandleEdits ==
    ASSUME TypeOK, Homed, Carried, NEW t \in Threads, NEW i \in Items
    PROVE  /\ Drop(t, i) \/ Expire(t, i) \/ Deny(t, i) =>
                /\ Handles(t, i) /\ Leaves(t, "settled")
                /\ \E outcome \in Outcomes \ {"none"} : receipt' = Settled({i}, outcome)
                /\ UNCHANGED <<queue, parked, starts, born, watch, torn, lost, turn, work>>
           /\ Park(t, i) => /\ Handles(t, i) /\ Leaves(t, "requeued") /\ parked' = parked \cup {i}
                            /\ UNCHANGED <<queue, receipt, starts, born, watch, torn, lost, turn, work>>
           /\ Ask(t, i) => /\ Handles(t, i) /\ Leaves(t, "card") /\ parked' = parked \ {i}
                           /\ UNCHANGED <<queue, receipt, starts, born, watch, torn, lost, turn, work>>
           /\ \A refused : Dispatch(t, i, refused) => \E target \in Threads :
                /\ Handles(t, i) /\ Leaves(t, "dispatched") /\ parked' = parked \ {i}
                /\ lost' = lost \cup Watched(target)
                /\ UNCHANGED <<queue, born, torn>>
                /\ \/ /\ watch' = [watch EXCEPT ![target] = i] /\ Begin(target, i) /\ Admits(target)
                      /\ starts' = [starts EXCEPT ![i] = @ + 1] /\ receipt' = receipt
                   \/ /\ watch' = [watch EXCEPT ![target] = NoItem] /\ UNCHANGED <<starts, turn, work>>
                      /\ receipt' = Settled({i}, "failed")
<1>1. drain \in [Threads -> Drains]
  BY DEF TypeOK
<1>2. \A x : drain' = [drain EXCEPT ![t].await = x] => Leaves(t, x)
  BY <1>1, AwaitSet DEF Leaves
<1>3. ASSUME Drop(t, i) \/ Expire(t, i) \/ Deny(t, i)
      PROVE  /\ Handles(t, i) /\ Leaves(t, "settled")
             /\ \E outcome \in Outcomes \ {"none"} : receipt' = Settled({i}, outcome)
             /\ UNCHANGED <<queue, parked, starts, born, watch, torn, lost, turn, work>>
  <2>1. PICK outcome \in Outcomes \ {"none"} : Refuse(t, i, outcome)
    BY <1>3, HandlesNow
  <2>2. Handles(t, i)
    BY <1>3, HandlesNow
  <2>3. UNCHANGED <<starts, born, torn, lost>>
    BY <2>1 DEF Refuse, history
  <2> QED
    BY <1>2, <2>1, <2>2, <2>3 DEF Refuse
<1>4. ASSUME Park(t, i)
      PROVE  /\ Handles(t, i) /\ Leaves(t, "requeued") /\ parked' = parked \cup {i}
             /\ UNCHANGED <<queue, receipt, starts, born, watch, torn, lost, turn, work>>
  BY <1>2, <1>4, HandlesNow DEF Park, history
<1>5. ASSUME Ask(t, i)
      PROVE  /\ Handles(t, i) /\ Leaves(t, "card") /\ parked' = parked \ {i}
             /\ UNCHANGED <<queue, receipt, starts, born, watch, torn, lost, turn, work>>
  BY <1>2, <1>5, HandlesNow DEF Ask, history
<1>6. ASSUME NEW refused, Dispatch(t, i, refused)
      PROVE  \E target \in Threads :
                /\ Handles(t, i) /\ Leaves(t, "dispatched") /\ parked' = parked \ {i}
                /\ lost' = lost \cup Watched(target)
                /\ UNCHANGED <<queue, born, torn>>
                /\ \/ /\ watch' = [watch EXCEPT ![target] = i] /\ Begin(target, i) /\ Admits(target)
                      /\ starts' = [starts EXCEPT ![i] = @ + 1] /\ receipt' = receipt
                   \/ /\ watch' = [watch EXCEPT ![target] = NoItem] /\ UNCHANGED <<starts, turn, work>>
                      /\ receipt' = Settled({i}, "failed")
  <2>1. Target(i) \in Threads
    BY Constants DEF Target, TypeOK
  <2>2. Handles(t, i)
    BY <1>6, HandlesNow
  <2>3. /\ Leaves(t, "dispatched") /\ parked' = parked \ {i}
        /\ lost' = lost \cup Watched(Target(i))
        /\ UNCHANGED <<queue, born, torn>>
    BY <1>2, <1>6 DEF Dispatch
  <2>4. CASE Admits(Target(i)) /\ ~refused
    <3>1. /\ watch' = [watch EXCEPT ![Target(i)] = i] /\ Begin(Target(i), i)
          /\ starts' = [starts EXCEPT ![i] = @ + 1] /\ receipt' = receipt
      BY <1>6, <2>4 DEF Dispatch
    <3> QED
      BY <2>1, <2>2, <2>3, <2>4, <3>1
  <2>5. CASE ~(Admits(Target(i)) /\ ~refused)
    <3>1. /\ watch' = [watch EXCEPT ![Target(i)] = NoItem] /\ UNCHANGED <<starts, turn, work>>
          /\ receipt' = Settled({i}, "failed")
      BY <1>6, <2>5 DEF Dispatch
    <3> QED
      BY <2>1, <2>2, <2>3, <3>1
  <2> QED
    BY <2>4, <2>5
<1> QED
  BY <1>3, <1>4, <1>5, <1>6

\* The steps that touch no handoff.
Untouched == UNCHANGED <<queue, parked, drain, receipt, starts, born, watch, torn, lost>>

LEMMA IdleSteps ==
    /\ \A t \in Threads : \/ PersonStarts(t) \/ Acknowledged(t) \/ Released(t) \/ WindowPasses(t)
                          \/ Delete(t) \/ Open(t) \/ Retry(t)
                          => Untouched
    /\ \A i \in Items : Age(i) \/ Bar(i) => Untouched
    /\ \A t \in Threads, refused \in Refusals : Wake(t, refused) \/ WakeParked(t, refused) => Untouched
    /\ WakesDone => Untouched
<1>1. \A t \in Threads : PersonStarts(t) => Untouched
  BY DEF PersonStarts, Untouched, durable
<1>2. \A t \in Threads : Acknowledged(t) \/ Released(t) \/ WindowPasses(t) => Untouched
  BY DEF Acknowledged, Released, WindowPasses, Untouched, durable, history
<1>3. \A t \in Threads : Delete(t) \/ Open(t) => Untouched
  BY DEF Delete, Open, Untouched, memory, history
<1>4. \A i \in Items : Age(i) \/ Bar(i) => Untouched
  BY DEF Age, Bar, Untouched, memory, history
<1>5. /\ \A t \in Threads : Retry(t) => Untouched
      /\ WakesDone => Untouched
  BY DEF Retry, WakesDone, Untouched, durable, history
<1>6. \A t \in Threads, refused \in Refusals : Wake(t, refused) => Untouched
  BY DEF Wake, Untouched, durable
<1>7. \A t \in Threads, refused \in Refusals : WakeParked(t, refused) => Untouched
  BY DEF WakeParked, Untouched, durable
<1> QED
  BY <1>1, <1>2, <1>3, <1>4, <1>5, <1>6, <1>7

LEMMA HomedStep ==
    ASSUME TypeOK, Homed, Carried, Next
    PROVE  Homed'
<1>q. \A i \in Items : Queued(i)' <=> i \in ToSet(queue'[From[i]])
  BY DEF Queued
<1>b. born \subseteq Items /\ parked \subseteq Items /\ receipt \in [Items -> Outcomes] /\ starts \in [Items -> Nat]
      /\ watch \in [Threads -> Items \cup {NoItem}]
  BY DEF TypeOK
<1>k. ASSUME NEW S, parked' \subseteq parked \ S,
             \A u \in Threads : ToSet(queue[u]) \ S \subseteq ToSet(queue'[u])
      PROVE  \A i \in parked' : Queued(i)'
  <2> SUFFICES ASSUME NEW i \in parked' PROVE i \in ToSet(queue'[From[i]])
    BY <1>b, <1>k, <1>q
  <2>1. i \in Items /\ i \in parked /\ i \notin S /\ From[i] \in Threads
    BY <1>b, <1>k, Constants
  <2>2. i \in ToSet(queue[From[i]])
    BY <2>1 DEF Homed, Queued
  <2> QED
    BY <1>k, <2>1, <2>2
<1>d. ASSUME UNCHANGED <<queue, parked, receipt, starts, born, watch>>, NEW t \in Threads,
             \A u \in Threads \ {t} : drain'[u] = drain[u],
             ToSet(drain'[t].todo) \subseteq ToSet(drain[t].todo) \cup ToSet(queue[t])
      PROVE  Homed'
  BY <1>d DEF Homed, Queued
<1>f. ASSUME NEW t \in Threads, NEW ok \in BOOLEAN, NEW dropped \in SUBSET ToSet(queue[t]),
             UNCHANGED <<drain, starts, born>>, Unwatch(t),
             receipt' = [i \in Items |-> IF i \in dropped THEN "dropped" ELSE Final(t, ok)[i]],
             \A u \in Threads : ToSet(queue'[u]) = IF u = t THEN ToSet(queue[u]) \ dropped ELSE ToSet(queue[u]),
             parked' = parked \ dropped
      PROVE  Homed'
  <2>1. ASSUME NEW i \in Items, receipt'[i] # "none" PROVE i \in born
    <3>1. CASE i \in dropped
      BY <1>f, <3>1 DEF Homed
    <3>2. CASE watch[t] = i
      BY <3>2, Constants DEF Homed
    <3>3. CASE i \notin dropped /\ watch[t] # i
      BY <1>f, <2>1, <3>3, FinalFacts DEF Homed
    <3> QED
      BY <3>1, <3>2, <3>3
  <2>2. \A u \in Threads : watch'[u] = NoItem \/ watch'[u] = watch[u]
    BY <1>b, <1>f DEF Unwatch
  <2>3. \A i \in parked' : Queued(i)'
    BY <1>f, <1>k
  <2> QED
    BY <1>f, <2>1, <2>2, <2>3 DEF Homed
<1>1. ASSUME Untouched PROVE Homed'
  BY <1>1 DEF Untouched, Homed, Queued
<1>2. ASSUME NEW t \in Threads, SetupFails(t) \/ Stalls(t) PROVE Homed'
  <2>1. /\ UNCHANGED <<queue, parked, drain, starts, born>> /\ receipt' = Final(t, FALSE) /\ Unwatch(t)
    BY <1>2, SettlementEdits
  <2>2. receipt' = [i \in Items |-> Final(t, FALSE)[i]]
    BY <2>1 DEF Final
  <2> DEFINE dropped == {}
  <2>3. /\ dropped \in SUBSET ToSet(queue[t]) /\ receipt' = [i \in Items |-> IF i \in dropped THEN "dropped" ELSE Final(t, FALSE)[i]]
        /\ \A u \in Threads : ToSet(queue'[u]) = IF u = t THEN ToSet(queue[u]) \ dropped ELSE ToSet(queue[u])
        /\ parked' = parked \ dropped
    BY <2>1, <2>2
  <2> HIDE DEF dropped
  <2>4. FALSE \in BOOLEAN
    OBVIOUS
  <2> QED
    BY <1>f, <2>1, <2>3, <2>4
<1>3. ASSUME NEW t \in Threads, NEW ok \in BOOLEAN, NEW next \in TurnPhases, Completed(t, ok, next)
      PROVE  Homed'
  <2>0. PICK dropped : Ended(t, ok, dropped)
    BY <1>3, SettlementEdits
  <2>1. /\ dropped \in SUBSET ToSet(queue[t])
        /\ UNCHANGED <<drain, starts, born>>
        /\ receipt' = [i \in Items |-> IF i \in dropped THEN "dropped" ELSE Final(t, ok)[i]]
        /\ Unwatch(t)
        /\ \A u \in Threads : ToSet(queue'[u]) = IF u = t THEN ToSet(queue[u]) \ dropped ELSE ToSet(queue[u])
        /\ parked' = parked \ dropped
    BY <2>0 DEF Ended
  <2> QED
    BY <1>f, <2>1
<1>4. ASSUME Sweep PROVE Homed'
  <2>1. PICK due \in SUBSET born :
              /\ UNCHANGED <<drain, starts, born, watch>>
              /\ receipt' = Settled(due, "expired")
              /\ \A u \in Threads : ToSet(queue'[u]) = ToSet(queue[u]) \ due
              /\ parked' = parked \ due
    BY <1>4, SweepEdits
  <2>2. \A i \in Items : receipt'[i] # "none" => i \in born
    BY <1>b, <2>1 DEF Settled, Homed
  <2>3. \A i \in parked' : Queued(i)'
    BY <1>k, <2>1
  <2> QED
    BY <2>1, <2>2, <2>3 DEF Homed
<1>5. ASSUME NEW i \in Items, NEW approved \in BOOLEAN, Queue(i, approved) PROVE Homed'
  <2>1. /\ queue' = [queue EXCEPT ![From[i]] = Append(@, i)] /\ born' = born \cup {i}
        /\ UNCHANGED <<parked, drain, receipt, starts, watch>>
    BY <1>5 DEF Queue, memory
  <2>2. \A u \in Threads : ToSet(queue'[u]) = ToSet(queue[u]) \cup (IF u = From[i] THEN {i} ELSE {})
    <3>1. \A s \in Seq(Items) : ToSet(Append(s, i)) = ToSet(s) \cup {i}
      BY AppendSet
    <3> QED
      BY <2>1, <3>1 DEF TypeOK
  <2>3. \A j \in parked' : Queued(j)'
    <3>1. \A u \in Threads : ToSet(queue[u]) \ {} \subseteq ToSet(queue'[u])
      BY <2>2
    <3> QED
      BY <1>k, <2>1, <3>1
  <2>4. \A t \in Threads : \A j \in ToSet(queue'[t]) : j \in born' /\ From[j] = t
    BY <2>1, <2>2 DEF Homed
  <2> QED
    BY <2>1, <2>3, <2>4 DEF Homed
<1>6. ASSUME NEW t \in Threads, DrainBegins(t) \/ DrainEnds(t) \/ Skip(t) \/ Ignore(t) PROVE Homed'
  <2>1. UNCHANGED <<queue, parked, receipt, starts, born, watch>>
    BY <1>6 DEF DrainBegins, DrainEnds, Skip, Ignore, durable, history
  <2>2. ToSet(<<>>) = {}
    BY EmptySet
  <2>3. CASE DrainBegins(t)
    BY <1>d, <2>1, <2>3, DrainEdits
  <2>4. CASE DrainEnds(t)
    BY <1>d, <2>1, <2>2, <2>4, DrainEdits
  <2>5. CASE Skip(t)
    BY <1>d, <2>1, <2>5, DrainEdits
  <2>6. CASE Ignore(t)
    BY <1>d, <2>1, <2>6, DrainEdits
  <2> QED
    BY <1>6, <2>3, <2>4, <2>5, <2>6
<1>7. ASSUME NEW t \in Threads, NEW verdict \in {"allow", "deny"}, Answer(t, verdict) PROVE Homed'
  <2>1. UNCHANGED <<queue, parked, receipt, starts, born, watch>>
    BY <1>7 DEF Answer, durable, history
  <2> QED
    BY <1>7, <1>d, <2>1, DrainEdits
<1>8. ASSUME NEW t \in Threads, NEW i \in Items,
             Drop(t, i) \/ Expire(t, i) \/ Deny(t, i) \/ Park(t, i) \/ Ask(t, i)
      PROVE  Homed'
  <2>1. /\ Handles(t, i) /\ UNCHANGED <<queue, starts, born, watch>>
        /\ \E a : Leaves(t, a)
        /\ parked' \subseteq parked \cup {i}
        /\ \A j \in Items : j # i => receipt'[j] = receipt[j]
    <3>1. CASE Drop(t, i) \/ Expire(t, i) \/ Deny(t, i)
      BY <1>b, <3>1, HandleEdits DEF Settled
    <3>2. CASE Park(t, i)
      BY <3>2, HandleEdits
    <3>3. CASE Ask(t, i)
      BY <3>3, HandleEdits
    <3> QED
      BY <1>8, <3>1, <3>2, <3>3
  <2>2. \A u \in Threads : drain'[u].todo = drain[u].todo
    BY <2>1 DEF Leaves
  <2> QED
    BY <2>1, <2>2 DEF Homed, Queued, Handles
<1>9. ASSUME NEW t \in Threads, NEW i \in Items, NEW refused, Dispatch(t, i, refused) PROVE Homed'
  <2>1. PICK target \in Threads :
          /\ Handles(t, i) /\ Leaves(t, "dispatched") /\ parked' = parked \ {i} /\ UNCHANGED <<queue, born>>
          /\ \/ /\ watch' = [watch EXCEPT ![target] = i]
                /\ starts' = [starts EXCEPT ![i] = @ + 1] /\ receipt' = receipt
             \/ /\ watch' = [watch EXCEPT ![target] = NoItem] /\ UNCHANGED starts
                /\ receipt' = Settled({i}, "failed")
    BY <1>9, HandleEdits
  <2>2. /\ \A u \in Threads : watch'[u] \in {watch[u], i, NoItem}
        /\ \A j \in Items : j # i => receipt'[j] = receipt[j] /\ starts'[j] = starts[j]
    BY <1>b, <2>1 DEF Settled
  <2>3. \A u \in Threads : drain'[u].todo = drain[u].todo
    BY <2>1 DEF Leaves
  <2>4. i \in born /\ born' = born /\ queue' = queue /\ parked' \subseteq parked
    BY <2>1 DEF Handles
  <2> QED
    BY <2>2, <2>3, <2>4 DEF Homed, Queued
<1>10. ASSUME NEW t \in Threads, Acknowledge(t) PROVE Homed'
  <2>1. UNCHANGED <<receipt, starts, born, watch>>
    BY <1>10 DEF Acknowledge
  <2> DEFINE S == Removed(t)
  <2> HIDE DEF S
  <2>2. /\ drain'[t].todo = Tail(drain[t].todo) /\ \A u \in Threads \ {t} : drain'[u] = drain[u]
        /\ ToSet(drain[t].todo) = {Handling(t)} \cup ToSet(Tail(drain[t].todo))
        /\ \A u \in Threads : ToSet(queue'[u]) = IF u = t THEN ToSet(queue[u]) \ S ELSE ToSet(queue[u])
        /\ parked' = parked \ S
    BY <1>10, AckEdits DEF S
  <2>3. \A i \in parked' : Queued(i)'
    BY <1>k, <2>2
  <2>4. /\ \A u \in Threads : ToSet(drain'[u].todo) \subseteq ToSet(drain[u].todo)
        /\ \A u \in Threads : ToSet(queue'[u]) \subseteq ToSet(queue[u])
    BY <2>2
  <2> QED
    BY <2>1, <2>3, <2>4 DEF Homed
<1>11. ASSUME NEW t \in Threads, Release(t) PROVE Homed'
  <2>1. UNCHANGED <<queue, drain, receipt, starts, born, watch>> /\ parked' \subseteq parked
    BY <1>11 DEF Release, history
  <2> QED
    BY <2>1 DEF Homed, Queued
<1>12. ASSUME Crash PROVE Homed'
  <2>1. /\ UNCHANGED <<queue, parked, receipt, starts, born>>
        /\ \A u \in Threads : drain'[u].todo = <<>> /\ watch'[u] = NoItem
    BY <1>12 DEF Crash, NoDrain
  <2>2. \A u \in Threads : ToSet(drain'[u].todo) = {}
    BY <2>1, EmptySet
  <2>3. \A i \in parked' : Queued(i)'
    BY <2>1 DEF Homed, Queued
  <2>4. /\ \A u \in Threads : \A i \in ToSet(queue'[u]) : i \in born' /\ From[i] = u
        /\ \A i \in Items : starts'[i] > 0 \/ receipt'[i] # "none" => i \in born'
    BY <2>1 DEF Homed
  <2> QED
    BY <2>1, <2>2, <2>3, <2>4 DEF Homed
<1>13. CASE World
  BY <1>1, <1>2, <1>3, <1>4, <1>5, <1>7, <1>13, IdleSteps DEF World
<1>14. CASE Loop
  BY <1>1, <1>6, <1>8, <1>9, <1>10, <1>11, <1>14, IdleSteps DEF Loop
<1> QED
  BY <1>12, <1>13, <1>14 DEF Next

-----------------------------------------------------------------------------
(* What leaves the queue is answered. *)

\* An answer, once there, stays: a watch ends in a receipt, or in a loss.
LEMMA AnswersLast ==
    ASSUME TypeOK, Homed, Carried, Next, NEW i \in Items, Answered(i)
    PROVE  Answered(i)'
<1>b. /\ receipt \in [Items -> Outcomes] /\ watch \in [Threads -> Items \cup {NoItem}] /\ i # NoItem
  BY Constants DEF TypeOK
<1>k. ASSUME receipt[i] # "none" => receipt'[i] # "none", lost \subseteq lost',
             \A u \in Threads : watch[u] = i => watch'[u] = i \/ receipt'[i] # "none" \/ i \in lost'
      PROVE  Answered(i)'
  BY <1>k DEF Answered
<1>1. ASSUME Untouched PROVE Answered(i)'
  BY <1>1 DEF Untouched, Answered
<1>s. ASSUME UNCHANGED <<receipt, lost, watch>> PROVE Answered(i)'
  BY <1>s DEF Answered
<1>f. ASSUME NEW t \in Threads, NEW ok \in BOOLEAN, NEW dropped, lost' = lost, Unwatch(t),
             receipt' = [j \in Items |-> IF j \in dropped THEN "dropped" ELSE Final(t, ok)[j]]
      PROVE  Answered(i)'
  <2>1. Unwatch(t) => \A u \in Threads : watch'[u] = i <=> u # t /\ watch[u] = i
    BY FinalFacts
  <2>2. CASE watch[t] = i
    <3>1. Final(t, ok)[i] # "none"
      BY <2>2, FinalFacts
    <3> QED
      BY <1>f, <3>1 DEF Answered
  <2>3. CASE watch[t] # i
    <3>1. receipt[i] # "none" => receipt'[i] # "none"
      BY <1>f, <2>3, FinalFacts
    <3> QED
      BY <1>f, <1>k, <2>1, <2>3, <3>1
  <2> QED
    BY <2>2, <2>3
<1>2. ASSUME NEW t \in Threads, SetupFails(t) \/ Stalls(t) PROVE Answered(i)'
  <2>1. lost' = lost /\ receipt' = Final(t, FALSE) /\ Unwatch(t)
    BY <1>2, SettlementEdits
  <2> DEFINE dropped == {}
  <2>2. receipt' = [j \in Items |-> IF j \in dropped THEN "dropped" ELSE Final(t, FALSE)[j]]
    BY <2>1 DEF Final
  <2> HIDE DEF dropped
  <2>3. FALSE \in BOOLEAN
    OBVIOUS
  <2> QED
    BY <1>f, <2>1, <2>2, <2>3
<1>3. ASSUME NEW t \in Threads, NEW ok \in BOOLEAN, NEW next \in TurnPhases, Completed(t, ok, next)
      PROVE  Answered(i)'
  <2>0. PICK dropped : Ended(t, ok, dropped)
    BY <1>3, SettlementEdits
  <2>1. /\ dropped \in SUBSET ToSet(queue[t])
        /\ lost' = lost /\ Unwatch(t)
        /\ receipt' = [j \in Items |-> IF j \in dropped THEN "dropped" ELSE Final(t, ok)[j]]
    BY <2>0 DEF Ended
  <2> QED
    BY <1>f, <2>1
<1>4. ASSUME Sweep PROVE Answered(i)'
  <2>1. PICK due \in SUBSET born : UNCHANGED <<watch, lost>> /\ receipt' = Settled(due, "expired")
    BY <1>4, SweepEdits
  <2>2. receipt[i] # "none" => receipt'[i] # "none"
    BY <2>1 DEF Settled
  <2> QED
    BY <1>k, <2>1, <2>2
<1>5. ASSUME NEW j \in Items, NEW approved \in BOOLEAN, Queue(j, approved) PROVE Answered(i)'
  BY <1>5, <1>s DEF Queue, memory
<1>6. ASSUME NEW t \in Threads, DrainBegins(t) \/ DrainEnds(t) \/ Skip(t) \/ Ignore(t) PROVE Answered(i)'
  BY <1>6, <1>s DEF DrainBegins, DrainEnds, Skip, Ignore, durable, history
<1>7. ASSUME NEW t \in Threads, NEW verdict \in {"allow", "deny"}, Answer(t, verdict) PROVE Answered(i)'
  BY <1>7, <1>s DEF Answer, durable, history
<1>8. ASSUME NEW t \in Threads, NEW j \in Items, Drop(t, j) \/ Expire(t, j) \/ Deny(t, j) PROVE Answered(i)'
  <2>1. PICK outcome \in Outcomes \ {"none"} : receipt' = Settled({j}, outcome)
    BY <1>8, HandleEdits
  <2>2. receipt[i] # "none" => receipt'[i] # "none"
    BY <2>1 DEF Settled
  <2>3. UNCHANGED <<watch, lost>>
    BY <1>8, HandleEdits
  <2> QED
    BY <1>k, <2>2, <2>3
<1>9. ASSUME NEW t \in Threads, NEW j \in Items, Park(t, j) \/ Ask(t, j) PROVE Answered(i)'
  <2>1. UNCHANGED <<receipt, lost, watch>>
    BY <1>9, HandleEdits
  <2> QED
    BY <1>s, <2>1
<1>10. ASSUME NEW t \in Threads, NEW j \in Items, NEW refused, Dispatch(t, j, refused) PROVE Answered(i)'
  <2>1. PICK target \in Threads :
          /\ lost' = lost \cup Watched(target)
          /\ \/ watch' = [watch EXCEPT ![target] = j] /\ receipt' = receipt
             \/ watch' = [watch EXCEPT ![target] = NoItem] /\ receipt' = Settled({j}, "failed")
    BY <1>10, HandleEdits
  <2>2. receipt[i] # "none" => receipt'[i] # "none"
    BY <2>1 DEF Settled
  <2>3. watch[target] = i => i \in lost'
    BY <1>b, <2>1 DEF Watched
  <2>4. \A u \in Threads : u # target => watch'[u] = watch[u]
    BY <1>b, <2>1
  <2> QED
    BY <1>k, <2>1, <2>2, <2>3, <2>4
<1>11. ASSUME NEW t \in Threads, Acknowledge(t) \/ Release(t) PROVE Answered(i)'
  BY <1>11, <1>s DEF Acknowledge, Release, history
<1>12. ASSUME Crash PROVE Answered(i)'
  <2>1. receipt' = receipt /\ lost' = lost \cup (UNION {Watched(t) : t \in Threads})
    BY <1>12 DEF Crash
  <2>2. \A u \in Threads : watch[u] = i => i \in lost'
    BY <1>b, <2>1 DEF Watched
  <2> QED
    BY <1>k, <2>1, <2>2
<1>13. CASE World
  BY <1>1, <1>2, <1>3, <1>4, <1>5, <1>7, <1>13, IdleSteps DEF World
<1>14. CASE Loop
  BY <1>1, <1>6, <1>8, <1>9, <1>10, <1>11, <1>14, IdleSteps DEF Loop
<1> QED
  BY <1>12, <1>13, <1>14 DEF Next

LEMMA AnswersStep ==
    ASSUME TypeOK, Homed, Carried, AnswersFit, Next
    PROVE  AnswersFit'
<1>b. /\ born \subseteq Items /\ receipt \in [Items -> Outcomes] /\ drain \in [Threads -> Drains]
      /\ watch \in [Threads -> Items \cup {NoItem}]
  BY DEF TypeOK
<1>a. \A i \in Items : Answered(i) => Answered(i)'
  BY AnswersLast
<1>q. \A i \in Items : (Queued(i) <=> i \in ToSet(queue[From[i]])) /\ (Queued(i)' <=> i \in ToSet(queue'[From[i]]))
  BY DEF Queued
<1>h. \A u \in Threads : drain[u].await \in {"settled", "dispatched"} => Answered(Handling(u)) /\ Handling(u) \in Items
  BY DrainTypes DEF AnswersFit, Carried, CarriedAt
<1>k. ASSUME \A i \in Items : i \in born' /\ i \in born /\ Queued(i) => Queued(i)' \/ Answered(i)',
             \A i \in born' : i \in Items /\ (i \notin born => Queued(i)'),
             \A u \in Threads : drain'[u].await \in {"settled", "dispatched"} =>
                \/ drain'[u].await = drain[u].await /\ drain'[u].todo = drain[u].todo
                \/ \E i \in Items : i = Head(drain'[u].todo) /\ Answered(i)'
      PROVE  AnswersFit'
  <2>1. \A i \in born' : Queued(i)' \/ Answered(i)'
    BY <1>a, <1>k DEF AnswersFit
  <2>2. ASSUME NEW u \in Threads, drain'[u].await \in {"settled", "dispatched"} PROVE Answered(Handling(u))'
    <3>1. PICK i \in Items : i = Head(drain'[u].todo) /\ Answered(i)'
      <4>1. CASE drain'[u].await = drain[u].await /\ drain'[u].todo = drain[u].todo
        <5>1. PICK i \in Items : i = Handling(u) /\ Answered(i)
          BY <1>h, <2>2, <4>1
        <5>2. i = Head(drain'[u].todo) /\ Answered(i)'
          BY <1>a, <4>1, <5>1 DEF Handling
        <5> QED
          BY <5>2
      <4>2. CASE ~(drain'[u].await = drain[u].await /\ drain'[u].todo = drain[u].todo)
        BY <1>k, <2>2, <4>2
      <4> QED
        BY <4>1, <4>2
    <3> QED
      BY <3>1 DEF Answered, Handling
  <2> QED
    BY <2>1, <2>2 DEF AnswersFit
<1>s. ASSUME born' = born, queue' = queue,
             \A u \in Threads : drain'[u].await \in {"settled", "dispatched"} =>
                \/ drain'[u].await = drain[u].await /\ drain'[u].todo = drain[u].todo
                \/ \E i \in Items : i = Head(drain'[u].todo) /\ Answered(i)'
      PROVE  AnswersFit'
  BY <1>b, <1>k, <1>q, <1>s
<1>1. ASSUME Untouched PROVE AnswersFit'
  BY <1>1, <1>s DEF Untouched
<1>2. ASSUME NEW t \in Threads, SetupFails(t) \/ Stalls(t) PROVE AnswersFit'
  <2>1. UNCHANGED <<queue, drain, born>>
    BY <1>2, SettlementEdits
  <2> QED
    BY <1>s, <2>1
<1>3. ASSUME NEW t \in Threads, NEW ok \in BOOLEAN, NEW next \in TurnPhases, Completed(t, ok, next)
      PROVE  AnswersFit'
  <2>0. PICK dropped : Ended(t, ok, dropped)
    BY <1>3, SettlementEdits
  <2>1. /\ dropped \in SUBSET ToSet(queue[t])
        /\ UNCHANGED <<drain, born>>
        /\ receipt' = [j \in Items |-> IF j \in dropped THEN "dropped" ELSE Final(t, ok)[j]]
        /\ \A u \in Threads : ToSet(queue'[u]) = IF u = t THEN ToSet(queue[u]) \ dropped ELSE ToSet(queue[u])
    BY <2>0 DEF Ended
  <2>2. \A i \in Items : i \in dropped => Answered(i)'
    BY <2>1 DEF Answered
  <2>3. \A i \in Items : i \in dropped \/ (Queued(i) => Queued(i)')
    BY <1>q, <2>1, Constants
  <2> QED
    BY <1>b, <1>k, <2>1, <2>2, <2>3
<1>4. ASSUME Sweep PROVE AnswersFit'
  <2>1. PICK due \in SUBSET born :
           /\ UNCHANGED <<drain, born>> /\ receipt' = Settled(due, "expired")
           /\ \A u \in Threads : ToSet(queue'[u]) = ToSet(queue[u]) \ due
    BY <1>4, SweepEdits
  <2>2. \A i \in Items : i \in due => Answered(i)'
    BY <2>1 DEF Answered, Settled
  <2>3. \A i \in Items : i \in due \/ (Queued(i) => Queued(i)')
    BY <1>q, <2>1, Constants
  <2> QED
    BY <1>b, <1>k, <2>1, <2>2, <2>3
<1>5. ASSUME NEW i \in Items, NEW approved \in BOOLEAN, Queue(i, approved) PROVE AnswersFit'
  <2>1. /\ queue' = [queue EXCEPT ![From[i]] = Append(@, i)] /\ born' = born \cup {i} /\ drain' = drain
    BY <1>5 DEF Queue, memory
  <2>2. \A u \in Threads : ToSet(queue'[u]) = ToSet(queue[u]) \cup (IF u = From[i] THEN {i} ELSE {})
    <3>1. \A s \in Seq(Items) : ToSet(Append(s, i)) = ToSet(s) \cup {i}
      BY AppendSet
    <3> QED
      BY <2>1, <3>1 DEF TypeOK
  <2>3. Queued(i)' /\ \A j \in Items : Queued(j) => Queued(j)'
    BY <1>q, <2>2, Constants
  <2> QED
    BY <1>b, <1>k, <2>1, <2>3
<1>6. ASSUME NEW t \in Threads, DrainBegins(t) \/ DrainEnds(t) \/ Skip(t) \/ Ignore(t) PROVE AnswersFit'
  <2>1. UNCHANGED <<queue, born>>
    BY <1>6 DEF DrainBegins, DrainEnds, Skip, Ignore, durable, history
  <2>2. CASE DrainBegins(t) \/ DrainEnds(t) \/ Skip(t)
    <3>1. drain' = drain \/ (drain'[t].await = "none" /\ \A u \in Threads \ {t} : drain'[u] = drain[u])
      BY <2>2, DrainEdits
    <3> QED
      BY <1>s, <2>1, <3>1
  <2>3. CASE Ignore(t)
    <3>1. /\ drain[t].todo # <<>> /\ drain'[t].todo = drain[t].todo /\ ~Queued(Handling(t))
          /\ \A u \in Threads \ {t} : drain'[u] = drain[u]
      BY <2>3, DrainEdits
    <3>2. Handling(t) \in born /\ Handling(t) \in Items
      <4>1. drain[t].todo \in Seq(Items)
        BY <1>b DEF Drains
      <4>2. Handling(t) \in ToSet(drain[t].todo)
        BY <3>1, <4>1, HeadAndTail DEF Handling
      <4> QED
        BY <1>b, <4>2 DEF Homed
    <3>3. Answered(Handling(t))
      BY <3>1, <3>2 DEF AnswersFit
    <3>4. \E i \in Items : i = Head(drain'[t].todo) /\ Answered(i)'
      <4>1. PICK i \in Items : i = Handling(t) /\ Answered(i)
        BY <3>2, <3>3
      <4>2. i = Head(drain'[t].todo) /\ Answered(i)'
        BY <1>a, <3>1, <4>1 DEF Handling
      <4> QED
        BY <4>2
    <3> QED
      BY <1>s, <2>1, <3>1, <3>4
  <2> QED
    BY <1>6, <2>2, <2>3
<1>7. ASSUME NEW t \in Threads, NEW verdict \in {"allow", "deny"}, Answer(t, verdict) PROVE AnswersFit'
  <2>1. UNCHANGED <<queue, born>>
    BY <1>7 DEF Answer, durable, history
  <2>2. drain'[t].await \in {"allow", "deny"} /\ \A u \in Threads \ {t} : drain'[u] = drain[u]
    BY <1>7, DrainEdits
  <2> QED
    BY <1>s, <2>1, <2>2
<1>8. ASSUME NEW t \in Threads, NEW i \in Items, Drop(t, i) \/ Expire(t, i) \/ Deny(t, i) PROVE AnswersFit'
  <2>1. PICK outcome \in Outcomes \ {"none"} : receipt' = Settled({i}, outcome)
    BY <1>8, HandleEdits
  <2>2. Handles(t, i) /\ Leaves(t, "settled") /\ UNCHANGED <<queue, born>>
    BY <1>8, HandleEdits
  <2>3. i = Head(drain'[t].todo) /\ Answered(i)'
    BY <2>1, <2>2 DEF Handles, Leaves, Handling, Answered, Settled
  <2> QED
    BY <1>s, <2>2, <2>3 DEF Leaves
<1>9. ASSUME NEW t \in Threads, NEW i \in Items, Park(t, i) \/ Ask(t, i) PROVE AnswersFit'
  <2>1. UNCHANGED <<queue, born>> /\ (Leaves(t, "requeued") \/ Leaves(t, "card"))
    BY <1>9, HandleEdits
  <2> QED
    BY <1>s, <2>1 DEF Leaves
<1>10. ASSUME NEW t \in Threads, NEW i \in Items, NEW refused, Dispatch(t, i, refused) PROVE AnswersFit'
  <2>1. PICK target \in Threads :
          /\ Handles(t, i) /\ Leaves(t, "dispatched") /\ UNCHANGED <<queue, born>>
          /\ watch' = [watch EXCEPT ![target] = i] \/ receipt' = Settled({i}, "failed")
    BY <1>10, HandleEdits
  <2>2. Answered(i)'
    BY <1>b, <2>1 DEF Answered, Settled
  <2>3. i = Head(drain'[t].todo)
    BY <2>1 DEF Handles, Leaves, Handling
  <2> QED
    BY <1>s, <2>1, <2>2, <2>3 DEF Leaves
<1>11. ASSUME NEW t \in Threads, Acknowledge(t) PROVE AnswersFit'
  <2>1. born' = born
    BY <1>11 DEF Acknowledge
  <2>2. /\ drain[t].await \in {"settled", "requeued", "dispatched"} /\ drain'[t].await = "none"
        /\ \A u \in Threads \ {t} : drain'[u] = drain[u]
        /\ \A u \in Threads : ToSet(queue'[u]) = IF u = t THEN ToSet(queue[u]) \ Removed(t) ELSE ToSet(queue[u])
        /\ Removed(t) = IF drain[t].await = "requeued" THEN {} ELSE {Handling(t)}
    BY <1>11, AckEdits
  <2>3. \A i \in Items : i \in Removed(t) => Answered(i)'
    BY <1>a, <1>h, <2>2
  <2>4. \A i \in Items : i \in Removed(t) \/ (Queued(i) => Queued(i)')
    <3> HIDE DEF Removed
    <3> QED
      BY <1>q, <2>2, Constants
  <2> QED
    BY <1>b, <1>k, <2>1, <2>2, <2>3, <2>4
<1>12. ASSUME NEW t \in Threads, Release(t) PROVE AnswersFit'
  <2>1. UNCHANGED <<queue, drain, born>>
    BY <1>12 DEF Release, history
  <2> QED
    BY <1>s, <2>1
<1>13. ASSUME Crash PROVE AnswersFit'
  <2>1. UNCHANGED <<queue, born>> /\ \A u \in Threads : drain'[u].await = "none"
    BY <1>13 DEF Crash, NoDrain
  <2> QED
    BY <1>s, <2>1
<1>14. CASE World
  BY <1>1, <1>2, <1>3, <1>4, <1>5, <1>7, <1>14, IdleSteps DEF World
<1>15. CASE Loop
  BY <1>1, <1>6, <1>8, <1>9, <1>10, <1>11, <1>12, <1>15, IdleSteps DEF Loop
<1> QED
  BY <1>13, <1>14, <1>15 DEF Next

-----------------------------------------------------------------------------
(* A handoff is started once and settled once. *)

\* A queued handoff that is not being acknowledged has not begun.
LEMMA NotBegun ==
    ASSUME TypeOK, NEW i \in Items, OnceAt(i), Queued(i),
           ~Acknowledging(i, {"settled", "dispatched"})
    PROVE  starts[i] = 0 /\ receipt[i] = "none" /\ \A u \in Threads : watch[u] # i
BY DEF OnceAt, Acknowledging, TypeOK

LEMMA OnceKeeps ==
    ASSUME NEW i \in Items, OnceAt(i), starts'[i] = starts[i],
           Queued(i)' => /\ Queued(i)
                         /\ ~Acknowledging(i, {"settled", "dispatched"}) \/ drain'[From[i]] = drain[From[i]],
           receipt'[i] = receipt[i] \/ ~Queued(i)',
           \A u \in Threads : watch'[u] = i => watch[u] = i /\ receipt'[i] = receipt[i]
    PROVE  OnceAt(i)'
<1>1. Queued(i)' => \A a \in {"settled", "dispatched"} : Acknowledging(i, {a}) => Acknowledging(i, {a})'
  BY DEF Acknowledging, Handling
<1>2. \A A \in {{"dispatched"}, {"settled", "dispatched"}} :
         Queued(i)' /\ Acknowledging(i, A) => Acknowledging(i, A)'
  BY DEF Acknowledging, Handling
<1>3. Queued(i)' /\ starts'[i] > 0 => Acknowledging(i, {"dispatched"})'
  BY <1>2 DEF OnceAt
<1>4. Queued(i)' /\ receipt'[i] # "none" => Acknowledging(i, {"settled", "dispatched"})'
  BY <1>2 DEF OnceAt
<1>5. ASSUME NEW t \in Threads, watch'[t] = i
      PROVE  receipt'[i] = "none" /\ starts'[i] > 0 /\ \A u \in Threads : watch'[u] = i => u = t
  BY <1>5 DEF OnceAt
<1> QED
  BY <1>3, <1>4, <1>5 DEF OnceAt

LEMMA OnceStep ==
    ASSUME TypeOK, Homed, Carried, OnceFits, Next
    PROVE  OnceFits'
<1>b. /\ receipt \in [Items -> Outcomes] /\ drain \in [Threads -> Drains] /\ starts \in [Items -> Nat]
      /\ watch \in [Threads -> Items \cup {NoItem}] /\ NoItem \notin Items /\ From \in [Items -> Threads]
      /\ born \subseteq Items
  BY Constants DEF TypeOK
<1>q. \A i \in Items : (Queued(i) <=> i \in ToSet(queue[From[i]])) /\ (Queued(i)' <=> i \in ToSet(queue'[From[i]]))
  BY DEF Queued
<1>o. \A i \in Items \ torn : OnceAt(i)
  BY DEF OnceFits
<1>n. \A i \in Items \ torn : Queued(i) /\ drain[From[i]].await \notin {"settled", "dispatched"} =>
         starts[i] = 0 /\ receipt[i] = "none" /\ \A u \in Threads : watch[u] # i
  BY <1>o, NotBegun DEF Acknowledging
<1>z. Quiet => \A u \in Threads : drain[u].await \notin {"settled", "dispatched"}
  BY DrainState
<1>d. ASSUME UNCHANGED <<starts, receipt, watch, torn>>, \A i \in Items : Queued(i)' => Queued(i),
             NEW t \in Threads, drain[t].await \notin {"settled", "dispatched"},
             \A u \in Threads \ {t} : drain'[u] = drain[u]
      PROVE  OnceFits'
  <2> SUFFICES ASSUME NEW i \in Items \ torn PROVE OnceAt(i)'
    BY <1>d DEF OnceFits
  <2>1. ~Acknowledging(i, {"settled", "dispatched"}) \/ drain'[From[i]] = drain[From[i]]
    BY <1>b, <1>d DEF Acknowledging
  <2> QED
    BY <1>d, <1>o, <2>1, OnceKeeps
<1>1. ASSUME Untouched PROVE OnceFits'
  <2> SUFFICES ASSUME NEW i \in Items \ torn PROVE OnceAt(i)'
    BY <1>1 DEF OnceFits, Untouched
  <2>1. UNCHANGED <<starts, receipt, watch, drain>> /\ (Queued(i)' => Queued(i))
    BY <1>1 DEF Untouched, Queued
  <2> QED
    BY <1>o, <2>1, OnceKeeps
<1>f. ASSUME NEW t \in Threads, NEW ok \in BOOLEAN, NEW dropped \in SUBSET ToSet(queue[t]), Quiet,
             UNCHANGED <<drain, starts, torn>>, Unwatch(t),
             receipt' = [i \in Items |-> IF i \in dropped THEN "dropped" ELSE Final(t, ok)[i]],
             \A u \in Threads : ToSet(queue'[u]) = IF u = t THEN ToSet(queue[u]) \ dropped ELSE ToSet(queue[u])
      PROVE  OnceFits'
  <2> SUFFICES ASSUME NEW i \in Items \ torn PROVE OnceAt(i)'
    BY <1>f DEF OnceFits
  <2>1. Queued(i)' => Queued(i) /\ i \notin dropped
    <3>1. i \in dropped => From[i] = t
      BY <1>f DEF Homed
    <3>2. From[i] \in Threads /\ i \in Items
      BY <1>b
    <3> QED
      BY <1>f, <1>q, <3>1, <3>2
  <2>2. Queued(i) => starts[i] = 0 /\ \A u \in Threads : watch[u] # i
    BY <1>b, <1>f, <1>n, <1>z
  <2>3. i \in dropped => Queued(i)
    BY <1>f, <1>q DEF Homed
  <2>4. \A u \in Threads : watch'[u] = i => watch[u] = i /\ u # t
    BY <1>f, FinalFacts
  <2>5. i \notin dropped /\ watch[t] # i => receipt'[i] = receipt[i]
    BY <1>f, FinalFacts
  <2>6. \A u \in Threads : watch[u] = i /\ watch[t] = i => u = t
    BY <1>o DEF OnceAt
  <2>7. \A u \in Threads : watch'[u] = i => watch[u] = i /\ receipt'[i] = receipt[i]
    BY <2>2, <2>3, <2>4, <2>5, <2>6
  <2>8. receipt'[i] = receipt[i] \/ ~Queued(i)'
    BY <2>1, <2>2, <2>5
  <2> QED
    BY <1>f, <1>o, <2>1, <2>7, <2>8, OnceKeeps
<1>2. ASSUME NEW t \in Threads, SetupFails(t) \/ Stalls(t) PROVE OnceFits'
  <2>1. /\ Quiet /\ UNCHANGED <<queue, drain, starts, torn>> /\ receipt' = Final(t, FALSE) /\ Unwatch(t)
    BY <1>2, SettlementEdits
  <2> DEFINE dropped == {}
  <2>2. /\ dropped \in SUBSET ToSet(queue[t])
        /\ receipt' = [i \in Items |-> IF i \in dropped THEN "dropped" ELSE Final(t, FALSE)[i]]
        /\ \A u \in Threads : ToSet(queue'[u]) = IF u = t THEN ToSet(queue[u]) \ dropped ELSE ToSet(queue[u])
    BY <2>1 DEF Final
  <2> HIDE DEF dropped
  <2>3. FALSE \in BOOLEAN
    OBVIOUS
  <2> QED
    BY <1>f, <2>1, <2>2, <2>3
<1>3. ASSUME NEW t \in Threads, NEW ok \in BOOLEAN, NEW next \in TurnPhases, Completed(t, ok, next)
      PROVE  OnceFits'
  <2>0. PICK dropped : Ended(t, ok, dropped)
    BY <1>3, SettlementEdits
  <2>1. /\ dropped \in SUBSET ToSet(queue[t])
        /\ Quiet /\ UNCHANGED <<drain, starts, torn>> /\ Unwatch(t)
        /\ receipt' = [j \in Items |-> IF j \in dropped THEN "dropped" ELSE Final(t, ok)[j]]
        /\ \A u \in Threads : ToSet(queue'[u]) = IF u = t THEN ToSet(queue[u]) \ dropped ELSE ToSet(queue[u])
    BY <2>0 DEF Ended
  <2> QED
    BY <1>f, <2>1
<1>4. ASSUME Sweep PROVE OnceFits'
  <2>1. PICK due \in SUBSET born :
           /\ Quiet /\ UNCHANGED <<drain, starts, watch, torn>> /\ receipt' = Settled(due, "expired")
           /\ \A i \in due : Queued(i)
           /\ \A u \in Threads : ToSet(queue'[u]) = ToSet(queue[u]) \ due
    BY <1>4, SweepEdits
  <2> SUFFICES ASSUME NEW i \in Items \ torn PROVE OnceAt(i)'
    BY <2>1 DEF OnceFits
  <2>2. Queued(i)' => Queued(i) /\ i \notin due
    BY <1>b, <1>q, <2>1
  <2>3. i \in due => \A u \in Threads : watch[u] # i
    BY <1>b, <1>n, <1>z, <2>1
  <2>4. i \notin due => receipt'[i] = receipt[i]
    BY <2>1 DEF Settled
  <2> QED
    BY <1>o, <2>1, <2>2, <2>3, <2>4, OnceKeeps
<1>5. ASSUME NEW j \in Items, NEW approved \in BOOLEAN, Queue(j, approved) PROVE OnceFits'
  <2>1. /\ queue' = [queue EXCEPT ![From[j]] = Append(@, j)] /\ j \notin born
        /\ UNCHANGED <<drain, starts, receipt, watch, torn>>
    BY <1>5 DEF Queue, memory
  <2>2. \A u \in Threads : ToSet(queue'[u]) = ToSet(queue[u]) \cup (IF u = From[j] THEN {j} ELSE {})
    <3>1. \A s \in Seq(Items) : ToSet(Append(s, j)) = ToSet(s) \cup {j}
      BY AppendSet
    <3> QED
      BY <2>1, <3>1 DEF TypeOK
  <2> SUFFICES ASSUME NEW i \in Items \ torn PROVE OnceAt(i)'
    BY <2>1 DEF OnceFits
  <2>3. CASE i # j
    <3>1. Queued(i)' => Queued(i)
      BY <1>b, <1>q, <2>2, <2>3
    <3> QED
      BY <1>o, <2>1, <3>1, OnceKeeps
  <2>4. CASE i = j
    <3>1. starts[i] = 0 /\ receipt[i] = "none" /\ \A u \in Threads : watch[u] # i
      BY <1>b, <2>1, <2>4 DEF Homed
    <3> QED
      BY <2>1, <3>1 DEF OnceAt
  <2> QED
    BY <2>3, <2>4
<1>6. ASSUME NEW t \in Threads, DrainBegins(t) \/ DrainEnds(t) \/ Skip(t) \/ Ignore(t) PROVE OnceFits'
  <2>1. UNCHANGED <<queue, starts, receipt, watch, torn>>
    BY <1>6 DEF DrainBegins, DrainEnds, Skip, Ignore, durable, history
  <2>2. \A i \in Items : Queued(i)' => Queued(i)
    BY <1>q, <2>1
  <2>3. CASE drain' = drain
    <3> SUFFICES ASSUME NEW i \in Items \ torn PROVE OnceAt(i)'
      BY <2>1 DEF OnceFits
    <3> QED
      BY <1>o, <2>1, <2>2, <2>3, OnceKeeps
  <2>4. CASE drain' # drain
    <3>1. drain[t].await \notin {"settled", "dispatched"} /\ \A u \in Threads \ {t} : drain'[u] = drain[u]
      <4>1. ~Draining(t) => drain[t].await = "none"
        BY DEF Draining, NoDrain
      <4>2. CASE DrainBegins(t)
        BY <2>4, <4>1, <4>2, DrainEdits
      <4>3. CASE DrainEnds(t)
        BY <4>3, DrainEdits
      <4>4. CASE Skip(t)
        BY <4>4, DrainEdits
      <4>5. CASE Ignore(t)
        BY <4>5, DrainEdits
      <4> QED
        BY <1>6, <4>2, <4>3, <4>4, <4>5
    <3> QED
      BY <1>d, <2>1, <2>2, <3>1
  <2> QED
    BY <2>3, <2>4
<1>7. ASSUME NEW t \in Threads, NEW verdict \in {"allow", "deny"}, Answer(t, verdict) PROVE OnceFits'
  <2>1. UNCHANGED <<queue, starts, receipt, watch, torn>>
    BY <1>7 DEF Answer, durable, history
  <2>2. \A i \in Items : Queued(i)' => Queued(i)
    BY <1>q, <2>1
  <2>3. drain[t].await = "card" /\ \A u \in Threads \ {t} : drain'[u] = drain[u]
    BY <1>7, DrainEdits
  <2> QED
    BY <1>d, <2>1, <2>2, <2>3
<1>8. ASSUME NEW t \in Threads, NEW j \in Items, Drop(t, j) \/ Expire(t, j) \/ Deny(t, j) PROVE OnceFits'
  <2>1. PICK outcome \in Outcomes \ {"none"} : receipt' = Settled({j}, outcome)
    BY <1>8, HandleEdits
  <2>2. Handles(t, j) /\ Leaves(t, "settled") /\ UNCHANGED <<queue, starts, watch, torn>>
    BY <1>8, HandleEdits
  <2> SUFFICES ASSUME NEW i \in Items \ torn PROVE OnceAt(i)'
    BY <2>2 DEF OnceFits
  <2>3. Queued(i)' => Queued(i)
    BY <1>q, <2>2
  <2>4. CASE i # j
    <3>1. receipt'[i] = receipt[i]
      BY <1>b, <2>1, <2>4 DEF Settled
    <3>2. ~Acknowledging(i, {"settled", "dispatched"}) \/ drain'[From[i]] = drain[From[i]]
      BY <1>b, <2>2 DEF Acknowledging, Handles, Leaves
    <3> QED
      BY <1>o, <2>2, <2>3, <3>1, <3>2, OnceKeeps
  <2>5. CASE i = j
    <3>1. starts[i] = 0 /\ \A u \in Threads : watch[u] # i
      BY <1>n, <2>2, <2>5 DEF Handles
    <3>2. Acknowledging(i, {"settled", "dispatched"})'
      BY <2>2, <2>5 DEF Acknowledging, Handles, Leaves, Handling
    <3> QED
      BY <2>2, <3>1, <3>2 DEF OnceAt
  <2> QED
    BY <2>4, <2>5
<1>9. ASSUME NEW t \in Threads, NEW j \in Items, Park(t, j) \/ Ask(t, j) PROVE OnceFits'
  <2>1. /\ UNCHANGED <<queue, starts, receipt, watch, torn>> /\ Handles(t, j)
        /\ Leaves(t, "requeued") \/ Leaves(t, "card")
    BY <1>9, HandleEdits
  <2>2. \A i \in Items : Queued(i)' => Queued(i)
    BY <1>q, <2>1
  <2>3. drain[t].await \notin {"settled", "dispatched"} /\ \A u \in Threads \ {t} : drain'[u] = drain[u]
    BY <2>1 DEF Handles, Leaves
  <2> QED
    BY <1>d, <2>1, <2>2, <2>3
<1>10. ASSUME NEW t \in Threads, NEW j \in Items, NEW refused, Dispatch(t, j, refused) PROVE OnceFits'
  <2>1. PICK target \in Threads :
          /\ Handles(t, j) /\ Leaves(t, "dispatched") /\ UNCHANGED <<queue, torn>>
          /\ \/ /\ watch' = [watch EXCEPT ![target] = j]
                /\ starts' = [starts EXCEPT ![j] = @ + 1] /\ receipt' = receipt
             \/ /\ watch' = [watch EXCEPT ![target] = NoItem] /\ starts' = starts
                /\ receipt' = Settled({j}, "failed")
    BY <1>10, HandleEdits
  <2> SUFFICES ASSUME NEW i \in Items \ torn PROVE OnceAt(i)'
    BY <2>1 DEF OnceFits
  <2>2. Queued(i)' => Queued(i)
    BY <1>q, <2>1
  <2>3. CASE i # j
    <3>1. receipt'[i] = receipt[i] /\ starts'[i] = starts[i]
      BY <1>b, <2>1, <2>3 DEF Settled
    <3>2. ~Acknowledging(i, {"settled", "dispatched"}) \/ drain'[From[i]] = drain[From[i]]
      BY <1>b, <2>1 DEF Acknowledging, Handles, Leaves
    <3>3. \A u \in Threads : watch'[u] = i => watch[u] = i
      BY <1>b, <2>1, <2>3
    <3> QED
      BY <1>o, <2>2, <3>1, <3>2, <3>3, OnceKeeps
  <2>4. CASE i = j
    <3>1. starts[i] = 0 /\ receipt[i] = "none" /\ \A u \in Threads : watch[u] # i
      BY <1>n, <2>1, <2>4 DEF Handles
    <3>2. Acknowledging(i, {"dispatched"})' /\ Acknowledging(i, {"settled", "dispatched"})'
      BY <2>1, <2>4 DEF Acknowledging, Handles, Leaves, Handling
    <3>3. CASE /\ watch' = [watch EXCEPT ![target] = j]
               /\ starts' = [starts EXCEPT ![j] = @ + 1] /\ receipt' = receipt
      <4>1. starts'[i] = 1 /\ receipt'[i] = "none" /\ \A u \in Threads : watch'[u] = i => u = target
        BY <1>b, <2>4, <3>1, <3>3
      <4> QED
        BY <3>2, <4>1 DEF OnceAt
    <3>4. CASE watch' = [watch EXCEPT ![target] = NoItem] /\ starts' = starts
      <4>1. starts'[i] = 0 /\ \A u \in Threads : watch'[u] # i
        BY <1>b, <3>1, <3>4
      <4> QED
        BY <3>2, <4>1 DEF OnceAt
    <3> QED
      BY <2>1, <3>3, <3>4
  <2> QED
    BY <2>3, <2>4
<1>11. ASSUME NEW t \in Threads, Acknowledge(t) PROVE OnceFits'
  <2>1. UNCHANGED <<starts, receipt, watch, torn>>
    BY <1>11 DEF Acknowledge
  <2>2. /\ \A u \in Threads \ {t} : drain'[u] = drain[u]
        /\ \A u \in Threads : ToSet(queue'[u]) = IF u = t THEN ToSet(queue[u]) \ Removed(t) ELSE ToSet(queue[u])
        /\ Removed(t) = IF drain[t].await = "requeued" THEN {} ELSE {Handling(t)}
    BY <1>11, AckEdits
  <2> SUFFICES ASSUME NEW i \in Items \ torn PROVE OnceAt(i)'
    BY <2>1 DEF OnceFits
  <2>3. Queued(i)' => Queued(i) /\ (From[i] = t => i \notin Removed(t))
    <3> HIDE DEF Removed
    <3> QED
      BY <1>b, <1>q, <2>2
  <2>4. From[i] = t /\ i \notin Removed(t) => ~Acknowledging(i, {"settled", "dispatched"})
    BY <2>2 DEF Acknowledging
  <2>5. From[i] # t => drain'[From[i]] = drain[From[i]]
    BY <1>b, <2>2
  <2> QED
    BY <1>o, <2>1, <2>3, <2>4, <2>5, OnceKeeps
<1>12. ASSUME NEW t \in Threads, Release(t) PROVE OnceFits'
  <2>1. UNCHANGED <<queue, drain, starts, receipt, watch, torn>>
    BY <1>12 DEF Release, history
  <2> SUFFICES ASSUME NEW i \in Items \ torn PROVE OnceAt(i)'
    BY <2>1 DEF OnceFits
  <2>2. Queued(i)' => Queued(i)
    BY <1>q, <2>1
  <2> QED
    BY <1>o, <2>1, <2>2, OnceKeeps
<1>13. ASSUME Crash PROVE OnceFits'
  <2>1. /\ UNCHANGED <<queue, starts, receipt>> /\ \A u \in Threads : watch'[u] = NoItem
        /\ torn' = torn \cup {Handling(u) : u \in {v \in Threads : drain[v].await \in {"settled", "dispatched"}}}
    BY <1>13 DEF Crash
  <2> SUFFICES ASSUME NEW i \in Items \ torn' PROVE OnceAt(i)'
    BY DEF OnceFits
  <2>2. i \in Items \ torn /\ ~Acknowledging(i, {"settled", "dispatched"})
    BY <1>b, <2>1 DEF Acknowledging
  <2>3. Queued(i)' => Queued(i)
    BY <1>q, <2>1
  <2>4. \A u \in Threads : watch'[u] # i
    BY <1>b, <2>1
  <2> QED
    BY <1>o, <2>1, <2>2, <2>3, <2>4, OnceKeeps
<1>14. CASE World
  BY <1>1, <1>2, <1>3, <1>4, <1>5, <1>7, <1>14, IdleSteps DEF World
<1>15. CASE Loop
  BY <1>1, <1>6, <1>8, <1>9, <1>10, <1>11, <1>12, <1>15, IdleSteps DEF Loop
<1> QED
  BY <1>13, <1>14, <1>15 DEF Next

-----------------------------------------------------------------------------
(* A reply is credited to the handoff it belongs to. *)

\* What a wake does to turns, watches and the other drains.
LEMMA WakeEdits ==
    ASSUME NEW t \in Threads, NEW refused \in Refusals, Wake(t, refused) \/ WakeParked(t, refused)
    PROVE  watch' = watch /\ (UNCHANGED <<turn, work>> \/ (Admits(t) /\ Begin(t, NoItem)))
<1>1. WakeNow(t, refused) => UNCHANGED <<turn, work>> \/ Begin(t, NoItem)
  BY DEF WakeNow
<1>2. CASE Wake(t, refused)
  BY <1>1, <1>2 DEF Wake
<1>3. CASE WakeParked(t, refused)
  <2>1. Servable(t)
    BY <1>3 DEF WakeParked, FirstServable
  <2> QED
    BY <1>1, <1>3, <2>1 DEF WakeParked, Servable
<1> QED
  BY <1>2, <1>3

LEMMA ReplyStep ==
    ASSUME TypeOK, Homed, Carried, ReplyIsItsOwn, Next
    PROVE  ReplyIsItsOwn'
<1>b. /\ turn \in [Threads -> TurnPhases] /\ work \in [Threads -> Items \cup {NoItem}]
      /\ watch \in [Threads -> Items \cup {NoItem}] /\ NoItem \notin Items
  BY Constants DEF TypeOK
<1>s. ASSUME UNCHANGED <<turn, work, watch>> PROVE ReplyIsItsOwn'
  BY <1>s DEF ReplyIsItsOwn
<1>u. ASSUME NEW t \in Threads, \A u \in Threads \ {t} : turn'[u] = turn[u] /\ work'[u] = work[u] /\ watch'[u] = watch[u],
             watch'[t] = NoItem
      PROVE  ReplyIsItsOwn'
  BY <1>u DEF ReplyIsItsOwn
<1>n. ASSUME NEW t \in Threads, turn[t] \notin {"setup", "working"}, UNCHANGED watch,
             \A u \in Threads \ {t} : turn'[u] = turn[u] /\ work'[u] = work[u]
      PROVE  ReplyIsItsOwn'
  BY <1>n DEF ReplyIsItsOwn
<1>g. \A t \in Threads, i \in Items \cup {NoItem} : Begin(t, i) =>
         /\ turn'[t] = "setup" /\ work'[t] = i
         /\ \A u \in Threads \ {t} : turn'[u] = turn[u] /\ work'[u] = work[u]
  BY <1>b DEF Begin
<1>a. \A t \in Threads : Admits(t) => turn[t] = "idle"
  BY DEF Admits
<1>1. ASSUME NEW t \in Threads, PersonStarts(t) PROVE ReplyIsItsOwn'
  <2>1. Begin(t, NoItem) /\ turn[t] = "idle" /\ watch' = watch
    BY <1>1, <1>a DEF PersonStarts
  <2> QED
    BY <1>g, <1>n, <2>1
<1>2. ASSUME NEW t \in Threads, Acknowledged(t) PROVE ReplyIsItsOwn'
  <2>1. UNCHANGED <<work, watch>>
    BY <1>2 DEF Acknowledged
  <2>2. CASE turn[t] = "setup"
    <3>1. turn' = [turn EXCEPT ![t] = "working"]
      BY <1>2, <2>2 DEF Acknowledged
    <3> QED
      BY <1>b, <2>1, <3>1 DEF ReplyIsItsOwn
  <2>3. CASE turn[t] = "early"
    <3>1. turn' = [turn EXCEPT ![t] = "idle"]
      BY <1>2, <2>3 DEF Acknowledged
    <3> QED
      BY <1>b, <1>n, <2>1, <2>3, <3>1
  <2> QED
    BY <1>2, <2>2, <2>3 DEF Acknowledged
<1>3. ASSUME NEW t \in Threads,
             SetupFails(t) \/ Stalls(t) \/ \E ok \in BOOLEAN, next \in TurnPhases : Completed(t, ok, next)
      PROVE  ReplyIsItsOwn'
  <2>1. PICK next : Unwatch(t) /\ work' = work /\ turn' = [turn EXCEPT ![t] = next]
    BY <1>3 DEF SetupFails, Stalls, Completed
  <2> QED
    BY <1>b, <1>u, <2>1 DEF Unwatch
<1>4. ASSUME NEW t \in Threads, Released(t) PROVE ReplyIsItsOwn'
  <2>1. turn[t] \in {"settling", "stalled"} /\ turn' = [turn EXCEPT ![t] = "idle"] /\ UNCHANGED <<work, watch>>
    BY <1>4 DEF Released
  <2> QED
    BY <1>b, <1>n, <2>1
<1>5. ASSUME NEW t \in Threads, WindowPasses(t) \/ Delete(t) \/ Open(t) PROVE ReplyIsItsOwn'
  BY <1>5, <1>s DEF WindowPasses, Delete, Open, memory
<1>6. ASSUME NEW i \in Items, NEW approved \in BOOLEAN, Age(i) \/ Bar(i) \/ Queue(i, approved)
      PROVE  ReplyIsItsOwn'
  BY <1>6, <1>s DEF Age, Bar, Queue, memory
<1>7. ASSUME NEW t \in Threads, NEW verdict \in {"allow", "deny"}, Answer(t, verdict) PROVE ReplyIsItsOwn'
  BY <1>7, <1>s DEF Answer
<1>8. ASSUME NEW t \in Threads, \/ DrainBegins(t) \/ DrainEnds(t) \/ Skip(t) \/ Ignore(t)
                                \/ Acknowledge(t) \/ Retry(t) \/ Release(t)
      PROVE  ReplyIsItsOwn'
  <2>1. UNCHANGED <<turn, work, watch>>
    BY <1>8 DEF DrainBegins, DrainEnds, Skip, Ignore, Acknowledge, Retry, Release
  <2> QED
    BY <1>s, <2>1
<1>9. ASSUME NEW t \in Threads, NEW i \in Items,
             Drop(t, i) \/ Expire(t, i) \/ Deny(t, i) \/ Park(t, i) \/ Ask(t, i)
      PROVE  ReplyIsItsOwn'
  <2>1. UNCHANGED <<turn, work, watch>>
    BY <1>9, HandleEdits
  <2> QED
    BY <1>s, <2>1
<1>10. ASSUME NEW t \in Threads, NEW i \in Items, NEW refused, Dispatch(t, i, refused) PROVE ReplyIsItsOwn'
  <2>1. PICK target \in Threads :
          \/ /\ watch' = [watch EXCEPT ![target] = i] /\ Begin(target, i)
          \/ /\ watch' = [watch EXCEPT ![target] = NoItem] /\ UNCHANGED <<turn, work>>
    BY <1>10, HandleEdits
  <2>2. CASE watch' = [watch EXCEPT ![target] = i] /\ Begin(target, i)
    BY <1>b, <1>g, <2>2 DEF ReplyIsItsOwn
  <2>3. CASE watch' = [watch EXCEPT ![target] = NoItem] /\ UNCHANGED <<turn, work>>
    BY <1>b, <1>u, <2>3
  <2> QED
    BY <2>1, <2>2, <2>3
<1>11. ASSUME NEW t \in Threads, NEW refused \in Refusals, Wake(t, refused) \/ WakeParked(t, refused)
       PROVE  ReplyIsItsOwn'
  <2>1. watch' = watch /\ (UNCHANGED <<turn, work>> \/ (Admits(t) /\ Begin(t, NoItem)))
    BY <1>11, WakeEdits
  <2>2. CASE UNCHANGED <<turn, work>>
    BY <1>s, <2>1, <2>2
  <2>3. CASE Admits(t) /\ Begin(t, NoItem)
    BY <1>a, <1>g, <1>n, <2>1, <2>3
  <2> QED
    BY <2>1, <2>2, <2>3
<1>12. ASSUME Crash PROVE ReplyIsItsOwn'
  BY <1>12 DEF Crash, ReplyIsItsOwn
<1>13. CASE World
  <2>1. Sweep => ReplyIsItsOwn'
    BY <1>s DEF Sweep
  <2> QED
    BY <1>1, <1>2, <1>3, <1>4, <1>5, <1>6, <1>7, <1>13, <2>1 DEF World
<1>14. CASE Loop
  <2>1. WakesDone => ReplyIsItsOwn'
    BY <1>s DEF WakesDone
  <2> QED
    BY <1>8, <1>9, <1>10, <1>11, <1>14, <2>1 DEF Loop
<1> QED
  BY <1>12, <1>13, <1>14 DEF Next

-----------------------------------------------------------------------------
(* What the loop still has to do is not forgotten. *)

\* Only the job j is gone.
Drops(j) == \A x \in ToSet(jobs) : x = j \/ x \in ToSet(jobs')
\* Whoever learnt of an outcome in this step is about to be woken.
TellsNew == \A u \in unseen' : u \in unseen \/ Job("wake", u) \in ToSet(jobs')

LEMMA RunsOne ==
    ASSUME TypeOK, NEW j, Running(j)
    PROVE  /\ \A first \in Seq(Jobs) : Sync(first) => Drops(j) /\ ToSet(first) \subseteq ToSet(jobs')
           /\ \A x \in Jobs : Async(x) => Drops(j)
<1>1. jobs \in Seq(Jobs) /\ jobs # <<>> /\ ToSet(jobs) = {j} \cup ToSet(Tail(jobs))
  BY Taken DEF TypeOK
<1>2. \A first \in Seq(Jobs) : Sync(first) => ToSet(jobs') = ToSet(first) \cup ToSet(Tail(jobs))
  BY <1>1, SyncJobs
<1>3. \A x \in Jobs : Async(x) => ToSet(jobs') = {x} \cup ToSet(Tail(jobs))
  BY <1>1, AsyncJobs
<1> QED
  BY <1>1, <1>2, <1>3 DEF Drops

LEMMA DrainJobs ==
    ASSUME TypeOK, Homed, Carried, NEW t \in Threads
    PROVE  /\ DrainBegins(t) => Drops(Job("drain", t))
           /\ DrainEnds(t) => Drops(Job("item", t)) /\ (t \in redrain => Job("drain", t) \in ToSet(jobs'))
           /\ Ignore(t) => Drops(Job("answered", t))
           /\ Acknowledge(t) => Drops(Job("ack", t)) /\ TellsNew
           /\ Retry(t) => /\ Drops(Job("retry", t))
                          /\ Job("wakes", t) \in ToSet(jobs') /\ Job("release", t) \in ToSet(jobs')
           /\ \A refused : Wake(t, refused) => Drops(Job("wake", t))
           /\ WakesDone => \E u \in Threads : Drops(Job("wakes", u))
<1>j. \A do \in {"drain", "item", "answered", "ack", "retry", "release", "wake", "wakes"} :
          Job(do, t) \in Jobs /\ <<Job(do, t)>> \in Seq(Jobs) /\ ToSet(<<Job(do, t)>>) = {Job(do, t)}
  BY JobType, SingleSet
<1>e. <<>> \in Seq(Jobs)
  OBVIOUS
<1>1. DrainBegins(t) => Drops(Job("drain", t))
  <2> SUFFICES ASSUME DrainBegins(t) PROVE Drops(Job("drain", t))
    OBVIOUS
  <2>1. Running(Job("drain", t)) /\ (Sync(<<>>) \/ Sync(<<Job("item", t)>>))
    BY DEF DrainBegins
  <2> QED
    BY <1>j, <1>e, <2>1, RunsOne
<1>2. DrainEnds(t) => Drops(Job("item", t)) /\ (t \in redrain => Job("drain", t) \in ToSet(jobs'))
  <2> SUFFICES ASSUME DrainEnds(t)
               PROVE  Drops(Job("item", t)) /\ (t \in redrain => Job("drain", t) \in ToSet(jobs'))
    OBVIOUS
  <2>1. /\ Running(Job("item", t)) /\ (Sync(<<>>) \/ Sync(<<Job("drain", t)>>))
        /\ t \in redrain => Sync(<<Job("drain", t)>>)
    BY DEF DrainEnds
  <2> QED
    BY <1>j, <1>e, <2>1, RunsOne
<1>3. Ignore(t) => Drops(Job("answered", t))
  BY <1>j, RunsOne DEF Ignore
<1>4. Acknowledge(t) => Drops(Job("ack", t)) /\ TellsNew
  <2> SUFFICES ASSUME Acknowledge(t) PROVE Drops(Job("ack", t)) /\ TellsNew
    OBVIOUS
  <2>1. PICK first \in Seq(Jobs) : /\ Sync(first)
                                   /\ \A u \in unseen' : u \in unseen \/ Job("wake", u) \in ToSet(first)
    BY AckJobs
  <2>2. Running(Job("ack", t))
    BY DEF Acknowledge
  <2> QED
    BY <2>1, <2>2, RunsOne DEF TellsNew
<1>5. Retry(t) => /\ Drops(Job("retry", t))
                  /\ Job("wakes", t) \in ToSet(jobs') /\ Job("release", t) \in ToSet(jobs')
  <2> SUFFICES ASSUME Retry(t)
               PROVE  /\ Drops(Job("retry", t))
                      /\ Job("wakes", t) \in ToSet(jobs') /\ Job("release", t) \in ToSet(jobs')
    OBVIOUS
  <2>1. Running(Job("retry", t)) /\ Sync(<<Job("wakes", t), Job("release", t)>>)
    BY DEF Retry
  <2>2. /\ <<Job("wakes", t), Job("release", t)>> \in Seq(Jobs)
        /\ ToSet(<<Job("wakes", t), Job("release", t)>>) = {Job("wakes", t), Job("release", t)}
    BY <1>j, PairSet
  <2> QED
    BY <2>1, <2>2, RunsOne
<1>6. \A refused : Wake(t, refused) => Drops(Job("wake", t))
  BY <1>e, RunsOne DEF Wake
<1>7. WakesDone => \E u \in Threads : Drops(Job("wakes", u))
  <2> SUFFICES ASSUME WakesDone PROVE \E u \in Threads : Drops(Job("wakes", u))
    OBVIOUS
  <2>1. Running(Head(jobs)) /\ Head(jobs).do = "wakes" /\ Sync(<<>>) /\ Head(jobs) \in Jobs
    BY HeadAndTail DEF WakesDone, Running, Quiet, TypeOK
  <2>2. Head(jobs) = Job("wakes", Head(jobs).thread) /\ Head(jobs).thread \in Threads
    BY <2>1 DEF Jobs, Job
  <2> QED
    BY <1>e, <2>1, <2>2, RunsOne
<1> QED
  BY <1>1, <1>2, <1>3, <1>4, <1>5, <1>6, <1>7

LEMMA HandleJobs ==
    ASSUME TypeOK, Homed, Carried, NEW t \in Threads, NEW i \in Items
    PROVE  /\ Drop(t, i) \/ Expire(t, i) \/ Deny(t, i) \/ Park(t, i) \/ Ask(t, i) =>
                \E c \in Carriers : Drops(Job(c, t))
           /\ \A refused \in Refusals : Dispatch(t, i, refused) => TellsNew /\ \E c \in Carriers : Drops(Job(c, t))
<1>j. Job("ack", t) \in Jobs /\ <<>> \in Seq(Jobs)
  BY JobType
<1>1. ASSUME Looks(t) \/ Running(Job("answered", t)) PROVE \E c \in Carriers : Running(Job(c, t))
  BY <1>1 DEF Looks, Carriers
<1>2. Examined(t, i) => Looks(t) \/ Running(Job("answered", t))
  BY DEF Examined, Allowed
<1>3. ASSUME Drop(t, i) \/ Expire(t, i) \/ Deny(t, i) PROVE \E c \in Carriers : Drops(Job(c, t))
  <2>1. Async(Job("ack", t)) /\ (Looks(t) \/ Running(Job("answered", t)))
    BY <1>2, <1>3 DEF Drop, Expire, Deny, Refuse
  <2> QED
    BY <1>1, <1>j, <2>1, RunsOne
<1>4. ASSUME Park(t, i) PROVE \E c \in Carriers : Drops(Job(c, t))
  BY <1>1, <1>2, <1>4, <1>j, RunsOne DEF Park
<1>5. ASSUME Ask(t, i) PROVE \E c \in Carriers : Drops(Job(c, t))
  BY <1>1, <1>2, <1>5, <1>j, RunsOne DEF Ask
<1>6. ASSUME NEW refused \in Refusals, Dispatch(t, i, refused)
      PROVE  TellsNew /\ \E c \in Carriers : Drops(Job(c, t))
  <2>1. PICK c \in Carriers : Running(Job(c, t))
    BY <1>1, <1>2, <1>6 DEF Dispatch
  <2>2. CASE Admits(Target(i)) /\ ~refused
    <3>1. Async(Job("ack", t)) /\ unseen' \subseteq unseen
      BY <1>6, <2>2 DEF Dispatch
    <3> QED
      BY <1>j, <2>1, <3>1, RunsOne DEF TellsNew
  <2>3. CASE ~(Admits(Target(i)) /\ ~refused)
    <3>1. jobs' = Append(Tell(i) \o Tail(jobs), Job("ack", t)) /\ unseen' = Told({i})
      BY <1>6, <2>3 DEF Dispatch
    <3>2. /\ Tell(i) \in Seq(Jobs)
          /\ ToSet(Tell(i)) = IF From[i] \in gone THEN {} ELSE {Job("wake", From[i])}
      BY TellFacts
    <3>3. Tail(jobs) \in Seq(Jobs) /\ ToSet(jobs) = {Job(c, t)} \cup ToSet(Tail(jobs))
      BY <2>1, Taken DEF TypeOK
    <3>4. Tell(i) \o Tail(jobs) \in Seq(Jobs) /\ ToSet(Tell(i) \o Tail(jobs)) = ToSet(Tell(i)) \cup ToSet(Tail(jobs))
      <4>1. \A a, b \in Seq(Jobs) : a \o b \in Seq(Jobs) /\ ToSet(a \o b) = ToSet(a) \cup ToSet(b)
        BY ConcatSet
      <4> QED
        BY <3>2, <3>3, <4>1
    <3>5. ToSet(jobs') = ToSet(Tell(i)) \cup ToSet(Tail(jobs)) \cup {Job("ack", t)}
      <4>1. \A a \in Seq(Jobs), x \in Jobs : ToSet(Append(a, x)) = ToSet(a) \cup {x}
        BY AppendSet
      <4> QED
        BY <1>j, <3>1, <3>4, <4>1
    <3>6. TellsNew
      BY <3>1, <3>2, <3>5 DEF TellsNew, Told
    <3>7. Drops(Job(c, t))
      BY <3>3, <3>5 DEF Drops
    <3> QED
      BY <3>6, <3>7
  <2> QED
    BY <2>2, <2>3
<1> QED
  BY <1>3, <1>4, <1>5, <1>6

\* A release drains the sources of what it lets go; what it leaves parked
\* cannot be taken by the bot.
LEMMA ReleaseEdits ==
    ASSUME TypeOK, NEW t \in Threads, Release(t)
    PROVE  /\ Drops(Job("release", t)) /\ parked' \subseteq parked
           /\ \A i \in parked' : Owner[To[i]] = Owner[t] => ~CanTake(i)
<1> DEFINE b == Owner[t]
           freed == IF Busy(b) /\ AtCapacity(b) THEN {}
                    ELSE {i \in parked : Owner[To[i]] = b /\ (Busy(b) => i \in Fresh)}
<1>1. /\ Running(Job("release", t)) /\ parked' = parked \ freed
      /\ \E order \in SetToSeqs({From[i] : i \in freed}) : Sync([k \in DOMAIN order |-> Job("drain", order[k])])
  BY DEF Release
<1>2. \A i \in parked \ freed : Owner[To[i]] = b => ~CanTake(i)
  BY DEF CanTake
<1>3. freed \subseteq Items
  BY DEF TypeOK
<1> HIDE DEF freed
<1>4. {From[i] : i \in freed} \subseteq Threads
  BY <1>3, Constants
<1>5. PICK order \in SetToSeqs({From[i] : i \in freed}) : Sync([k \in DOMAIN order |-> Job("drain", order[k])])
  BY <1>1
<1>6. [k \in DOMAIN order |-> Job("drain", order[k])] \in Seq(Jobs)
  BY <1>4, OrderedJobs
<1>7. Drops(Job("release", t))
  BY <1>1, <1>5, <1>6, RunsOne
<1> QED
  BY <1>1, <1>2, <1>7

\* The turns of a bot only rise.
BusyPhases == {"setup", "working", "settling", "stalled"}
Holds(b) ==
    \A u \in Threads : Owner[u] = b => /\ turn'[u] = "idle" => turn[u] = "idle"
                                       /\ turn[u] \in BusyPhases => turn'[u] \in BusyPhases

LEMMA Holding ==
    ASSUME TypeOK, TypeOK', NEW b \in Bots, Holds(b)
    PROVE  /\ AtCapacity(b) => AtCapacity(b)'
           /\ Busy(b) => Busy(b)'
           /\ \A i \in Items : Owner[To[i]] = b /\ CanTake(i)' => CanTake(i)
           /\ \A t \in Threads : Owner[t] = b /\ Admits(t)' => turn[t] = "idle" /\ ~AtCapacity(b) /\ t \notin gone'
<1> DEFINE S == {t \in Threads : Owner[t] = b /\ turn[t] # "idle"}
           T == {t \in Threads : Owner[t] = b /\ turn'[t] # "idle"}
<1>1. AtCapacity(b) => AtCapacity(b)'
  <2>1. S \subseteq T /\ T \subseteq Threads
    BY DEF Holds
  <2>2. IsFiniteSet(T)
    BY <2>1, Constants, FS_Subset
  <2>3. IsFiniteSet(S) /\ Cardinality(S) <= Cardinality(T)
    BY <2>1, <2>2, FS_Subset
  <2>4. Cardinality(S) \in Nat /\ Cardinality(T) \in Nat
    BY <2>2, <2>3, FS_CardinalityType
  <2>5. (AtCapacity(b) <=> Cardinality(S) >= Capacity) /\ (AtCapacity(b)' <=> Cardinality(T) >= Capacity)
    BY DEF AtCapacity
  <2> HIDE DEF S, T
  <2> QED
    BY <2>3, <2>4, <2>5, Constants
<1>2. Busy(b) => Busy(b)'
  BY DEF Busy, Holds, BusyPhases
<1>3. \A i \in Items : Owner[To[i]] = b /\ CanTake(i)' => CanTake(i)
  BY <1>1, <1>2 DEF CanTake
<1>4. \A t \in Threads : Owner[t] = b /\ Admits(t)' => turn[t] = "idle" /\ ~AtCapacity(b) /\ t \notin gone'
  BY <1>1 DEF Admits, Holds
<1> QED
  BY <1>1, <1>2, <1>3, <1>4

\* A turn that falls back leaves a retry for its bot.
Retries(b) == \E u \in Threads : Owner[u] = b /\ Job("retry", u) \in ToSet(jobs')

LEMMA TurnsRise ==
    ASSUME TypeOK, Homed, Carried, World \/ Loop, NEW b \in Bots
    PROVE  Holds(b) \/ Retries(b)
<1>b. turn \in [Threads -> TurnPhases]
  BY DEF TypeOK
<1>s. ASSUME UNCHANGED turn PROVE Holds(b)
  BY <1>s DEF Holds
<1>g. ASSUME NEW t \in Threads, NEW i, Begin(t, i), turn[t] = "idle" PROVE Holds(b)
  BY <1>b, <1>g DEF Begin, Holds, BusyPhases
<1>f. ASSUME NEW t \in Threads, Retries(Owner[t]), NEW next, turn' = [turn EXCEPT ![t] = next]
      PROVE  Holds(b) \/ Retries(b)
  <2>1. CASE Owner[t] = b
    BY <1>f, <2>1
  <2>2. CASE Owner[t] # b
    BY <1>b, <1>f, <2>2 DEF Holds
  <2> QED
    BY <2>1, <2>2
<1>1. ASSUME NEW t \in Threads, PersonStarts(t) PROVE Holds(b)
  BY <1>1, <1>g DEF PersonStarts, Admits
<1>2. ASSUME NEW t \in Threads, Acknowledged(t) PROVE Holds(b) \/ Retries(b)
  <2>1. CASE turn[t] = "setup"
    <3>1. turn' = [turn EXCEPT ![t] = "working"]
      BY <1>2, <2>1 DEF Acknowledged
    <3> QED
      BY <1>b, <2>1, <3>1 DEF Holds, BusyPhases
  <2>2. CASE turn[t] = "early"
    <3>1. turn' = [turn EXCEPT ![t] = "idle"] /\ jobs' = <<Job("wakes", t), Job("retry", t)>>
      BY <1>2, <2>2 DEF Acknowledged
    <3>2. Retries(Owner[t])
      BY <3>1, PairSet DEF Retries
    <3> QED
      BY <1>f, <3>1, <3>2
  <2> QED
    BY <1>2, <2>1, <2>2 DEF Acknowledged
<1>3. ASSUME NEW t \in Threads, SetupFails(t) PROVE Holds(b) \/ Retries(b)
  <2>1. Retries(Owner[t])
    BY <1>3, EndJobs DEF Retries
  <2>2. turn' = [turn EXCEPT ![t] = "idle"]
    BY <1>3 DEF SetupFails
  <2> QED
    BY <1>f, <2>1, <2>2
<1>4. ASSUME NEW t \in Threads, Stalls(t) PROVE Holds(b)
  <2>1. turn' = [turn EXCEPT ![t] = "stalled"] /\ turn[t] = "working"
    BY <1>4 DEF Stalls
  <2> QED
    BY <1>b, <2>1 DEF Holds, BusyPhases
<1>5. ASSUME NEW t \in Threads, Released(t) PROVE Holds(b) \/ Retries(b)
  <2>1. Retries(Owner[t])
    BY <1>5, EndJobs DEF Retries
  <2>2. turn' = [turn EXCEPT ![t] = "idle"]
    BY <1>5 DEF Released
  <2> QED
    BY <1>f, <2>1, <2>2
<1>6. ASSUME NEW t \in Threads, NEW ok \in BOOLEAN, NEW next \in TurnPhases, Completed(t, ok, next)
      PROVE  Holds(b) \/ Retries(b)
  <2>1. Retries(Owner[t])
    BY <1>6, EndJobs DEF Retries
  <2>2. turn' = [turn EXCEPT ![t] = next]
    BY <1>6 DEF Completed
  <2> QED
    BY <1>f, <2>1, <2>2
<1>7. ASSUME NEW t \in Threads, WindowPasses(t) \/ Delete(t) \/ Open(t) PROVE Holds(b)
  BY <1>7, <1>s DEF WindowPasses, Delete, Open, memory
<1>8. ASSUME NEW i \in Items, NEW approved \in BOOLEAN, Age(i) \/ Bar(i) \/ Queue(i, approved)
      PROVE  Holds(b)
  BY <1>8, <1>s DEF Age, Bar, Queue, memory
<1>9. ASSUME NEW t \in Threads, NEW verdict \in {"allow", "deny"}, Answer(t, verdict) PROVE Holds(b)
  BY <1>9, <1>s DEF Answer
<1>10. ASSUME NEW t \in Threads, \/ DrainBegins(t) \/ DrainEnds(t) \/ Skip(t) \/ Ignore(t)
                                 \/ Acknowledge(t) \/ Retry(t) \/ Release(t)
       PROVE  Holds(b)
  <2>1. UNCHANGED turn
    BY <1>10 DEF DrainBegins, DrainEnds, Skip, Ignore, Acknowledge, Retry, Release
  <2> QED
    BY <1>s, <2>1
<1>11. ASSUME NEW t \in Threads, NEW i \in Items,
              Drop(t, i) \/ Expire(t, i) \/ Deny(t, i) \/ Park(t, i) \/ Ask(t, i)
       PROVE  Holds(b)
  <2>1. UNCHANGED turn
    BY <1>11, HandleEdits
  <2> QED
    BY <1>s, <2>1
<1>12. ASSUME NEW t \in Threads, NEW i \in Items, NEW refused, Dispatch(t, i, refused) PROVE Holds(b)
  <2>1. PICK target \in Threads : (Begin(target, i) /\ Admits(target)) \/ UNCHANGED turn
    BY <1>12, HandleEdits
  <2> QED
    BY <1>g, <1>s, <2>1 DEF Admits
<1>13. ASSUME NEW t \in Threads, NEW refused \in Refusals, Wake(t, refused) \/ WakeParked(t, refused)
       PROVE  Holds(b)
  <2>1. UNCHANGED <<turn, work>> \/ (Admits(t) /\ Begin(t, NoItem))
    BY <1>13, WakeEdits
  <2> QED
    BY <1>g, <1>s, <2>1 DEF Admits
<1>14. Sweep \/ WakesDone => Holds(b)
  BY <1>s DEF Sweep, WakesDone
<1>15. CASE World
  BY <1>1, <1>2, <1>3, <1>4, <1>5, <1>6, <1>7, <1>8, <1>9, <1>14, <1>15 DEF World
<1>16. CASE Loop
  BY <1>10, <1>11, <1>12, <1>13, <1>14, <1>16 DEF Loop
<1> QED
  BY <1>15, <1>16

-----------------------------------------------------------------------------
(* No wake is forgotten. *)

LEMMA WakesStep ==
    ASSUME TypeOK, TypeOK', Homed, Carried, WakesFit, Next
    PROVE  WakesFit'
<1>b. Owner \in [Threads -> Bots] /\ ToSet(wakes) \subseteq Threads /\ unseen \subseteq Threads
  BY Constants DEF TypeOK, ToSet
<1>q. Quiet => \A c, u : ~Pending(c, u)
  BY EmptySet DEF Pending, Quiet
<1>p. \A c, u : (Pending(c, u) <=> Job(c, u) \in ToSet(jobs)) /\ (Pending(c, u)' <=> Job(c, u) \in ToSet(jobs'))
  BY DEF Pending
<1>r. \A bot : Retries(bot) => Serving'
  BY DEF Retries, Serving, Pending
<1>a. ASSUME World \/ Loop, gone \subseteq gone', NEW t \in Threads, Admits(t)'
      PROVE  Admits(t) \/ Serving'
  <2>1. CASE Holds(Owner[t])
    <3>1. turn[t] = "idle" /\ ~AtCapacity(Owner[t]) /\ t \notin gone'
      BY <1>a, <1>b, <2>1, Holding
    <3> QED
      BY <1>a, <3>1 DEF Admits
  <2>2. CASE Retries(Owner[t])
    BY <1>r, <2>2
  <2> QED
    BY <1>a, <1>b, <2>1, <2>2, TurnsRise
<1>f. ASSUME \A u \in unseen' : u \in ToSet(wakes') \/ u \in gone' \/ Job("wake", u) \in ToSet(jobs'),
             \A t \in ToSet(wakes') : Admits(t)' => Serving'
      PROVE  WakesFit'
  BY <1>f, <1>p DEF WakesFit
\* A step that finds the loop at rest.
<1>w. ASSUME World, Quiet, UNCHANGED wakes, gone \subseteq gone', TellsNew PROVE WakesFit'
  <2>1. \A t \in ToSet(wakes) : Admits(t) => FALSE
    BY <1>q, <1>w DEF WakesFit, Serving
  <2>2. \A t \in ToSet(wakes') : Admits(t)' => Serving'
    BY <1>a, <1>b, <1>w, <2>1
  <2>3. \A u \in unseen' : u \in ToSet(wakes') \/ u \in gone' \/ Job("wake", u) \in ToSet(jobs')
    BY <1>q, <1>w DEF WakesFit, TellsNew
  <2> QED
    BY <1>f, <2>2, <2>3
\* A job that has to do with no wake.
<1>l. ASSUME Loop, UNCHANGED <<wakes, gone>>, TellsNew, NEW j, Drops(j), j.do \notin {"wake", "wakes", "retry"}
      PROVE  WakesFit'
  <2>1. \A c \in {"wake", "wakes", "retry"} : \A u : Pending(c, u) => Pending(c, u)'
    BY <1>l, <1>p, SameJob DEF Drops
  <2>2. Serving => Serving'
    BY <2>1 DEF Serving
  <2>3. \A t \in ToSet(wakes') : Admits(t)' => Serving'
    BY <1>a, <1>b, <1>l, <2>2 DEF WakesFit
  <2>4. \A u \in unseen' : u \in ToSet(wakes') \/ u \in gone' \/ Job("wake", u) \in ToSet(jobs')
    BY <1>l, <1>p, <2>1 DEF WakesFit, TellsNew
  <2> QED
    BY <1>f, <2>3, <2>4
<1>t. ASSUME NEW t \in Threads, unseen' = Told(Watched(t)), ToSet(FinalJobs(t)) \subseteq ToSet(jobs')
      PROVE  TellsNew
  <2>1. \A i \in Watched(t) : From[i] \notin gone => Job("wake", From[i]) \in ToSet(FinalJobs(t))
    BY WatchFacts
  <2> QED
    BY <1>t, <2>1 DEF TellsNew, Told
<1>s. unseen' \subseteq unseen => TellsNew
  BY DEF TellsNew
<1>1. ASSUME NEW t \in Threads, PersonStarts(t) \/ Acknowledged(t) \/ Released(t) \/ WindowPasses(t)
                                \/ Delete(t) \/ Open(t) PROVE WakesFit'
  <2>1. Quiet /\ UNCHANGED wakes /\ gone \subseteq gone' /\ unseen' \subseteq unseen
    <3>1. CASE PersonStarts(t)
      BY <3>1 DEF PersonStarts, durable
    <3>2. CASE Acknowledged(t)
      BY <3>2 DEF Acknowledged, durable, history
    <3>3. CASE Released(t) \/ WindowPasses(t)
      BY <3>3 DEF Released, WindowPasses, durable, history
    <3>4. CASE Delete(t) \/ Open(t)
      BY <3>4 DEF Delete, Open, memory, history
    <3> QED
      BY <1>1, <3>1, <3>2, <3>3, <3>4
  <2>2. World
    BY <1>1 DEF World
  <2> QED
    BY <1>s, <1>w, <2>1, <2>2
<1>2. ASSUME NEW t \in Threads, SetupFails(t) \/ Stalls(t) PROVE WakesFit'
  <2>1. Quiet /\ UNCHANGED <<wakes, gone>> /\ unseen' = Told(Watched(t))
    BY <1>2 DEF SetupFails, Stalls
  <2>2. ToSet(FinalJobs(t)) \subseteq ToSet(jobs')
    <3>1. CASE SetupFails(t)
      BY <3>1, EndJobs
    <3>2. CASE Stalls(t)
      BY <3>2 DEF Stalls
    <3> QED
      BY <1>2, <3>1, <3>2
  <2>3. World
    BY <1>2 DEF World
  <2> QED
    BY <1>t, <1>w, <2>1, <2>2, <2>3
<1>3. ASSUME NEW t \in Threads, NEW ok \in BOOLEAN, NEW next \in TurnPhases, Completed(t, ok, next)
      PROVE  WakesFit'
  <2>1. Quiet /\ UNCHANGED <<wakes, gone>> /\ unseen' = Told(Watched(t))
    BY <1>3 DEF Completed
  <2>2. ToSet(FinalJobs(t)) \subseteq ToSet(jobs')
    BY <1>3, EndJobs
  <2>3. World
    BY <1>3 DEF World
  <2> QED
    BY <1>t, <1>w, <2>1, <2>2, <2>3
<1>4. ASSUME Sweep PROVE WakesFit'
  <2>1. PICK due : /\ Quiet /\ UNCHANGED <<wakes, gone>> /\ unseen' = Told(due)
                   /\ \A i \in due : From[i] \notin gone => Job("wake", From[i]) \in ToSet(jobs')
    BY <1>4, SweepEdits
  <2>2. TellsNew
    BY <2>1 DEF TellsNew, Told
  <2>3. World
    BY <1>4 DEF World
  <2> QED
    BY <1>w, <2>1, <2>2, <2>3
<1>5. ASSUME NEW i \in Items, NEW approved \in BOOLEAN, Age(i) \/ Bar(i) \/ Queue(i, approved) PROVE WakesFit'
  <2>1. Quiet /\ UNCHANGED <<wakes, gone, unseen>>
    BY <1>5 DEF Age, Bar, Queue, memory, history
  <2>2. World
    BY <1>5 DEF World
  <2> QED
    BY <1>s, <1>w, <2>1, <2>2
<1>6. ASSUME NEW t \in Threads, NEW verdict \in {"allow", "deny"}, Answer(t, verdict) PROVE WakesFit'
  <2>1. Quiet /\ UNCHANGED <<wakes, gone, unseen>>
    BY <1>6 DEF Answer, durable, history
  <2>2. World
    BY <1>6 DEF World
  <2> QED
    BY <1>s, <1>w, <2>1, <2>2
<1>7. ASSUME NEW t \in Threads, DrainBegins(t) \/ DrainEnds(t) \/ Skip(t) \/ Ignore(t) \/ Acknowledge(t) \/ Release(t)
      PROVE  WakesFit'
  <2>1. UNCHANGED <<wakes, gone>>
    BY <1>7 DEF DrainBegins, DrainEnds, Skip, Ignore, Acknowledge, Release, durable
  <2>2. TellsNew
    <3>1. CASE Acknowledge(t)
      BY <3>1, DrainJobs
    <3>2. CASE ~Acknowledge(t)
      <4>1. UNCHANGED unseen
        BY <1>7, <3>2 DEF DrainBegins, DrainEnds, Skip, Ignore, Release, history
      <4> QED
        BY <1>s, <4>1
    <3> QED
      BY <3>1, <3>2
  <2>3. PICK c \in {"drain", "item", "answered", "ack", "release"} : Drops(Job(c, t))
    <3>1. Skip(t) => Drops(Job("item", t))
      BY DEF Skip, Drops
    <3> QED
      BY <1>7, <3>1, DrainJobs, ReleaseEdits
  <2>4. Job(c, t).do \notin {"wake", "wakes", "retry"}
    BY SameJob
  <2>5. Loop
    BY <1>7 DEF Loop
  <2> QED
    BY <1>l, <2>1, <2>2, <2>3, <2>4, <2>5
<1>8. ASSUME NEW t \in Threads, NEW i \in Items,
             Drop(t, i) \/ Expire(t, i) \/ Deny(t, i) \/ Park(t, i) \/ Ask(t, i)
      PROVE  WakesFit'
  <2>1. UNCHANGED <<wakes, gone, unseen>>
    BY <1>8 DEF Drop, Expire, Deny, Refuse, Park, Ask, history
  <2>2. PICK c \in Carriers : Drops(Job(c, t))
    BY <1>8, HandleJobs
  <2>3. Job(c, t).do \notin {"wake", "wakes", "retry"}
    BY SameJob DEF Carriers
  <2>4. Loop
    BY <1>8 DEF Loop
  <2> QED
    BY <1>l, <1>s, <2>1, <2>2, <2>3, <2>4
<1>9. ASSUME NEW t \in Threads, NEW i \in Items, NEW refused \in Refusals, Dispatch(t, i, refused) PROVE WakesFit'
  <2>1. UNCHANGED <<wakes, gone>>
    BY <1>9 DEF Dispatch
  <2>2. PICK c \in Carriers : Drops(Job(c, t))
    BY <1>9, HandleJobs
  <2>3. TellsNew
    BY <1>9, HandleJobs
  <2>4. Job(c, t).do \notin {"wake", "wakes", "retry"}
    BY SameJob DEF Carriers
  <2>5. Loop
    BY <1>9 DEF Loop
  <2> QED
    BY <1>l, <2>1, <2>2, <2>3, <2>4, <2>5
<1>10. ASSUME NEW t \in Threads, Retry(t) PROVE WakesFit'
  <2>1. UNCHANGED <<wakes, gone, unseen>>
    BY <1>10 DEF Retry, durable, history
  <2>2. Drops(Job("retry", t)) /\ Job("wakes", t) \in ToSet(jobs')
    BY <1>10, DrainJobs
  <2>3. Serving'
    BY <2>2 DEF Serving, Pending
  <2>4. \A u : Pending("wake", u) => Job("wake", u) \in ToSet(jobs')
    BY <1>p, <2>2, SameJob DEF Drops
  <2> QED
    BY <1>f, <2>1, <2>3, <2>4 DEF WakesFit
<1>11. ASSUME WakesDone PROVE WakesFit'
  <2>1. UNCHANGED <<wakes, gone, unseen, turn>> /\ \A k \in DOMAIN wakes : ~Servable(wakes[k])
    BY <1>11 DEF WakesDone, durable, history
  <2>2. \A t \in ToSet(wakes') : ~Admits(t)'
    BY <2>1 DEF ToSet, Servable, Admits, AtCapacity
  <2>3. ASSUME NEW u \in unseen PROVE u \in ToSet(wakes) \/ u \in gone \/ Job("wake", u) \in ToSet(jobs')
    <3>1. PICK v \in Threads : Drops(Job("wakes", v))
      BY <1>11, <1>b, <2>3, DrainJobs
    <3>2. Pending("wake", u) => Job("wake", u) \in ToSet(jobs')
      BY <1>p, <3>1, SameJob DEF Drops
    <3> QED
      BY <3>2 DEF WakesFit
  <2> QED
    BY <1>f, <2>1, <2>2, <2>3
<1>12. ASSUME NEW t \in Threads, NEW refused \in Refusals, Wake(t, refused) PROVE WakesFit'
  <2>1. gone' = gone /\ Drops(Job("wake", t)) /\ Loop
    BY <1>12, DrainJobs DEF Wake, durable, Loop
  <2>2. /\ \A u \in Threads \ {t} : Pending("wake", u) => Job("wake", u) \in ToSet(jobs')
        /\ Serving => Serving'
    BY <1>p, <2>1, SameJob DEF Drops, Serving
  <2>3. CASE t \notin gone /\ Admits(t)
    <3>1. wakes' = wakes /\ unseen' = unseen \ {t}
      BY <1>12, <2>3 DEF Wake, WakeNow
    <3>2. \A s \in ToSet(wakes') : Admits(s)' => Serving'
      BY <1>a, <1>b, <2>1, <2>2, <3>1 DEF WakesFit
    <3>3. \A u \in unseen' : u \in ToSet(wakes') \/ u \in gone' \/ Job("wake", u) \in ToSet(jobs')
      BY <1>b, <2>1, <2>2, <3>1 DEF WakesFit
    <3> QED
      BY <1>f, <3>2, <3>3
  <2>4. CASE ~(t \notin gone /\ Admits(t))
    <3>1. wakes' = Debt(t) /\ unseen' = unseen /\ turn' = turn
      BY <1>12, <2>4 DEF Wake
    <3>2. /\ ToSet(wakes) \subseteq ToSet(wakes') /\ ToSet(wakes') \subseteq ToSet(wakes) \cup {t}
          /\ t \in ToSet(wakes') \cup gone
      <4>1. \A s \in Seq(Threads) : ToSet(Append(s, t)) = ToSet(s) \cup {t}
        BY AppendSet
      <4>2. ToSet(Append(wakes, t)) = ToSet(wakes) \cup {t}
        BY <4>1 DEF TypeOK
      <4> QED
        BY <3>1, <4>2 DEF Debt
    <3>3. ~Admits(t)
      BY <2>4 DEF Admits
    <3>4. \A s \in Threads : Admits(s)' => Admits(s)
      BY <2>1, <3>1 DEF Admits, AtCapacity
    <3>5. \A s \in ToSet(wakes') : Admits(s)' => Serving'
      BY <1>b, <2>2, <3>2, <3>3, <3>4 DEF WakesFit
    <3>6. \A u \in unseen' : u \in ToSet(wakes') \/ u \in gone' \/ Job("wake", u) \in ToSet(jobs')
      BY <1>b, <2>1, <2>2, <3>1, <3>2 DEF WakesFit
    <3> QED
      BY <1>f, <3>5, <3>6
  <2> QED
    BY <2>3, <2>4
<1>13. ASSUME NEW t \in Threads, NEW refused \in Refusals, WakeParked(t, refused) PROVE WakesFit'
  <2>1. gone' = gone /\ jobs' = jobs /\ wakes' = Without(wakes, {t}) /\ ~Quiet /\ Head(jobs).do = "wakes"
    BY <1>13 DEF WakeParked, durable
  <2>2. ToSet(wakes') = ToSet(wakes) \ {t}
    <3>1. \A s \in Seq(Threads) : ToSet(Without(s, {t})) = ToSet(s) \ {t}
      BY WithoutFacts
    <3> QED
      BY <2>1, <3>1 DEF TypeOK
  <2>3. Serving'
    <3>1. Head(jobs) \in Jobs /\ Head(jobs) \in ToSet(jobs)
      BY <2>1, HeadAndTail DEF Quiet, TypeOK
    <3>2. Head(jobs) = Job("wakes", Head(jobs).thread) /\ Head(jobs).thread \in Threads
      BY <2>1, <3>1 DEF Jobs, Job
    <3> QED
      BY <1>p, <2>1, <3>1, <3>2 DEF Serving
  <2>4. t \in gone \/ t \notin unseen'
    BY <1>13 DEF WakeParked, WakeNow
  <2>5. unseen' \subseteq unseen
    BY <1>13 DEF WakeParked, WakeNow
  <2>6. \A u \in unseen' : u \in ToSet(wakes') \/ u \in gone' \/ Job("wake", u) \in ToSet(jobs')
    BY <1>p, <2>1, <2>2, <2>4, <2>5 DEF WakesFit
  <2> QED
    BY <1>f, <2>3, <2>6
<1>14. ASSUME Crash PROVE WakesFit'
  <2>1. unseen' = {} /\ wakes' = <<>>
    BY <1>14 DEF Crash
  <2> QED
    BY <1>f, <2>1, EmptySet
<1>15. CASE World
  BY <1>1, <1>2, <1>3, <1>4, <1>5, <1>6, <1>15 DEF World
<1>16. CASE Loop
  BY <1>7, <1>8, <1>9, <1>10, <1>11, <1>12, <1>13, <1>16 DEF Loop
<1> QED
  BY <1>14, <1>15, <1>16 DEF Next

-----------------------------------------------------------------------------
(* No parked handoff is forgotten. *)

LEMMA ParkedStep ==
    ASSUME TypeOK, TypeOK', Homed, Carried, ParkedFits, Next
    PROVE  ParkedFits'
<1>b. /\ Owner \in [Threads -> Bots] /\ From \in [Items -> Threads] /\ To \in [Items -> Threads]
      /\ parked \subseteq Items /\ parked' \subseteq Items
      /\ \A t \in Threads : drain[t].todo \in Seq(Items)
  BY Constants DEF TypeOK, Drains
<1>q. Quiet => \A c, u : ~Pending(c, u)
  BY EmptySet DEF Pending, Quiet
<1>p. \A c, u : (Pending(c, u) <=> Job(c, u) \in ToSet(jobs)) /\ (Pending(c, u)' <=> Job(c, u) \in ToSet(jobs'))
  BY DEF Pending
\* A target that can take a handoff again could before, or was just freed.
<1>a. ASSUME World \/ Loop, NEW i \in parked', CanTake(i)'
      PROVE  CanTake(i) \/ Attended(i)'
  <2>1. Owner[To[i]] \in Bots /\ i \in Items
    BY <1>b
  <2>2. CASE Holds(Owner[To[i]])
    BY <1>a, <2>1, <2>2, Holding
  <2>3. CASE Retries(Owner[To[i]])
    BY <2>3 DEF Retries, Attended, Freeing, Pending
  <2> QED
    BY <1>a, <2>1, <2>2, <2>3, TurnsRise
<1>f. ASSUME World \/ Loop, parked' \subseteq parked,
             \A i \in parked' : CanTake(i) /\ Attended(i) => ~CanTake(i)' \/ Attended(i)'
      PROVE  ParkedFits'
  BY <1>a, <1>f DEF ParkedFits
<1>e. ASSUME NEW t \in Threads, NEW i \in Items, drain'[t].todo = drain[t].todo,
             drain'[t].await # "requeued" \/ drain' = drain \/ i # Handling(t),
             \A u \in Threads \ {t} : drain'[u] = drain[u], ToExamine(i)
      PROVE  ToExamine(i)'
  <2>1. CASE From[i] = t
    BY <1>e, <2>1 DEF ToExamine, Handling
  <2>2. CASE From[i] # t
    BY <1>b, <1>e, <2>2 DEF ToExamine
  <2> QED
    BY <2>1, <2>2
<1>s. drain' = drain => \A i \in Items : ToExamine(i) => ToExamine(i)'
  BY DEF ToExamine
\* A step that finds the loop at rest.
<1>w. ASSUME World, Quiet, parked' \subseteq parked, redrain \subseteq redrain',
             \A i \in parked' : ToExamine(i) => ToExamine(i)'
      PROVE  ParkedFits'
  <2>1. \A i \in parked' : Attended(i) => Attended(i)'
    BY <1>q, <1>w DEF Attended, Freeing
  <2> QED
    BY <1>f, <1>w, <2>1
\* A job that frees no bot and begins no drain.
<1>l. ASSUME Loop, parked' \subseteq parked, redrain \subseteq redrain',
             \A i \in parked' : ToExamine(i) => ToExamine(i)',
             NEW j, Drops(j), j.do \notin {"drain", "retry", "release"}
      PROVE  ParkedFits'
  <2>1. \A c \in {"drain", "retry", "release"} : \A u : Pending(c, u) => Pending(c, u)'
    BY <1>l, <1>p, SameJob DEF Drops
  <2>2. \A i \in parked' : Attended(i) => Attended(i)'
    BY <1>l, <2>1 DEF Attended, Freeing
  <2> QED
    BY <1>f, <1>l, <2>2
<1>1. ASSUME NEW t \in Threads, \/ PersonStarts(t) \/ Acknowledged(t) \/ SetupFails(t) \/ Stalls(t)
                                \/ Released(t) \/ WindowPasses(t) \/ Delete(t) \/ Open(t)
      PROVE  ParkedFits'
  <2>1. Quiet /\ UNCHANGED <<parked, redrain, drain>>
    <3>1. CASE PersonStarts(t)
      BY <3>1 DEF PersonStarts, durable
    <3>2. CASE Acknowledged(t)
      BY <3>2 DEF Acknowledged, durable
    <3>3. CASE Released(t) \/ WindowPasses(t)
      BY <3>3 DEF Released, WindowPasses, durable
    <3>4. CASE Delete(t) \/ Open(t)
      BY <3>4 DEF Delete, Open, memory
    <3>5. CASE SetupFails(t) \/ Stalls(t)
      BY <3>5 DEF SetupFails, Stalls
    <3> QED
      BY <1>1, <3>1, <3>2, <3>3, <3>4, <3>5
  <2>2. World
    BY <1>1 DEF World
  <2> QED
    BY <1>b, <1>s, <1>w, <2>1, <2>2
<1>2. ASSUME NEW t \in Threads, NEW ok \in BOOLEAN, NEW next \in TurnPhases, Completed(t, ok, next)
      PROVE  ParkedFits'
  <2>1. Quiet /\ UNCHANGED <<redrain, drain>> /\ parked' \subseteq parked
    BY <1>2 DEF Completed
  <2>2. World
    BY <1>2 DEF World
  <2> QED
    BY <1>b, <1>s, <1>w, <2>1, <2>2
<1>3. ASSUME Sweep PROVE ParkedFits'
  <2>1. Quiet /\ UNCHANGED <<redrain, drain>> /\ parked' \subseteq parked
    BY <1>3 DEF Sweep
  <2>2. World
    BY <1>3 DEF World
  <2> QED
    BY <1>b, <1>s, <1>w, <2>1, <2>2
<1>4. ASSUME NEW i \in Items, NEW approved \in BOOLEAN, Age(i) \/ Bar(i) \/ Queue(i, approved) PROVE ParkedFits'
  <2>1. Quiet /\ UNCHANGED <<redrain, drain, parked>>
    BY <1>4 DEF Age, Bar, Queue, memory
  <2>2. World
    BY <1>4 DEF World
  <2> QED
    BY <1>b, <1>s, <1>w, <2>1, <2>2
<1>5. ASSUME NEW t \in Threads, NEW verdict \in {"allow", "deny"}, Answer(t, verdict) PROVE ParkedFits'
  <2>1. Quiet /\ UNCHANGED <<redrain, parked>>
    BY <1>5 DEF Answer, durable
  <2>2. /\ drain'[t].await = verdict /\ drain'[t].todo = drain[t].todo
        /\ \A u \in Threads \ {t} : drain'[u] = drain[u]
    BY <1>5, DrainEdits
  <2>3. \A i \in parked' : ToExamine(i) => ToExamine(i)'
    BY <1>b, <1>e, <2>2
  <2>4. World
    BY <1>5 DEF World
  <2> QED
    BY <1>w, <2>1, <2>3, <2>4
<1>6. ASSUME NEW t \in Threads, DrainBegins(t) PROVE ParkedFits'
  <2>1. Loop /\ UNCHANGED parked /\ redrain \subseteq redrain' /\ Drops(Job("drain", t))
    BY <1>6, DrainJobs DEF Loop, DrainBegins, durable
  <2>2. \A c \in {"drain", "retry", "release"} : \A u : u # t \/ c # "drain" => (Pending(c, u) => Pending(c, u)')
    BY <1>p, <2>1, SameJob DEF Drops
  <2>3. \A u \in Threads \ {t} : drain'[u] = drain[u]
    BY <1>6, DrainEdits
  <2>4. ASSUME NEW i \in parked', From[i] # t, Attended(i) PROVE Attended(i)'
    <3>1. ToExamine(i) => ToExamine(i)'
      BY <1>b, <2>3, <2>4 DEF ToExamine
    <3> QED
      BY <2>1, <2>2, <2>4, <3>1 DEF Attended, Freeing
  <2>5. ASSUME NEW i \in parked', From[i] = t PROVE Attended(i)'
    <3>1. i \in ToSet(queue[t])
      BY <2>1, <2>5 DEF Homed, Queued
    <3>2. CASE Draining(t)
      <4>1. t \in redrain'
        BY <1>6, <3>2 DEF DrainBegins
      <4> QED
        BY <2>5, <4>1 DEF Attended
    <3>3. CASE ~Draining(t)
      <4>1. queue[t] # <<>> /\ drain \in [Threads -> Drains]
        BY <3>1, EmptySet DEF TypeOK
      <4>2. drain' = [drain EXCEPT ![t] = [todo |-> queue[t], snapshot |-> ToSet(queue[t]), await |-> "none"]]
        BY <1>6, <3>3, <4>1 DEF DrainBegins
      <4>3. drain'[t].todo = queue[t] /\ drain'[t].await = "none"
        BY <4>1, <4>2
      <4> QED
        BY <2>5, <3>1, <4>1, <4>3 DEF Attended, ToExamine
    <3> QED
      BY <3>2, <3>3
  <2> QED
    BY <1>f, <2>1, <2>4, <2>5
<1>7. ASSUME NEW t \in Threads, DrainEnds(t) PROVE ParkedFits'
  <2>1. Loop /\ UNCHANGED parked /\ redrain' = redrain \ {t} /\ Drops(Job("item", t))
    BY <1>7, DrainJobs DEF Loop, DrainEnds, durable
  <2>2. \A c \in {"drain", "retry", "release"} : \A u : Pending(c, u) => Pending(c, u)'
    BY <1>p, <2>1, SameJob DEF Drops
  <2>3. drain[t].todo = <<>> /\ \A u \in Threads \ {t} : drain'[u] = drain[u]
    BY <1>7, DrainEdits
  <2>4. t \in redrain => Pending("drain", t)'
    BY <1>7, <1>p, DrainJobs
  <2>5. \A i \in parked' : ToExamine(i) => ToExamine(i)'
    BY <1>b, <2>3 DEF ToExamine
  <2>6. \A i \in parked' : Attended(i) => Attended(i)'
    BY <2>1, <2>2, <2>4, <2>5 DEF Attended, Freeing
  <2> QED
    BY <1>f, <2>1, <2>6
<1>8. ASSUME NEW t \in Threads, Skip(t) PROVE ParkedFits'
  <2>1. Loop /\ UNCHANGED <<parked, redrain, jobs>>
    BY <1>8 DEF Loop, Skip, durable
  <2>2. /\ drain'[t].await = "none" /\ drain'[t].todo = Tail(drain[t].todo) /\ ~Queued(Handling(t))
        /\ ToSet(drain[t].todo) = {Handling(t)} \cup ToSet(Tail(drain[t].todo))
        /\ \A u \in Threads \ {t} : drain'[u] = drain[u]
    BY <1>8, DrainEdits
  <2>3. ASSUME NEW i \in parked', ToExamine(i) PROVE ToExamine(i)'
    <3>1. CASE From[i] = t
      <4>1. i # Handling(t)
        BY <2>1, <2>2, <2>3 DEF Homed
      <4>2. i \in ToSet(Tail(drain[t].todo))
        BY <2>2, <2>3, <3>1, <4>1 DEF ToExamine
      <4> QED
        BY <2>2, <3>1, <4>2, EmptySet DEF ToExamine
    <3>2. CASE From[i] # t
      BY <1>b, <2>2, <2>3, <3>2 DEF ToExamine
    <3> QED
      BY <3>1, <3>2
  <2>4. Drops(Job("item", t)) /\ Job("item", t).do \notin {"drain", "retry", "release"}
    BY <2>1, SameJob DEF Drops
  <2> QED
    BY <1>l, <2>1, <2>3, <2>4
<1>9. ASSUME NEW t \in Threads, Ignore(t) PROVE ParkedFits'
  <2>1. Loop /\ UNCHANGED <<parked, redrain>> /\ Drops(Job("answered", t))
    BY <1>9, DrainJobs DEF Loop, Ignore, durable
  <2>2. /\ drain'[t].await = "settled" /\ drain'[t].todo = drain[t].todo
        /\ \A u \in Threads \ {t} : drain'[u] = drain[u]
    BY <1>9, DrainEdits
  <2>3. \A i \in parked' : ToExamine(i) => ToExamine(i)'
    BY <1>b, <1>e, <2>2
  <2>4. Job("answered", t).do \notin {"drain", "retry", "release"}
    BY SameJob
  <2> QED
    BY <1>l, <2>1, <2>3, <2>4
<1>10. ASSUME NEW t \in Threads, Acknowledge(t) PROVE ParkedFits'
  <2>1. Loop /\ UNCHANGED redrain /\ Drops(Job("ack", t)) /\ parked' = parked \ Removed(t)
    BY <1>10, DrainJobs DEF Loop, Acknowledge
  <2>2. /\ drain'[t].todo = Tail(drain[t].todo) /\ drain'[t].await = "none"
        /\ ToSet(drain[t].todo) = {Handling(t)} \cup ToSet(Tail(drain[t].todo))
        /\ \A u \in Threads \ {t} : drain'[u] = drain[u]
        /\ Removed(t) = IF drain[t].await = "requeued" THEN {} ELSE {Handling(t)}
    BY <1>10, AckEdits
  <2>3. ASSUME NEW i \in parked', ToExamine(i) PROVE ToExamine(i)'
    <3>1. CASE From[i] = t
      <4>1. i = Handling(t) => drain[t].await = "requeued"
        BY <2>1, <2>2
      <4>2. i \in ToSet(Tail(drain[t].todo))
        BY <2>2, <2>3, <3>1, <4>1 DEF ToExamine, Handling
      <4> QED
        BY <2>2, <3>1, <4>2, EmptySet DEF ToExamine
    <3>2. CASE From[i] # t
      BY <1>b, <2>2, <2>3, <3>2 DEF ToExamine
    <3> QED
      BY <3>1, <3>2
  <2>4. Job("ack", t).do \notin {"drain", "retry", "release"}
    BY SameJob
  <2> QED
    BY <1>l, <2>1, <2>3, <2>4
<1>11. ASSUME NEW t \in Threads, Retry(t) PROVE ParkedFits'
  <2>1. Loop /\ UNCHANGED <<parked, redrain, drain>>
    BY <1>11 DEF Loop, Retry, durable
  <2>2. Drops(Job("retry", t)) /\ Job("release", t) \in ToSet(jobs')
    BY <1>11, DrainJobs
  <2>3. \A c, u : Pending(c, u) => Pending(c, u)' \/ (c = "retry" /\ u = t)
    BY <1>p, <2>2, SameJob DEF Drops
  <2>4. Pending("release", t)'
    BY <1>p, <2>2
  <2>5. \A b : Freeing(b) => Freeing(b)'
    BY <2>3, <2>4 DEF Freeing
  <2>6. \A i \in parked' : Attended(i) => Attended(i)'
    BY <1>b, <1>s, <2>1, <2>3, <2>5 DEF Attended
  <2> QED
    BY <1>f, <2>1, <2>6
<1>12. ASSUME NEW t \in Threads, Release(t) PROVE ParkedFits'
  <2>1. Loop /\ UNCHANGED <<redrain, drain, turn>>
    BY <1>12 DEF Loop, Release
  <2>2. /\ Drops(Job("release", t)) /\ parked' \subseteq parked
        /\ \A i \in parked' : Owner[To[i]] = Owner[t] => ~CanTake(i)
    BY <1>12, ReleaseEdits
  <2>3. \A c, u : Pending(c, u) => Pending(c, u)' \/ (c = "release" /\ u = t)
    BY <1>p, <2>2, SameJob DEF Drops
  <2>4. \A b : b # Owner[t] => (Freeing(b) => Freeing(b)')
    BY <2>3 DEF Freeing
  <2>5. \A i \in parked' : CanTake(i) /\ Attended(i) => Attended(i)'
    BY <1>b, <1>s, <2>1, <2>2, <2>3, <2>4 DEF Attended
  <2> QED
    BY <1>f, <2>1, <2>2, <2>5
<1>13. ASSUME NEW t \in Threads, NEW j \in Items, Drop(t, j) \/ Expire(t, j) \/ Deny(t, j) \/ Ask(t, j)
       PROVE  ParkedFits'
  <2>1. Loop /\ UNCHANGED redrain /\ parked' \subseteq parked
    BY <1>13 DEF Loop, Drop, Expire, Deny, Refuse, Ask
  <2>2. Leaves(t, "settled") \/ Leaves(t, "card")
    BY <1>13, HandleEdits
  <2>3. \A i \in parked' : ToExamine(i) => ToExamine(i)'
    BY <1>b, <1>e, <2>2 DEF Leaves
  <2>4. PICK c \in Carriers : Drops(Job(c, t))
    BY <1>13, HandleJobs
  <2>5. Job(c, t).do \notin {"drain", "retry", "release"}
    BY SameJob DEF Carriers
  <2> QED
    BY <1>l, <2>1, <2>3, <2>4, <2>5
<1>14. ASSUME NEW t \in Threads, NEW j \in Items, NEW refused \in Refusals, Dispatch(t, j, refused)
       PROVE  ParkedFits'
  <2>1. Loop /\ UNCHANGED redrain /\ parked' \subseteq parked
    BY <1>14 DEF Loop, Dispatch
  <2>2. Leaves(t, "dispatched")
    BY <1>14, HandleEdits
  <2>3. \A i \in parked' : ToExamine(i) => ToExamine(i)'
    BY <1>b, <1>e, <2>2 DEF Leaves
  <2>4. PICK c \in Carriers : Drops(Job(c, t))
    BY <1>14, HandleJobs
  <2>5. Job(c, t).do \notin {"drain", "retry", "release"}
    BY SameJob DEF Carriers
  <2> QED
    BY <1>l, <2>1, <2>3, <2>4, <2>5
\* What is parked now cannot be taken; the other members of the list wait.
<1>15. ASSUME NEW t \in Threads, NEW j \in Items, Park(t, j) PROVE ParkedFits'
  <2>1. Loop /\ UNCHANGED <<redrain, turn>> /\ parked' = parked \cup {j} /\ ~CanTake(j)
    BY <1>15 DEF Loop, Park
  <2>2. Leaves(t, "requeued") /\ j = Handling(t)
    BY <1>15, HandleEdits DEF Handles
  <2>3. \A i \in parked \ {j} : ToExamine(i) => ToExamine(i)'
    BY <1>b, <1>e, <2>2 DEF Leaves
  <2>4. PICK c \in Carriers : Drops(Job(c, t))
    BY <1>15, HandleJobs
  <2>5. \A d \in {"drain", "retry", "release"} : \A u : Pending(d, u) => Pending(d, u)'
    BY <1>p, <2>4, SameJob DEF Drops, Carriers
  <2>6. \A i \in parked \ {j} : Attended(i) => Attended(i)'
    BY <2>1, <2>3, <2>5 DEF Attended, Freeing
  <2>7. \A i \in Items : CanTake(i)' <=> CanTake(i)
    BY <2>1 DEF CanTake, AtCapacity, Busy
  <2> QED
    BY <1>b, <2>1, <2>6, <2>7 DEF ParkedFits
<1>16. ASSUME NEW t \in Threads, NEW refused \in Refusals, Wake(t, refused) \/ WakeParked(t, refused)
       PROVE  ParkedFits'
  <2>1. Loop /\ UNCHANGED <<redrain, drain, parked>>
    BY <1>16 DEF Loop, Wake, WakeParked, durable
  <2>2. Drops(Job("wake", t)) /\ Job("wake", t).do \notin {"drain", "retry", "release"}
    <3>1. WakeParked(t, refused) => Drops(Job("wake", t))
      BY DEF WakeParked, Drops
    <3> QED
      BY <1>16, <3>1, DrainJobs, SameJob
  <2> QED
    BY <1>b, <1>l, <1>s, <2>1, <2>2
<1>17. ASSUME WakesDone PROVE ParkedFits'
  <2>1. Loop /\ UNCHANGED <<redrain, drain, parked>>
    BY <1>17 DEF Loop, WakesDone, durable
  <2>2. Threads # {} => \E u \in Threads : Drops(Job("wakes", u))
    BY <1>17, DrainJobs
  <2>3. CASE parked = {}
    BY <2>1, <2>3 DEF ParkedFits
  <2>4. CASE parked # {}
    <3>1. PICK u \in Threads : Drops(Job("wakes", u))
      BY <1>b, <2>2, <2>4
    <3>2. Job("wakes", u).do \notin {"drain", "retry", "release"}
      BY SameJob
    <3> QED
      BY <1>b, <1>l, <1>s, <2>1, <3>1, <3>2
  <2> QED
    BY <2>3, <2>4
\* After a crash every thread with handoffs is drained.
<1>18. ASSUME Crash PROVE ParkedFits'
  <2>1. UNCHANGED parked
    BY <1>18 DEF Crash
  <2> DEFINE S == {t \in Threads : queue[t] # <<>>}
  <2>2. PICK order \in SetToSeqs(S) : jobs' = [k \in DOMAIN order |-> Job("drain", order[k])]
    BY <1>18 DEF Crash
  <2>3. \A i \in parked : From[i] \in S
    BY <1>b, EmptySet DEF Homed, Queued
  <2>4. S \subseteq Threads
    OBVIOUS
  <2> HIDE DEF S
  <2>5. ToSet(jobs') = {Job("drain", t) : t \in S}
    BY <2>2, <2>4, OrderedJobs
  <2>6. \A i \in parked : Pending("drain", From[i])'
    BY <1>p, <2>3, <2>5
  <2> QED
    BY <2>1, <2>6 DEF ParkedFits, Attended
<1>19. CASE World
  BY <1>1, <1>2, <1>3, <1>4, <1>5, <1>19 DEF World
<1>20. CASE Loop
  BY <1>6, <1>7, <1>8, <1>9, <1>10, <1>11, <1>12, <1>13, <1>14, <1>15, <1>16, <1>17, <1>20 DEF Loop
<1> QED
  BY <1>18, <1>19, <1>20 DEF Next

-----------------------------------------------------------------------------
(* The invariant holds throughout. *)

LEMMA InvariantInit == Init => IInv
<1> SUFFICES ASSUME Init PROVE IInv
  OBVIOUS
<1>1. /\ queue = [t \in Threads |-> <<>>] /\ drain = [t \in Threads |-> NoDrain]
      /\ watch = [t \in Threads |-> NoItem] /\ starts = [i \in Items |-> 0]
      /\ receipt = [i \in Items |-> "none"]
      /\ parked = {} /\ born = {} /\ unseen = {} /\ redrain = {} /\ jobs = <<>> /\ wakes = <<>>
  BY DEF Init
<1>2. TypeOK
  BY TypeInit
<1>3. \A t \in Threads : /\ drain[t] = NoDrain /\ NoDrain.todo = <<>> /\ NoDrain.snapshot = {}
                         /\ NoDrain.await = "none"
                         /\ ToSet(queue[t]) = {} /\ ToSet(drain[t].todo) = {}
  BY <1>1, EmptySet DEF NoDrain
<1>4. \A c, u : ~Pending(c, u)
  BY <1>1, EmptySet DEF Pending
<1>5. Homed
  BY <1>1, <1>3 DEF Homed
<1>6. Carried
  <2>1. \A t \in Threads : CarriedAt(t)
    BY <1>1, <1>3, <1>4 DEF CarriedAt, Draining
  <2>2. Lone(jobs)
    BY <1>1, LoneShort
  <2> QED
    BY <2>1, <2>2 DEF Carried
<1>7. ParkedFits /\ WakesFit
  BY <1>1, EmptySet DEF ParkedFits, WakesFit
<1>8. AnswersFit
  BY <1>1, <1>3 DEF AnswersFit
<1>9. OnceFits
  <2>1. \A i \in Items : starts[i] = 0 /\ receipt[i] = "none" /\ \A t \in Threads : watch[t] # i
    BY <1>1, Constants
  <2> QED
    BY <2>1 DEF OnceFits, OnceAt
<1>10. ReplyIsItsOwn
  BY <1>1 DEF ReplyIsItsOwn
<1> QED
  BY <1>2, <1>5, <1>6, <1>7, <1>8, <1>9, <1>10 DEF IInv

LEMMA InvariantStep == IInv /\ [Next]_vars => IInv'
<1> SUFFICES ASSUME IInv, [Next]_vars PROVE IInv'
  OBVIOUS
<1>1. CASE Next
  <2>1. TypeOK /\ Homed /\ Carried /\ ParkedFits /\ WakesFit /\ AnswersFit /\ OnceFits /\ ReplyIsItsOwn
    BY DEF IInv
  <2>2. TypeOK' /\ Carried'
    BY <2>1, TypeStep, CarriedStep
  <2>3. Homed' /\ AnswersFit' /\ OnceFits' /\ ReplyIsItsOwn'
    BY <1>1, <2>1, HomedStep, AnswersStep, OnceStep, ReplyStep
  <2>4. ParkedFits' /\ WakesFit'
    BY <1>1, <2>1, <2>2, ParkedStep, WakesStep
  <2> QED
    BY <2>2, <2>3, <2>4 DEF IInv
<1>2. CASE UNCHANGED vars
  <2>1. TypeOK' /\ Carried'
    BY TypeStep, CarriedStep DEF IInv
  <2>2. UNCHANGED <<queue, parked, receipt, gone, jobs, drain, redrain, turn, work, watch, wakes,
                    born, starts, unseen, torn, lost>>
    BY <1>2 DEF vars, durable, memory, history
  <2>3. (\A i \in Items : Queued(i)' <=> Queued(i)) /\ (\A c, u : Pending(c, u)' <=> Pending(c, u))
    BY <2>2 DEF Queued, Pending
  <2>4. Homed'
    BY <2>2 DEF IInv, Homed, Queued
  <2>5. ParkedFits'
    BY <2>2 DEF IInv, ParkedFits, CanTake, AtCapacity, Busy, Attended, Freeing, ToExamine, Pending
  <2>6. WakesFit'
    BY <2>2 DEF IInv, WakesFit, Admits, AtCapacity, Serving, Pending
  <2>7. AnswersFit'
    BY <2>2 DEF IInv, AnswersFit, Answered, Queued, Handling
  <2>8. OnceFits'
    BY <2>2 DEF IInv, OnceFits, OnceAt, Acknowledging, Queued, Handling
  <2>9. ReplyIsItsOwn'
    BY <2>2 DEF IInv, ReplyIsItsOwn
  <2> QED
    BY <2>1, <2>4, <2>5, <2>6, <2>7, <2>8, <2>9 DEF IInv
<1> QED
  BY <1>1, <1>2

LEMMA Invariant == Spec => []IInv
BY InvariantInit, InvariantStep, PTL DEF Spec

LEMMA Delivery == IInv => DeliveredOnce
<1> SUFFICES ASSUME IInv PROVE DeliveredOnce
  OBVIOUS
<1>1. Accounted
  BY DEF IInv, AnswersFit, Answered, Accounted
<1>2. StartedOnce
  <2>1. \A i \in Items : starts[i] \in Nat
    BY DEF IInv, TypeOK
  <2> QED
    BY <2>1 DEF IInv, OnceFits, OnceAt, StartedOnce
<1> QED
  BY <1>1, <1>2 DEF IInv, DeliveredOnce

LEMMA Wakefulness == IInv => NothingSleepsInVain
<1> SUFFICES ASSUME IInv PROVE NothingSleepsInVain
  OBVIOUS
<1>q. Quiet => \A c, u : ~Pending(c, u)
  BY EmptySet DEF Pending, Quiet
<1>1. ParkedForAReason
  <2> SUFFICES ASSUME Quiet, NEW i \in parked PROVE Queued(i) /\ (Draining(From[i]) \/ ~CanTake(i))
    BY DEF ParkedForAReason
  <2>1. Queued(i) /\ i \in Items /\ From[i] \in Threads
    BY Constants DEF IInv, Homed, TypeOK
  <2>2. ASSUME CanTake(i) PROVE Draining(From[i])
    <3>1. ToExamine(i) \/ From[i] \in redrain
      BY <1>q, <2>2 DEF IInv, ParkedFits, Attended, Freeing
    <3>2. ToExamine(i) => Draining(From[i])
      BY DEF ToExamine, Draining, NoDrain
    <3> QED
      BY <2>1, <3>1, <3>2 DEF IInv, Carried, CarriedAt
  <2> QED
    BY <2>1, <2>2
<1>2. WakeIsKept
  BY <1>q DEF IInv, WakesFit, WakeIsKept
<1>3. WakeParkedForAReason
  <2> SUFFICES ASSUME Quiet, NEW k \in DOMAIN wakes PROVE ~Admits(wakes[k])
    BY DEF WakeParkedForAReason
  <2>1. wakes[k] \in ToSet(wakes)
    BY DEF ToSet
  <2> QED
    BY <1>q, <2>1 DEF IInv, WakesFit, Serving
<1> QED
  BY <1>1, <1>2, <1>3 DEF NothingSleepsInVain

\* A handoff that its drain takes up was neither started nor settled.
LEMMA QueuedIsOpen ==
    ASSUME IInv, NEW i \in Items \ torn, Queued(i),
           Quiet \/ drain[From[i]].await \in {"none", "allow", "deny"}
    PROVE  receipt[i] = "none"
<1>1. From[i] \in Threads
  BY Constants
<1>2. drain[From[i]].await \notin {"settled", "dispatched"}
  BY <1>1, DrainState DEF IInv
<1> QED
  BY <1>2, NotBegun DEF IInv, OnceFits, Acknowledging

LEMMA OutcomesStay ==
    ASSUME IInv, [Next]_vars, NEW i \in Items, receipt[i] # "none", i \notin torn
    PROVE  receipt'[i] = receipt[i]
<1>b. receipt \in [Items -> Outcomes] /\ From \in [Items -> Threads] /\ TypeOK /\ Homed /\ Carried
  BY Constants DEF IInv, TypeOK
<1>w. \A t \in Threads : watch[t] # i
  BY DEF IInv, OnceFits, OnceAt
<1>f. \A t \in Threads, ok \in BOOLEAN : Final(t, ok)[i] = receipt[i]
  BY <1>b, <1>w, FinalFacts
<1>n. Queued(i) => ~Quiet /\ drain[From[i]].await \notin {"none", "allow", "deny"}
  BY QueuedIsOpen
<1>u. Untouched => receipt'[i] = receipt[i]
  BY DEF Untouched
<1>1. ASSUME NEW t \in Threads, SetupFails(t) \/ Stalls(t) PROVE receipt'[i] = receipt[i]
  BY <1>1, <1>b, <1>f, SettlementEdits
<1>2. ASSUME NEW t \in Threads, NEW ok \in BOOLEAN, NEW next \in TurnPhases, Completed(t, ok, next)
      PROVE  receipt'[i] = receipt[i]
  <2>0. PICK dropped : Ended(t, ok, dropped)
    BY <1>2, <1>b, SettlementEdits
  <2>1. /\ dropped \in SUBSET ToSet(queue[t])
        /\ Quiet /\ receipt' = [j \in Items |-> IF j \in dropped THEN "dropped" ELSE Final(t, ok)[j]]
    BY <2>0 DEF Ended
  <2>2. i \in dropped => Queued(i)
    BY <1>b, <2>1 DEF Homed, Queued
  <2> QED
    BY <1>f, <1>n, <2>1, <2>2
<1>3. ASSUME Sweep PROVE receipt'[i] = receipt[i]
  <2>1. PICK due : Quiet /\ (\A j \in due : Queued(j)) /\ receipt' = Settled(due, "expired")
    BY <1>3, <1>b, SweepEdits
  <2> QED
    BY <1>n, <2>1 DEF Settled
<1>4. ASSUME NEW j \in Items, NEW approved \in BOOLEAN, Age(j) \/ Bar(j) \/ Queue(j, approved)
      PROVE  receipt'[i] = receipt[i]
  BY <1>4 DEF Age, Bar, Queue
<1>5. ASSUME NEW t \in Threads, NEW verdict \in {"allow", "deny"}, Answer(t, verdict)
      PROVE  receipt'[i] = receipt[i]
  BY <1>5 DEF Answer, durable
<1>6. ASSUME NEW t \in Threads, \/ DrainBegins(t) \/ DrainEnds(t) \/ Skip(t) \/ Ignore(t)
                                \/ Acknowledge(t) \/ Release(t)
      PROVE  receipt'[i] = receipt[i]
  BY <1>6 DEF DrainBegins, DrainEnds, Skip, Ignore, Acknowledge, Release, durable
<1>h. \A t \in Threads : ~Handles(t, i)
  BY <1>n DEF Handles
<1>7. ASSUME NEW t \in Threads, NEW j \in Items,
             Drop(t, j) \/ Expire(t, j) \/ Deny(t, j) \/ Park(t, j) \/ Ask(t, j)
      PROVE  receipt'[i] = receipt[i]
  <2>1. Handles(t, j) /\ (receipt' = receipt \/ \E outcome : receipt' = Settled({j}, outcome))
    BY <1>7, <1>b, HandleEdits
  <2> QED
    BY <1>h, <2>1 DEF Settled
<1>8. ASSUME NEW t \in Threads, NEW j \in Items, NEW refused, Dispatch(t, j, refused)
      PROVE  receipt'[i] = receipt[i]
  <2>1. Handles(t, j) /\ (receipt' = receipt \/ receipt' = Settled({j}, "failed"))
    BY <1>8, <1>b, HandleEdits
  <2> QED
    BY <1>h, <2>1 DEF Settled
<1>9. Crash \/ UNCHANGED vars => receipt'[i] = receipt[i]
  BY DEF Crash, vars, durable
<1>10. CASE World
  BY <1>1, <1>2, <1>3, <1>4, <1>5, <1>10, <1>u, IdleSteps DEF World
<1>11. CASE Loop
  BY <1>6, <1>7, <1>8, <1>11, <1>u, IdleSteps DEF Loop
<1> QED
  BY <1>9, <1>10, <1>11 DEF Next

\* What is known of a handoff when its target's turn starts.
Authorised(i) ==
    /\ Queued(i) /\ (receipt[i] = "none" \/ i \in torn)
    /\ i \notin barred /\ From[i] \notin gone /\ Target(i) \notin gone
    /\ Owner[From[i]] \in Reviewed => i \in granted'

LEMMA Authority ==
    ASSUME IInv, [Next]_vars, NEW i \in Items, starts'[i] # starts[i]
    PROVE  Authorised(i)
<1>b. starts \in [Items -> Nat] /\ From \in [Items -> Threads] /\ TypeOK /\ Homed /\ Carried
  BY Constants DEF IInv, TypeOK
<1>u. Untouched => FALSE
  BY DEF Untouched
<1>1. ASSUME NEW t \in Threads, NEW j \in Items, NEW refused, Dispatch(t, j, refused) PROVE Authorised(i)
  <2>1. j = i
    <3>1. starts' = [starts EXCEPT ![j] = @ + 1] \/ starts' = starts
      BY <1>1, <1>b, HandleEdits
    <3> QED
      BY <1>b, <3>1
  <2>2. Handles(t, i)
    BY <1>1, <1>b, <2>1, HandleEdits
  <2>3. receipt[i] = "none" \/ i \in torn
    BY <2>2, QueuedIsOpen DEF Handles
  <2>4. ~Undeliverable(i) /\ Admits(Target(i)) /\ ~NeedsCard(t, i) /\ Grant(t, i) /\ (Looks(t) \/ Allowed(t))
    BY <1>1, <2>1 DEF Dispatch, Examined
  <2>5. Owner[From[i]] \in Reviewed => i \in granted'
    BY <2>2, <2>4 DEF NeedsCard, Grant, Handles
  <2> QED
    BY <2>2, <2>3, <2>4, <2>5 DEF Authorised, Handles, Undeliverable, Admits
<1>2. ASSUME NEW t \in Threads, SetupFails(t) \/ Stalls(t) PROVE FALSE
  BY <1>2, <1>b, SettlementEdits
<1>3. ASSUME NEW t \in Threads, NEW ok \in BOOLEAN, NEW next \in TurnPhases, Completed(t, ok, next) PROVE FALSE
  BY <1>3 DEF Completed
<1>4. Sweep => FALSE
  BY <1>b, SweepEdits
<1>5. ASSUME NEW j \in Items, NEW approved \in BOOLEAN, Age(j) \/ Bar(j) \/ Queue(j, approved) PROVE FALSE
  BY <1>5 DEF Age, Bar, Queue, history
<1>6. ASSUME NEW t \in Threads, NEW verdict \in {"allow", "deny"}, Answer(t, verdict) PROVE FALSE
  BY <1>6 DEF Answer, history
<1>7. ASSUME NEW t \in Threads, \/ DrainBegins(t) \/ DrainEnds(t) \/ Skip(t) \/ Ignore(t)
                                \/ Acknowledge(t) \/ Release(t)
      PROVE  FALSE
  BY <1>7 DEF DrainBegins, DrainEnds, Skip, Ignore, Acknowledge, Release, history
<1>8. ASSUME NEW t \in Threads, NEW j \in Items,
             Drop(t, j) \/ Expire(t, j) \/ Deny(t, j) \/ Park(t, j) \/ Ask(t, j)
      PROVE  FALSE
  <2>1. starts' = starts
    BY <1>8, <1>b, HandleEdits
  <2> QED
    BY <2>1
<1>9. Crash \/ UNCHANGED vars => FALSE
  BY DEF Crash, vars, history
<1>10. CASE World
  BY <1>2, <1>3, <1>4, <1>5, <1>6, <1>10, <1>u, IdleSteps DEF World
<1>11. CASE Loop
  BY <1>1, <1>7, <1>8, <1>11, <1>u, IdleSteps DEF Loop
<1> QED
  BY <1>9, <1>10, <1>11 DEF Next

-----------------------------------------------------------------------------
(* Theorems. *)

\* Every variable keeps its type, whatever people, engines and timers do
\* between two pieces of code, and whenever the process dies (delegations.ts).
THEOREM TypeCorrect == Spec => []TypeOK
<1>1. IInv => TypeOK
  BY DEF IInv
<1> QED
  BY <1>1, Invariant, PTL

\* No handoff is lost, run twice or credited with another's reply, however
\* often it is parked, asked about, drained or reloaded (drainDelegations,
\* acknowledgeDelegation, runDelegatedTurn, finalizeDelegationWatch).
THEOREM HandoffsDelivered == Spec => []DeliveredOnce
BY Delivery, Invariant, PTL

\* When the loop rests, a parked handoff waits for a target that cannot take
\* it or for its own drain, and the wake of a source that learnt of an outcome
\* is kept until it can be served (retryDelegationsWaitingOn,
\* releaseDelegationsWaitingOn, wakeDelegationSource, drainDelegationWakes).
THEOREM NothingSleeps == Spec => []NothingSleepsInVain
BY Wakefulness, Invariant, PTL

\* A target's turn starts only for a handoff that is queued, open, within
\* reach and approved at that moment, and an outcome is never revised
\* (drainDelegations, runDelegatedTurn, writeReceipt).
THEOREM RulesKept == Spec => RulesAreKept
<1>1. ASSUME IInv, [Next]_vars
      PROVE  [\A i \in Items : starts'[i] # starts[i] =>
                /\ Queued(i) /\ (receipt[i] = "none" \/ i \in torn)
                /\ i \notin barred /\ From[i] \notin gone /\ Target(i) \notin gone
                /\ Owner[From[i]] \in Reviewed => i \in granted']_vars
  BY <1>1, Authority DEF Authorised
<1>2. ASSUME IInv, [Next]_vars
      PROVE  [\A i \in Items : receipt[i] # "none" /\ i \notin torn => receipt'[i] = receipt[i]]_vars
  BY <1>2, OutcomesStay
<1>3. Spec => [][Next]_vars
  BY PTL DEF Spec
<1> QED
  BY <1>1, <1>2, <1>3, Invariant, PTL DEF RulesAreKept, StartsWithAuthority, OutcomeIsFinal
=============================================================================
