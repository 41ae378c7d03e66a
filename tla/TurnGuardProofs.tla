-------------------------- MODULE TurnGuardProofs --------------------------
(* Proofs that the turns of a conversation leave each other alone, for any  *)
(* number of turns, any bound of the registries and any engine: an old turn *)
(* never settles a newer one but through the two bounds of the code.        *)
EXTENDS TurnGuard, SequenceTheorems, TLAPS

-----------------------------------------------------------------------------
(* The inductive invariant: what always holds. *)

\* Nothing is known of a generation that is still to come.
FutureFits ==
    /\ busy \/ watch # "off" => gen # None
    /\ \A g \in Gens : g > gen =>
          /\ body[g] = "none" /\ told[g] = "none"
          /\ g \notin owed /\ g \notin cut

\* The engine has a turn once it was sent, and says one thing about it.
EngineFits ==
    \A g \in Gens :
        /\ body[g] \in {"none", "setup"} => engine[g] = "none"
        /\ body[g] \in {"sending", "stopping"} => engine[g] # "none"
        /\ said[g] # "none" => engine[g] = "over"
        /\ \A c \in Cards : card[g][c] # "none" => engine[g] # "none"

\* The claim is of a turn on its way that nobody stopped; others were stopped.
ClaimFits ==
    /\ claim.id = None => claim.phase = "setup"
    /\ claim.id # None => /\ claim.id \notin cut
                          /\ body[claim.id] = IF claim.phase = "setup" THEN "setup" ELSE "sending"
    /\ \A g \in Gens : /\ body[g] \in {"setup", "sending"} /\ g \notin cut => ClaimIs(g)
                       /\ body[g] = "stopping" => g \in cut

\* Somebody waits for a turn until it is bound and settled.
OwedFits ==
    \A g \in Gens :
        /\ g \in owed => told[g] = "none" /\ body[g] # "none"
        /\ g \in owed /\ body[g] = "done" => g \in bound
        /\ g \in bound => g \in owed /\ body[g] = "done" /\ engine[g] # "none"
        /\ body[g] \in {"setup", "sending"} /\ g \notin cut => g \in owed
        /\ engine[g] = "live" /\ body[g] = "done" /\ g \notin cut => g \in bound

\* What somebody was told is what the engine said.
ToldFits == \A g \in Gens : told[g] \in {"ok", "failed"} => told[g] = said[g]

RegistriesFit ==
    \A g \in Gens :
        /\ Contains(completed, g) => engine[g] = "over" \/ (g \in cut /\ body[g] = "done")
        /\ Contains(completed, g) => g \notin bound
        /\ Contains(retired, g) => engine[g] # "none"
        /\ Contains(early, g) => said[g] # "none"

GraceFits == \A g \in grace : g \in cut /\ g \notin bound

SettlingFits == \A s \in settling : engine[s.by] = "over"

\* A turn that is alive and neither claimed nor bound can still be ignored.
LooseAreMute ==
    \A g \in Gens : engine[g] = "live" /\ ~ClaimIs(g) /\ g \notin bound =>
        Contains(retired, g) \/ g \in quarantined \/ g \in Excused

Always ==
    /\ TypeOK /\ FutureFits /\ EngineFits /\ ClaimFits /\ OwedFits /\ ToldFits
    /\ RegistriesFit /\ GraceFits /\ SettlingFits /\ LooseAreMute

-----------------------------------------------------------------------------
(* What holds until a completion slips through. *)

\* A turn that somebody waits for, and one that nobody stopped.
Held(g) == g \in bound \/ (engine[g] = "live" /\ g \notin cut)

\* It has the conversation and the engine is heard.
HeldHolds ==
    \A g \in Gens : Held(g) =>
        /\ gen = g /\ busy /\ engine[g] = "live"
        /\ quarantined = {} /\ ~Contains(retired, g)

\* A completion before the acknowledgement waits for it.
EarlyIsKept ==
    \A g \in Gens : ClaimIs(g) /\ engine[g] = "over" => Contains(completed, g) /\ Contains(early, g)

OwnSettling == \A s \in settling : s.of = s.by

\* The watchdog counts for the turn that holds the conversation.
WatchFits ==
    /\ watch # "off" => busy /\ gen # None /\ engine[gen] # "none"
    /\ \A s \in settling : s.by = gen => watch = "off"
    /\ gen \in grace => watch = "off"

OutcomeTold ==
    \A g \in Gens : said[g] # "none" /\ body[g] = "done" /\ g \notin cut => told[g] = said[g]

Intact == HeldHolds /\ EarlyIsKept /\ OwnSettling /\ WatchFits /\ OutcomeTold

IInv == Always /\ (Slipped \/ Intact)

-----------------------------------------------------------------------------
(* Lemmas about the registries. *)

LEMMA Constants == MaxTurns \in Nat \ {0} /\ Limit \in Nat \ {0} /\ Gens \subseteq Nat /\ None \notin Gens
BY ConstantsAssumption DEF Gens, None

Registry(s) == s \in Seq(Gens) /\ Len(s) <= Limit /\ IsInjective(s)

\* A registry that takes a turn keeps it, drops at most its oldest and says which.
LEMMA PushFits ==
    ASSUME NEW s, Registry(s), NEW g \in Gens
    PROVE  /\ Registry(Kept(Added(s, g)))
           /\ Contains(Kept(Added(s, g)), g)
           /\ \A h : Contains(Kept(Added(s, g)), h) => Contains(s, h) \/ h = g
           /\ \A h : Contains(s, h) => Contains(Kept(Added(s, g)), h) \/ h \in Evicted(Added(s, g))
           /\ Evicted(Added(s, g)) \subseteq Gens
           /\ \A h \in Evicted(Added(s, g)) : Contains(s, h)
<1> USE Constants
<1>0. s \in Seq(Gens) /\ Len(s) \in Nat /\ Len(s) <= Limit /\ IsInjective(s)
    BY DEF Registry
<1>1. CASE Contains(s, g)
    <2>1. Added(s, g) = s /\ Kept(s) = s /\ Evicted(s) = {}
        BY <1>0, <1>1 DEF Added, Kept, Evicted
    <2> QED
        BY <1>0, <1>1, <2>1 DEF Registry
<1>2. CASE ~Contains(s, g)
    <2> DEFINE t == Append(s, g)
    <2>1. Added(s, g) = t
        BY <1>2 DEF Added
    <2>2. /\ t \in Seq(Gens) /\ Len(t) = Len(s) + 1 /\ t[Len(s) + 1] = g
          /\ \A i \in 1..Len(s) : t[i] = s[i]
        BY <1>0
    <2>3. \A i \in 1..Len(s) : s[i] # g
        BY <1>2 DEF Contains
    <2>4. IsInjective(t)
        <3>1. DOMAIN t = 1..(Len(s) + 1) /\ DOMAIN s = 1..Len(s)
            BY <1>0, <2>2
        <3> SUFFICES ASSUME NEW i \in 1..(Len(s) + 1), NEW j \in 1..(Len(s) + 1), t[i] = t[j]
                     PROVE  i = j
            BY <3>1 DEF IsInjective
        <3>2. CASE i \in 1..Len(s) /\ j \in 1..Len(s)
            BY <1>0, <2>2, <3>1, <3>2 DEF IsInjective
        <3>3. CASE i = Len(s) + 1 \/ j = Len(s) + 1
            BY <1>0, <2>2, <2>3, <3>3
        <3> QED
            BY <1>0, <3>2, <3>3
    <2> HIDE DEF t
    <2>5. CASE Len(t) <= Limit
        <3>1. Kept(t) = t /\ Evicted(t) = {}
            BY <1>0, <2>2, <2>5 DEF Kept, Evicted
        <3>2. Contains(t, g)
            BY <1>0, <2>2 DEF Contains
        <3>3. \A h : Contains(t, h) => Contains(s, h) \/ h = g
            BY <1>0, <2>2 DEF Contains
        <3>4. \A h : Contains(s, h) => Contains(t, h)
            BY <1>0, <2>2 DEF Contains
        <3> QED
            BY <2>1, <2>2, <2>4, <2>5, <3>1, <3>2, <3>3, <3>4 DEF Registry
    <2>6. CASE Len(t) > Limit
        <3>1. Kept(t) = Tail(t) /\ Evicted(t) = {Head(t)} /\ Len(t) >= 2
            BY <1>0, <2>2, <2>6 DEF Kept, Evicted
        <3>2. /\ Tail(t) \in Seq(Gens) /\ Len(Tail(t)) = Len(s) /\ Head(t) = t[1]
              /\ \A i \in 1..Len(s) : Tail(t)[i] = t[i + 1]
            BY <1>0, <2>2, <3>1
        <3>3. IsInjective(Tail(t))
            <4>1. DOMAIN Tail(t) = 1..Len(s) /\ DOMAIN t = 1..(Len(s) + 1)
                BY <1>0, <2>2, <3>2
            <4> SUFFICES ASSUME NEW i \in 1..Len(s), NEW j \in 1..Len(s), Tail(t)[i] = Tail(t)[j]
                         PROVE  i = j
                BY <4>1 DEF IsInjective
            <4>2. t[i + 1] = t[j + 1] /\ i + 1 \in DOMAIN t /\ j + 1 \in DOMAIN t
                BY <1>0, <3>2, <4>1
            <4>3. i + 1 = j + 1
                BY <2>4, <4>2 DEF IsInjective
            <4> QED
                BY <1>0, <4>3
        <3>4. Contains(Tail(t), g)
            <4>1. Len(s) \in 1..Len(s) /\ Tail(t)[Len(s)] = t[Len(s) + 1]
                BY <1>0, <2>2, <3>1, <3>2
            <4> QED
                BY <2>2, <3>2, <4>1 DEF Contains
        <3>5. ASSUME NEW h, Contains(Tail(t), h) PROVE Contains(s, h) \/ h = g
            <4>1. PICK i \in 1..Len(s) : t[i + 1] = h
                BY <3>2, <3>5 DEF Contains
            <4>2. CASE i = Len(s)
                BY <2>2, <4>1, <4>2
            <4>3. CASE i # Len(s)
                <5>1. i + 1 \in 1..Len(s)
                    BY <1>0, <4>3
                <5> QED
                    BY <2>2, <4>1, <5>1 DEF Contains
            <4> QED
                BY <4>2, <4>3
        <3>6. ASSUME NEW h, Contains(s, h) PROVE Contains(Tail(t), h) \/ h = Head(t)
            <4>1. PICK i \in 1..Len(s) : s[i] = h
                BY <3>6 DEF Contains
            <4>2. CASE i = 1
                BY <2>2, <3>2, <4>1, <4>2
            <4>3. CASE i # 1
                <5>1. i - 1 \in 1..Len(s) /\ (i - 1) + 1 = i
                    BY <1>0, <4>3
                <5>2. Tail(t)[i - 1] = h
                    BY <2>2, <3>2, <4>1, <5>1
                <5> QED
                    BY <3>2, <5>1, <5>2 DEF Contains
            <4> QED
                BY <4>2, <4>3
        <3>7. Head(t) \in Gens /\ Contains(s, Head(t))
            <4>1. 1 \in 1..Len(s) /\ Head(t) = s[1]
                BY <1>0, <2>2, <3>1, <3>2
            <4> QED
                BY <1>0, <4>1 DEF Contains
        <3> QED
            BY <1>0, <2>1, <3>1, <3>2, <3>3, <3>4, <3>5, <3>6, <3>7 DEF Registry
    <2> QED
        BY <1>0, <2>2, <2>5, <2>6
<1> QED
    BY <1>1, <1>2

LEMMA TakenFits ==
    ASSUME NEW s, Registry(s), NEW g
    PROVE  Registry(Taken(s, g)) /\ \A h : Contains(Taken(s, g), h) => Contains(s, h)
<1> USE Constants
<1>0. s \in Seq(Gens) /\ Len(s) \in Nat /\ Len(s) <= Limit /\ IsInjective(s) /\ DOMAIN s = 1..Len(s)
    BY DEF Registry
<1>1. CASE ~Contains(s, g)
    BY <1>1 DEF Taken
<1>2. CASE Contains(s, g)
    <2> DEFINE k == CHOOSE i \in DOMAIN s : s[i] = g
               t == RemoveAt(s, k)
    <2>1. k \in 1..Len(s)
        BY <1>0, <1>2 DEF Contains
    <2>2. Taken(s, g) = t
        BY <1>2 DEF Taken
    <2> HIDE DEF k
    <2>3. /\ SubSeq(s, 1, k - 1) \in Seq(Gens) /\ Len(SubSeq(s, 1, k - 1)) = k - 1
          /\ \A i \in 1..(k - 1) : SubSeq(s, 1, k - 1)[i] = s[i]
        BY <1>0, <2>1
    <2>4. /\ SubSeq(s, k + 1, Len(s)) \in Seq(Gens) /\ Len(SubSeq(s, k + 1, Len(s))) = Len(s) - k
          /\ \A i \in 1..(Len(s) - k) : SubSeq(s, k + 1, Len(s))[i] = s[i + k]
        <3>1. /\ k + 1 \in Int /\ Len(s) \in Int /\ k <= Len(s) /\ k \in Nat
              /\ \A i \in (k + 1)..Len(s) : s[i] \in Gens
            BY <1>0, <2>1
        <3>2. /\ SubSeq(s, k + 1, Len(s)) \in Seq(Gens)
              /\ Len(SubSeq(s, k + 1, Len(s))) = IF k + 1 <= Len(s) THEN Len(s) - (k + 1) + 1 ELSE 0
              /\ \A i \in 1..(Len(s) - (k + 1) + 1) : SubSeq(s, k + 1, Len(s))[i] = s[(k + 1) + i - 1]
            BY <3>1, SubSeqProperties
        <3>3. \A i \in 1..(Len(s) - k) : i \in 1..(Len(s) - (k + 1) + 1) /\ (k + 1) + i - 1 = i + k
            BY <3>1
        <3> QED
            BY <3>1, <3>2, <3>3
    <2>5. /\ t \in Seq(Gens) /\ Len(t) = Len(s) - 1
          /\ \A i \in 1..(Len(s) - 1) : t[i] = IF i < k THEN s[i] ELSE s[i + 1]
        <3> DEFINE u == SubSeq(s, 1, k - 1)
                   v == SubSeq(s, k + 1, Len(s))
        <3>1. /\ u \in Seq(Gens) /\ Len(u) = k - 1 /\ \A i \in 1..(k - 1) : u[i] = s[i]
              /\ v \in Seq(Gens) /\ Len(v) = Len(s) - k /\ \A i \in 1..(Len(s) - k) : v[i] = s[i + k]
              /\ t = u \o v
            BY <2>3, <2>4 DEF RemoveAt
        <3> HIDE DEF u, v, t
        <3>2. /\ u \o v \in Seq(Gens) /\ Len(u \o v) = Len(u) + Len(v)
              /\ \A i \in 1..(Len(u) + Len(v)) : (u \o v)[i] = IF i <= Len(u) THEN u[i] ELSE v[i - Len(u)]
            BY <3>1, ConcatProperties
        <3>3. k \in Nat /\ Len(s) \in Nat /\ k >= 1 /\ k <= Len(s) /\ Len(u) + Len(v) = Len(s) - 1
            BY <1>0, <2>1, <3>1
        <3>4. ASSUME NEW i \in 1..(Len(s) - 1)
              PROVE  t[i] = IF i < k THEN s[i] ELSE s[i + 1]
            <4>1. t[i] = IF i <= k - 1 THEN u[i] ELSE v[i - (k - 1)]
                BY <3>1, <3>2, <3>3, <3>4
            <4>2. CASE i < k
                BY <3>1, <3>3, <4>1, <4>2
            <4>3. CASE ~(i < k)
                <5>1. i - (k - 1) \in 1..(Len(s) - k) /\ (i - (k - 1)) + k = i + 1
                    BY <3>3, <4>3
                <5> QED
                    BY <3>1, <3>3, <4>1, <4>3, <5>1
            <4> QED
                BY <4>2, <4>3
        <3> QED
            BY <3>1, <3>2, <3>3, <3>4
    <2> HIDE DEF t
    <2>6. IsInjective(t)
        <3>1. DOMAIN t = 1..(Len(s) - 1)
            BY <1>0, <2>5
        <3> SUFFICES ASSUME NEW i \in 1..(Len(s) - 1), NEW j \in 1..(Len(s) - 1), t[i] = t[j]
                     PROVE  i = j
            BY <3>1 DEF IsInjective
        <3> DEFINE at(x) == IF x < k THEN x ELSE x + 1
        <3>2. \A x \in 1..(Len(s) - 1) : at(x) \in 1..Len(s) /\ t[x] = s[at(x)]
            <4>1. SUFFICES ASSUME NEW x \in 1..(Len(s) - 1)
                           PROVE  at(x) \in 1..Len(s) /\ t[x] = s[at(x)]
                OBVIOUS
            <4>2. CASE x < k
                BY <1>0, <2>5, <4>2
            <4>3. CASE ~(x < k)
                BY <1>0, <2>5, <4>3
            <4> QED
                BY <4>2, <4>3
        <3> HIDE DEF at
        <3>3. at(i) = at(j)
            <4>1. at(i) \in DOMAIN s /\ at(j) \in DOMAIN s /\ s[at(i)] = s[at(j)]
                BY <1>0, <3>2
            <4> QED
                BY <1>0, <4>1 DEF IsInjective
        <3> USE DEF at
        <3> QED
            BY <1>0, <2>1, <3>3
    <2>7. ASSUME NEW h, Contains(t, h) PROVE Contains(s, h)
        <3>1. PICK i \in 1..(Len(s) - 1) : t[i] = h
            BY <2>5, <2>7 DEF Contains
        <3>2. i \in 1..Len(s) /\ i + 1 \in 1..Len(s) /\ (s[i] = h \/ s[i + 1] = h)
            BY <1>0, <2>5, <3>1
        <3> QED
            BY <3>2 DEF Contains
    <2> QED
        BY <1>0, <2>2, <2>5, <2>6, <2>7 DEF Registry
<1> QED
    BY <1>1, <1>2

\* What a step that retires the turns of S does to the tombstones.
Retiring(S) ==
    /\ Registry(retired') /\ forgotten \subseteq forgotten' /\ forgotten' \subseteq Gens
    /\ \A h : Contains(retired', h) => Contains(retired, h) \/ h \in S
    /\ \A h : Contains(retired, h) \/ h \in S => Contains(retired', h) \/ h \in forgotten'

LEMMA NothingRetires == ASSUME TypeOK, UNCHANGED <<retired, forgotten>> PROVE Retiring({})
BY DEF TypeOK, Registry, Retiring

LEMMA RetiresFits == ASSUME TypeOK, NEW g \in Gens, Retires(g) PROVE Retiring({g})
<1>1. Registry(retired) /\ forgotten \subseteq Gens
    BY DEF TypeOK, Registry
<1>2. /\ retired' = Kept(Added(retired, g))
      /\ forgotten' = forgotten \cup Evicted(Added(retired, g))
    BY DEF Retires
<1> QED
    BY <1>1, <1>2, PushFits DEF Retiring

LEMMA IgnoredFits == ASSUME TypeOK, NEW g \in Gens, Ignored(g) PROVE Retiring({g})
<1>1. CASE Contains(retired, g)
    <2>1. UNCHANGED <<retired, forgotten>> /\ Registry(retired) /\ forgotten \subseteq Gens
        BY <1>1 DEF Ignored, TypeOK, Registry
    <2> QED
        BY <1>1, <2>1 DEF Retiring
<1>2. CASE ~Contains(retired, g)
    BY <1>2, RetiresFits DEF Ignored
<1> QED
    BY <1>1, <1>2

LEMMA DropBoundFits ==
    ASSUME TypeOK, NEW g \in Gens, DropBound(g)
    PROVE  /\ bound' = bound \ {g} /\ Registry(completed') /\ Retiring(bound \cap {g})
           /\ \A h : Contains(completed', h) => Contains(completed, h) \/ (h = g /\ g \in bound)
           /\ g \notin bound => completed' = completed /\ UNCHANGED <<retired, forgotten>>
<1>1. Registry(completed)
    BY DEF TypeOK, Registry
<1>2. CASE g \in bound
    <2>1. completed' = Kept(Added(completed, g)) /\ Retires(g) /\ bound \cap {g} = {g} /\ bound' = bound \ {g}
        BY <1>2 DEF DropBound
    <2> QED
        BY <1>1, <1>2, <2>1, PushFits, RetiresFits
<1>3. CASE g \notin bound
    <2>1. UNCHANGED <<completed, retired, forgotten>> /\ bound \cap {g} = {} /\ bound' = bound \ {g}
        BY <1>3 DEF DropBound
    <2> QED
        BY <1>1, <1>3, <2>1, NothingRetires
<1> QED
    BY <1>2, <1>3

\* What has slipped through stays so.
LEMMA SlipStays ==
    ASSUME outlived \subseteq outlived', forgotten \subseteq forgotten',
           \A g \in Gens : said[g] # "none" => said'[g] = said[g],
           Excused \subseteq Gens
    PROVE  Slipped => Slipped'
BY DEF Slipped, Excused

LEMMA ExcusedAreTurns == TypeOK => Excused \subseteq Gens
BY DEF TypeOK, Excused

-----------------------------------------------------------------------------
(* startTurn. *)

LEMMA StartSound == ASSUME IInv, Start PROVE IInv'
<1> DEFINE g == gen + 1
<1> USE Constants
<1>1. /\ gen < MaxTurns /\ ~busy /\ claim.id = None /\ gen' = g /\ busy' = TRUE
      /\ claim' = [id |-> g, phase |-> "setup"]
      /\ body' = [body EXCEPT ![g] = "setup"]
      /\ owed' = owed \cup {g}
      /\ UNCHANGED <<engine, card, registries, told, watch, grace, settling, history>>
    BY DEF Start, ThreadBusy
<1>2. /\ TypeOK /\ FutureFits /\ EngineFits /\ ClaimFits /\ OwedFits /\ ToldFits
      /\ RegistriesFit /\ GraceFits /\ SettlingFits /\ LooseAreMute
    BY DEF IInv, Always
<1>3. /\ gen \in Nat /\ g \in Gens /\ g > gen /\ g # None
      /\ \A h \in Gens : h > g => h > gen
    BY <1>1, <1>2 DEF TypeOK, Gens, None
<1>4. /\ body[g] = "none" /\ engine[g] = "none" /\ told[g] = "none" /\ g \notin owed /\ g \notin cut
      /\ g \notin bound
    BY <1>2, <1>3 DEF FutureFits, EngineFits, OwedFits
<1>5. \A h \in Gens : body'[h] = IF h = g THEN "setup" ELSE body[h]
    BY <1>1, <1>2 DEF TypeOK
<1>6. TypeOK'
    <2>1. gen' \in 0..MaxTurns /\ claim' \in [id : {None, gen'}, phase : {"setup", "dispatching"}]
        BY <1>1, <1>3 DEF Gens
    <2>2. body' \in [Gens -> Bodies] /\ owed' \subseteq Gens
        BY <1>1, <1>2, <1>3 DEF TypeOK, Bodies
    <2> QED
        BY <1>1, <1>2, <2>1, <2>2 DEF TypeOK, registries, history
<1>7. FutureFits' /\ EngineFits'
    BY <1>1, <1>2, <1>3, <1>4, <1>5 DEF FutureFits, EngineFits, registries, history
<1>8. ClaimFits'
    BY <1>1, <1>2, <1>3, <1>4, <1>5 DEF ClaimFits, ClaimIs, history
<1>9. OwedFits'
    BY <1>1, <1>2, <1>3, <1>4, <1>5 DEF OwedFits, registries, history
<1>10. (ToldFits /\ RegistriesFit /\ GraceFits /\ SettlingFits)'
    BY <1>1, <1>2, <1>4, <1>5 DEF ToldFits, RegistriesFit, GraceFits, SettlingFits, registries, history
<1>11. LooseAreMute'
    BY <1>1, <1>2, <1>4 DEF LooseAreMute, ClaimIs, Excused, registries, history
<1>12. Slipped' = Slipped
    BY <1>1 DEF Slipped, Excused, history
<1>13. ASSUME Intact PROVE Intact'
    <2>1. \A h \in Gens : ~Held(h)
        BY <1>1, <1>13 DEF Intact, HeldHolds
    <2>2. HeldHolds'
        BY <1>1, <2>1 DEF HeldHolds, Held, registries, history
    <2>3. EarlyIsKept'
        BY <1>1, <1>4 DEF EarlyIsKept, ClaimIs
    <2>4. OwnSettling' /\ WatchFits' /\ OutcomeTold'
        BY <1>1, <1>3, <1>4, <1>5, <1>13 DEF Intact, OwnSettling, WatchFits, OutcomeTold, history
    <2> QED
        BY <2>2, <2>3, <2>4 DEF Intact
<1> QED
    BY <1>6, <1>7, <1>8, <1>9, <1>10, <1>11, <1>12, <1>13 DEF IInv, Always

LEMMA DispatchSound == ASSUME IInv, NEW g \in Gens, Dispatch(g) PROVE IInv'
<1> USE Constants
<1>1. /\ body[g] = "setup" /\ quarantined = {} /\ claim.id = g /\ busy
      /\ claim' = [id |-> g, phase |-> "dispatching"]
      /\ watch' = "on"
      /\ body' = [body EXCEPT ![g] = "sending"]
      /\ engine' = [engine EXCEPT ![g] = "live"]
      /\ UNCHANGED <<gen, busy, card, registries, owed, told, grace, settling, history>>
    BY DEF Dispatch, GateOpen, ClaimIs
<1>2. /\ TypeOK /\ FutureFits /\ EngineFits /\ ClaimFits /\ OwedFits /\ ToldFits
      /\ RegistriesFit /\ GraceFits /\ SettlingFits /\ LooseAreMute
    BY DEF IInv, Always
<1>3. /\ gen = g /\ g # None /\ g \notin cut /\ engine[g] = "none" /\ g \in owed /\ g \notin bound
      /\ ~Contains(retired, g)
    BY <1>1, <1>2 DEF TypeOK, ClaimFits, EngineFits, OwedFits, RegistriesFit
<1>4. \A h \in Gens : /\ body'[h] = IF h = g THEN "sending" ELSE body[h]
                      /\ engine'[h] = IF h = g THEN "live" ELSE engine[h]
    BY <1>1, <1>2 DEF TypeOK
<1>5. TypeOK'
    <2>1. claim' \in [id : {None, gen'}, phase : {"setup", "dispatching"}]
        BY <1>1, <1>3
    <2>2. body' \in [Gens -> Bodies] /\ engine' \in [Gens -> {"none", "live", "over"}]
        BY <1>1, <1>2 DEF TypeOK, Bodies
    <2> QED
        BY <1>1, <1>2, <2>1, <2>2 DEF TypeOK, registries, history
<1>6. FutureFits' /\ EngineFits'
    BY <1>1, <1>2, <1>3, <1>4 DEF FutureFits, EngineFits, history
<1>7. ClaimFits'
    BY <1>1, <1>2, <1>3, <1>4 DEF ClaimFits, ClaimIs, history
<1>8. OwedFits'
    BY <1>1, <1>2, <1>3, <1>4 DEF OwedFits, registries, history
<1>9. (ToldFits /\ RegistriesFit /\ GraceFits)'
    BY <1>1, <1>2, <1>3, <1>4 DEF ToldFits, RegistriesFit, GraceFits, registries, history
<1>10. \A s \in settling : s.by \in Gens /\ s.by # g
    BY <1>2, <1>3 DEF TypeOK, SettlingFits
<1>11. SettlingFits'
    BY <1>1, <1>2, <1>4, <1>10 DEF SettlingFits
<1>12. LooseAreMute'
    BY <1>1, <1>2, <1>4 DEF LooseAreMute, ClaimIs, Excused, registries, history
<1>13. Slipped' = Slipped
    BY <1>1 DEF Slipped, Excused, history
<1>14. ASSUME Intact PROVE Intact'
    <2>1. HeldHolds'
        BY <1>1, <1>3, <1>4, <1>14 DEF Intact, HeldHolds, Held, registries, history
    <2>2. EarlyIsKept'
        BY <1>1, <1>4 DEF EarlyIsKept, ClaimIs
    <2>3. WatchFits'
        BY <1>1, <1>2, <1>3, <1>4, <1>10 DEF WatchFits, GraceFits
    <2>4. OwnSettling' /\ OutcomeTold'
        BY <1>1, <1>4, <1>14 DEF Intact, OwnSettling, OutcomeTold, history
    <2> QED
        BY <2>1, <2>2, <2>3, <2>4 DEF Intact
<1> QED
    BY <1>5, <1>6, <1>7, <1>8, <1>9, <1>11, <1>12, <1>13, <1>14 DEF IInv, Always

\* A turn that comes to nothing has been stopped, or failed, and lets go.
LEMMA AbandonSound ==
    ASSUME IInv, NEW g \in Gens, NEW S, S \subseteq {g},
           body[g] \in {"setup", "sending", "stopping"}, Abandon(g),
           engine' = engine \/ (engine' = [engine EXCEPT ![g] = "over"] /\ body[g] = "sending"),
           engine'[g] = "live" => g \in S,
           S = {g} => engine[g] # "none",
           Retiring(S), UNCHANGED <<bound, completed, card>>
    PROVE  IInv'
<1> USE Constants
<1>1. /\ body' = [body EXCEPT ![g] = "done"]
      /\ owed' = owed \ {g}
      /\ told' = IF g \in owed THEN [told EXCEPT ![g] = "interrupted"] ELSE told
      /\ quarantined' = quarantined \ {g}
      /\ claim' = IF claim.id = g THEN NoClaim ELSE claim
      /\ watch' = IF gen = g THEN "off" ELSE watch
      /\ busy' = IF gen = g THEN FALSE ELSE busy
      /\ cut' = cut \cup {g}
      /\ UNCHANGED <<gen, early, grace, settling, said, outlived, bound, completed, card>>
    BY DEF Abandon, FollowupSettled, Frees, ClaimIs
<1>2. /\ TypeOK /\ FutureFits /\ EngineFits /\ ClaimFits /\ OwedFits /\ ToldFits
      /\ RegistriesFit /\ GraceFits /\ SettlingFits /\ LooseAreMute
    BY DEF IInv, Always
<1>3. g \notin bound /\ g # None /\ g <= gen
    BY <1>2 DEF OwedFits, FutureFits, TypeOK
<1>4. \A h \in Gens : /\ body'[h] = IF h = g THEN "done" ELSE body[h]
                      /\ h # g => engine'[h] = engine[h] /\ told'[h] = told[h]
                      /\ engine'[h] = engine[h] \/ engine'[h] = "over"
                      /\ engine'[h] = "none" <=> engine[h] = "none"
                      /\ told'[h] = told[h] \/ (told'[h] = "interrupted" /\ h = g)
    BY <1>1, <1>2 DEF TypeOK, EngineFits
<1>5. /\ claim'.id # None => claim' = claim /\ claim.id # g
      /\ claim.id # None /\ claim.id # g => claim' = claim
      /\ claim'.id = None => claim'.phase = "setup"
    BY <1>1, <1>2 DEF NoClaim, ClaimFits
<1>6. TypeOK'
    <2>1. claim' \in [id : {None, gen'}, phase : {"setup", "dispatching"}]
        BY <1>1, <1>2 DEF TypeOK, NoClaim
    <2>2. /\ body' \in [Gens -> Bodies] /\ engine' \in [Gens -> {"none", "live", "over"}]
          /\ told' \in [Gens -> Outcomes] /\ busy' \in BOOLEAN /\ watch' \in {"off", "on", "silent", "waiting"}
        BY <1>1, <1>2 DEF TypeOK, Bodies, Outcomes
    <2>3. /\ retired' \in Seq(Gens) /\ Len(retired') <= Limit /\ IsInjective(retired') /\ forgotten' \subseteq Gens
        BY DEF Retiring, Registry
    <2>4. \A s \in {retired', completed', early'} : s \in Seq(Gens) /\ Len(s) <= Limit /\ IsInjective(s)
        BY <1>1, <1>2, <2>3 DEF TypeOK
    <2>5. /\ owed' \subseteq Gens /\ quarantined' \subseteq Gens /\ bound' \subseteq Gens
          /\ \A T \in {cut', outlived', forgotten'} : T \subseteq Gens
        BY <1>1, <1>2, <2>3 DEF TypeOK
    <2>6. /\ gen' \in 0..MaxTurns /\ card' \in [Gens -> Requests] /\ said' \in [Gens -> Outcomes]
          /\ grace' \subseteq Gens /\ settling' \subseteq [of : Gens, by : Gens]
        BY <1>1, <1>2 DEF TypeOK
    <2> QED
        BY <2>1, <2>2, <2>4, <2>5, <2>6 DEF TypeOK
<1>7. FutureFits'
    BY <1>1, <1>2, <1>3, <1>4 DEF FutureFits, TypeOK, Gens
<1>8. EngineFits'
    BY <1>1, <1>2, <1>4 DEF EngineFits
<1>9. ClaimFits'
    <2>1. ASSUME claim'.id # None
          PROVE  /\ claim'.id \notin cut' /\ claim'.id \in Gens
                 /\ body'[claim'.id] = IF claim'.phase = "setup" THEN "setup" ELSE "sending"
        BY <2>1, <1>1, <1>2, <1>4, <1>5 DEF ClaimFits, TypeOK, Gens, None
    <2> QED
        BY <2>1, <1>1, <1>2, <1>4, <1>5 DEF ClaimFits, ClaimIs
<1>10. OwedFits'
    BY <1>1, <1>2, <1>3, <1>4 DEF OwedFits
<1>11. ToldFits'
    BY <1>1, <1>2, <1>4 DEF ToldFits
<1>12. RegistriesFit'
    BY <1>1, <1>2, <1>4 DEF RegistriesFit, Retiring
<1>13. GraceFits'
    BY <1>1, <1>2 DEF GraceFits
<1>14. SettlingFits'
    BY <1>1, <1>2, <1>4 DEF SettlingFits, TypeOK
<1>15. LooseAreMute'
    BY <1>1, <1>2, <1>4, <1>5 DEF LooseAreMute, ClaimIs, Excused, Retiring
<1>16. Slipped => Slipped'
    BY <1>1, <1>2, SlipStays, ExcusedAreTurns DEF Retiring
<1>17. ASSUME Intact PROVE Intact'
    <2>1. \A h \in Gens : Held(h)' => h # g /\ Held(h)
        BY <1>1, <1>3, <1>4 DEF Held
    <2>2. HeldHolds'
        BY <1>1, <1>4, <1>17, <2>1 DEF Intact, HeldHolds, Retiring, Held
    <2>3. EarlyIsKept'
        BY <1>1, <1>2, <1>4, <1>5, <1>17 DEF Intact, EarlyIsKept, ClaimIs
    <2>4. OwnSettling' /\ OutcomeTold'
        BY <1>1, <1>4, <1>17 DEF Intact, OwnSettling, OutcomeTold
    <2>5. WatchFits'
        BY <1>1, <1>2, <1>4, <1>17 DEF Intact, WatchFits, TypeOK, Gens, None
    <2> QED
        BY <2>2, <2>3, <2>4, <2>5 DEF Intact
<1> QED
    BY <1>6, <1>7, <1>8, <1>9, <1>10, <1>11, <1>12, <1>13, <1>14, <1>15, <1>16, <1>17 DEF IInv, Always

LEMMA FailuresSound ==
    ASSUME IInv, NEW g \in Gens, SetupFails(g) \/ SendFails(g) \/ CancelledDone(g)
    PROVE  IInv'
<1>1. TypeOK /\ engine \in [Gens -> {"none", "live", "over"}]
    BY DEF IInv, Always, TypeOK
<1>2. /\ body[g] \in {"setup", "sending", "stopping"} => g \notin bound
      /\ body[g] = "setup" => engine[g] = "none"
      /\ body[g] = "stopping" => engine[g] # "none"
    BY DEF IInv, Always, OwedFits, EngineFits
<1>3. ASSUME g \notin bound, DropBound(g)
      PROVE  Retiring({}) /\ UNCHANGED <<bound, completed>>
    BY <1>1, <1>3, DropBoundFits, NothingRetires
<1>4. CASE SetupFails(g)
    <2>1. body[g] = "setup" /\ Abandon(g) /\ DropBound(g) /\ UNCHANGED <<engine, card>>
        BY <1>4 DEF SetupFails
    <2> QED
        BY <1>2, <1>3, <2>1, AbandonSound
<1>5. CASE SendFails(g)
    <2>1. body[g] = "sending" /\ Abandon(g) /\ DropBound(g) /\ UNCHANGED card
          /\ engine' = [engine EXCEPT ![g] = "over"]
        BY <1>5 DEF SendFails
    <2>2. engine'[g] # "live"
        BY <1>1, <2>1
    <2> QED
        BY <1>2, <1>3, <2>1, <2>2, AbandonSound
<1>6. CASE CancelledDone(g)
    <2>1. body[g] = "stopping" /\ Abandon(g) /\ Retires(g) /\ UNCHANGED <<engine, card, bound, completed>>
        BY <1>6 DEF CancelledDone
    <2>2. Retiring({g})
        BY <1>1, <2>1, RetiresFits
    <2> QED
        BY <1>2, <2>1, <2>2, AbandonSound
<1> QED
    BY <1>4, <1>5, <1>6

\* A turn that is acknowledged is bound, or settled by what came before.
LEMMA AcknowledgedSound == ASSUME IInv, NEW g \in Gens, Acknowledged(g) PROVE IInv'
<1> USE Constants
<1>1. /\ body[g] = "sending" /\ claim.id = g /\ claim' = NoClaim
      /\ body' = [body EXCEPT ![g] = "done"]
      /\ UNCHANGED <<gen, busy, engine, card, quarantined, retired, completed, watch, grace, settling, history>>
    BY DEF Acknowledged, ClaimIs
<1>2. /\ TypeOK /\ FutureFits /\ EngineFits /\ ClaimFits /\ OwedFits /\ ToldFits
      /\ RegistriesFit /\ GraceFits /\ SettlingFits /\ LooseAreMute
    BY DEF IInv, Always
<1>3. g # None /\ gen = g /\ g \notin cut /\ g \in owed /\ told[g] = "none" /\ engine[g] # "none"
    BY <1>1, <1>2 DEF TypeOK, ClaimFits, OwedFits, EngineFits
<1>4. \A h \in Gens : body'[h] = IF h = g THEN "done" ELSE body[h]
    BY <1>1, <1>2 DEF TypeOK
<1>5. claim'.id = None /\ claim'.phase = "setup" /\ claim' \in [id : {None, gen'}, phase : {"setup", "dispatching"}]
    BY <1>1 DEF NoClaim
<1>6. body' \in [Gens -> Bodies]
    BY <1>1, <1>2 DEF TypeOK, Bodies
<1>7. (FutureFits /\ EngineFits /\ ClaimFits)'
    <2>1. owed' \subseteq owed /\ \A h \in Gens : h # g => told'[h] = told[h]
        BY <1>1, <1>2, <1>3 DEF Acknowledged, FollowupSettled, TypeOK
    <2> QED
        BY <1>1, <1>2, <1>3, <1>4, <1>5, <2>1 DEF FutureFits, EngineFits, ClaimFits, ClaimIs, history, TypeOK, Gens
<1>8. CASE Contains(completed, g)
    <2>1. /\ owed' = owed \ {g} /\ told' = [told EXCEPT ![g] = EarlyOutcome(g)]
          /\ early' = Taken(early, g) /\ bound' = bound
        BY <1>3, <1>8 DEF Acknowledged, FollowupSettled
    <2>2. engine[g] = "over"
        BY <1>2, <1>3, <1>8 DEF RegistriesFit
    <2>3. /\ early' \in Seq(Gens) /\ Len(early') <= Limit /\ IsInjective(early')
          /\ \A h : Contains(early', h) => Contains(early, h)
        BY <1>2, <2>1, TakenFits DEF TypeOK, Registry
    <2>4. \A h \in Gens : told'[h] = IF h = g THEN EarlyOutcome(g) ELSE told[h]
        BY <1>2, <2>1 DEF TypeOK
    <2>5. EarlyOutcome(g) \in Outcomes /\ (EarlyOutcome(g) \in {"ok", "failed"} => EarlyOutcome(g) = said[g])
        BY <1>2 DEF TypeOK, EarlyOutcome, Outcomes
    <2>6. TypeOK'
        <3>1. told' \in [Gens -> Outcomes] /\ owed' \subseteq Gens
            BY <1>2, <2>1, <2>5 DEF TypeOK
        <3>2. \A s \in {retired', completed', early'} : s \in Seq(Gens) /\ Len(s) <= Limit /\ IsInjective(s)
            BY <1>1, <1>2, <2>3 DEF TypeOK
        <3> QED
            BY <1>1, <1>2, <1>5, <1>6, <2>1, <3>1, <3>2 DEF TypeOK, history
    <2>7. OwedFits'
        BY <1>1, <1>2, <1>3, <1>4, <2>1, <2>2, <2>4 DEF OwedFits, history
    <2>8. (ToldFits /\ RegistriesFit /\ GraceFits /\ SettlingFits)'
        BY <1>1, <1>2, <1>4, <2>1, <2>3, <2>4, <2>5 DEF ToldFits, RegistriesFit, GraceFits, SettlingFits, history
    <2>9. LooseAreMute'
        BY <1>1, <1>2, <1>5, <2>1, <2>2 DEF LooseAreMute, ClaimIs, Excused, history
    <2>10. Slipped' = Slipped
        BY <1>1 DEF Slipped, Excused, history
    <2>11. ASSUME Intact PROVE Intact'
        <3>1. HeldHolds'
            BY <1>1, <2>1, <2>11 DEF Intact, HeldHolds, Held, history
        <3>2. EarlyIsKept'
            BY <1>5 DEF EarlyIsKept, ClaimIs
        <3>3. OwnSettling' /\ WatchFits'
            BY <1>1, <2>11 DEF Intact, OwnSettling, WatchFits
        <3>4. EarlyOutcome(g) = said[g]
            BY <1>1, <2>2, <2>11 DEF Intact, EarlyIsKept, ClaimIs, EarlyOutcome
        <3>5. OutcomeTold'
            BY <1>1, <1>4, <2>4, <2>11, <3>4 DEF Intact, OutcomeTold, history
        <3> QED
            BY <3>1, <3>2, <3>3, <3>5 DEF Intact
    <2> QED
        BY <1>7, <2>6, <2>7, <2>8, <2>9, <2>10, <2>11 DEF IInv, Always
<1>9. CASE ~Contains(completed, g)
    <2>1. bound' = bound \cup {g} /\ UNCHANGED <<early, owed, told>>
        BY <1>3, <1>9 DEF Acknowledged
    <2>2. TypeOK'
        BY <1>1, <1>2, <1>5, <1>6, <2>1 DEF TypeOK, history
    <2>3. OwedFits'
        BY <1>1, <1>2, <1>3, <1>4, <2>1 DEF OwedFits, history
    <2>4. (ToldFits /\ RegistriesFit /\ GraceFits /\ SettlingFits)'
        BY <1>1, <1>2, <1>3, <1>4, <1>9, <2>1 DEF ToldFits, RegistriesFit, GraceFits, SettlingFits, history
    <2>5. LooseAreMute'
        BY <1>1, <1>2, <1>5, <2>1 DEF LooseAreMute, ClaimIs, Excused, history
    <2>6. Slipped' = Slipped
        BY <1>1 DEF Slipped, Excused, history
    <2>7. ASSUME Intact PROVE Intact'
        <3>1. engine[g] = "live"
            BY <1>1, <1>2, <1>3, <1>9, <2>7 DEF Intact, EarlyIsKept, ClaimIs, TypeOK
        <3>2. \A h \in Gens : Held(h)' => Held(h)
            BY <1>1, <1>3, <2>1, <3>1 DEF Held, history
        <3>3. HeldHolds'
            BY <1>1, <2>7, <3>2 DEF Intact, HeldHolds, history
        <3>4. EarlyIsKept'
            BY <1>5 DEF EarlyIsKept, ClaimIs
        <3>5. OwnSettling' /\ WatchFits'
            BY <1>1, <2>7 DEF Intact, OwnSettling, WatchFits
        <3>6. OutcomeTold'
            BY <1>1, <1>2, <1>4, <2>1, <2>7, <3>1 DEF Intact, OutcomeTold, EngineFits, history
        <3> QED
            BY <3>3, <3>4, <3>5, <3>6 DEF Intact
    <2> QED
        BY <1>7, <2>2, <2>3, <2>4, <2>5, <2>6, <2>7 DEF IInv, Always
<1> QED
    BY <1>8, <1>9

LEMMA CancelledAckSound == ASSUME IInv, NEW g \in Gens, CancelledAck(g) PROVE IInv'
<1> USE Constants
<1>1. /\ body[g] = "sending" /\ ~ClaimIs(g)
      /\ body' = [body EXCEPT ![g] = "stopping"]
      /\ UNCHANGED <<gen, busy, claim, engine, card, registries, owed, told, watch, grace, settling, history>>
    BY DEF CancelledAck
<1>2. /\ TypeOK /\ FutureFits /\ EngineFits /\ ClaimFits /\ OwedFits /\ ToldFits
      /\ RegistriesFit /\ GraceFits /\ SettlingFits /\ LooseAreMute
    BY DEF IInv, Always
<1>3. g \in cut
    BY <1>1, <1>2 DEF ClaimFits
<1>4. \A h \in Gens : body'[h] = IF h = g THEN "stopping" ELSE body[h]
    BY <1>1, <1>2 DEF TypeOK
<1>5. TypeOK'
    <2>1. body' \in [Gens -> Bodies]
        BY <1>1, <1>2 DEF TypeOK, Bodies
    <2> QED
        BY <1>1, <1>2, <2>1 DEF TypeOK, registries, history
<1>6. (FutureFits /\ EngineFits)'
    BY <1>1, <1>2, <1>4 DEF FutureFits, EngineFits, history
<1>7. (ClaimFits /\ OwedFits)'
    BY <1>1, <1>2, <1>3, <1>4 DEF ClaimFits, ClaimIs, OwedFits, TypeOK, registries, history
<1>8. (ToldFits /\ RegistriesFit /\ GraceFits /\ SettlingFits /\ LooseAreMute)'
    BY <1>1, <1>2, <1>4 DEF ToldFits, RegistriesFit, GraceFits, SettlingFits, LooseAreMute, ClaimIs, Excused,
                            registries, history
<1>9. Slipped' = Slipped
    BY <1>1 DEF Slipped, Excused, history
<1>10. ASSUME Intact PROVE Intact'
    BY <1>1, <1>4, <1>10 DEF Intact, HeldHolds, Held, EarlyIsKept, ClaimIs, OwnSettling, WatchFits, OutcomeTold,
                             registries, history
<1> QED
    BY <1>5, <1>6, <1>7, <1>8, <1>9, <1>10 DEF IInv, Always

-----------------------------------------------------------------------------
(* The engine. *)

\* An event that is ignored retires its turn; a card moves the watchdog.
LEMMA EventSound ==
    ASSUME IInv, NEW g \in Gens, engine[g] # "none", NEW S, S \subseteq {g}, S # {} => ~Heard(g),
           Retiring(S), card' \in [Gens -> Requests],
           \A h \in Gens, c \in Cards : card'[h][c] # "none" => engine[h] # "none",
           watch' \in {"off", "on", "silent", "waiting"}, watch' = "off" <=> watch = "off",
           UNCHANGED <<gen, busy, claim, body, engine, quarantined, bound, completed, early, owed, told,
                       grace, settling, said, cut, outlived>>
    PROVE  IInv'
<1> USE Constants
<1>2. /\ TypeOK /\ FutureFits /\ EngineFits /\ ClaimFits /\ OwedFits /\ ToldFits
      /\ RegistriesFit /\ GraceFits /\ SettlingFits /\ LooseAreMute
    BY DEF IInv, Always
<1>3. TypeOK'
    <2>1. \A s \in {retired', completed', early'} : s \in Seq(Gens) /\ Len(s) <= Limit /\ IsInjective(s)
        BY <1>2 DEF TypeOK, Retiring, Registry
    <2>2. \A T \in {cut', outlived', forgotten'} : T \subseteq Gens
        <3>1. cut' \subseteq Gens /\ outlived' \subseteq Gens
            BY <1>2 DEF TypeOK
        <3>2. forgotten' \subseteq Gens
            BY DEF Retiring
        <3> QED
            BY <3>1, <3>2
    <2> QED
        BY <1>2, <2>1, <2>2 DEF TypeOK
<1>4. (FutureFits /\ EngineFits /\ ClaimFits /\ OwedFits /\ ToldFits)'
    BY <1>2 DEF FutureFits, EngineFits, ClaimFits, ClaimIs, OwedFits, ToldFits
<1>5. (RegistriesFit /\ GraceFits /\ SettlingFits)'
    BY <1>2 DEF RegistriesFit, GraceFits, SettlingFits, Retiring
<1>6. LooseAreMute'
    BY <1>2 DEF LooseAreMute, ClaimIs, Excused, Retiring
<1>7. Slipped => Slipped'
    BY <1>2, SlipStays, ExcusedAreTurns DEF Retiring
<1>8. ASSUME Intact PROVE Intact'
    <2>1. HeldHolds'
        BY <1>8 DEF Intact, HeldHolds, Held, Heard, Retiring
    <2> QED
        BY <1>8, <2>1 DEF Intact, EarlyIsKept, ClaimIs, OwnSettling, WatchFits, OutcomeTold
<1> QED
    BY <1>3, <1>4, <1>5, <1>6, <1>7, <1>8 DEF IInv, Always

\* A turn's card opens or is resolved, and the others stay as they are.
LEMMA CardsFit ==
    ASSUME TypeOK, EngineFits, NEW g \in Gens, engine[g] # "none", NEW c \in Cards,
           NEW state \in {"none", "open", "closed"}, card' = [card EXCEPT ![g][c] = state], engine' = engine
    PROVE  /\ card' \in [Gens -> Requests]
           /\ \A h \in Gens, d \in Cards : card'[h][d] # "none" => engine[h] # "none"
<1>1. card \in [Gens -> Requests] /\ card[g] \in [Cards -> {"none", "open", "closed"}]
    BY DEF TypeOK, Requests
<1>2. [card[g] EXCEPT ![c] = state] \in Requests
    BY <1>1 DEF Requests
<1>3. card' = [card EXCEPT ![g] = [card[g] EXCEPT ![c] = state]]
    BY <1>1
<1>4. card' \in [Gens -> Requests] /\ \A h \in Gens : h # g => card'[h] = card[h]
    BY <1>1, <1>2, <1>3
<1> QED
    BY <1>4 DEF EngineFits

LEMMA EventsSound ==
    ASSUME IInv, NEW g \in Gens, Activity(g) \/ \E c \in Cards : CardOpens(g, c) \/ CardResolved(g, c)
    PROVE  IInv'
<1>1. /\ TypeOK /\ EngineFits /\ card \in [Gens -> Requests]
      /\ watch \in {"off", "on", "silent", "waiting"}
    BY DEF IInv, Always, TypeOK
<1> DEFINE Others == UNCHANGED <<gen, busy, claim, body, engine, quarantined, bound, completed, early, owed,
                                told, grace, settling, said, cut, outlived>>
           CardsAre == /\ card' \in [Gens -> Requests]
                       /\ \A h \in Gens, c \in Cards : card'[h][c] # "none" => engine[h] # "none"
           WatchIs == IF Heard(g)
                      THEN /\ UNCHANGED <<retired, forgotten>>
                           /\ watch' \in {"off", "on", "silent", "waiting"} /\ (watch' = "off" <=> watch = "off")
                      ELSE Ignored(g) /\ watch' = watch
<1>2. engine[g] # "none" /\ Others /\ CardsAre /\ WatchIs
    <2>1. CASE Activity(g)
        BY <1>1, <2>1 DEF Activity, Touched, EngineFits
    <2>2. CASE \E c \in Cards : CardOpens(g, c) \/ CardResolved(g, c)
        <3>1. PICK c \in Cards : CardOpens(g, c) \/ CardResolved(g, c)
            BY <2>2
        <3>2. engine[g] # "none" /\ Others /\ WatchIs
            BY <1>1, <3>1 DEF CardOpens, CardResolved, EngineFits
        <3>3. PICK state \in {"open", "closed"} : card' = [card EXCEPT ![g][c] = state]
            BY <3>1 DEF CardOpens, CardResolved
        <3>4. CardsAre
            BY <1>1, <3>2, <3>3, CardsFit
        <3> QED
            BY <3>2, <3>4
    <2> QED
        BY <2>1, <2>2
<1>3. CASE Heard(g)
    <2>1. Retiring({})
        BY <1>1, <1>2, <1>3, NothingRetires
    <2> QED
        BY <1>2, <1>3, <2>1, EventSound
<1>4. CASE ~Heard(g)
    <2>1. Retiring({g})
        BY <1>1, <1>2, <1>4, IgnoredFits
    <2> QED
        BY <1>1, <1>2, <1>4, <2>1, EventSound
<1> QED
    BY <1>3, <1>4

\* A completion that is heard is of the turn that holds the conversation, or
\* has slipped through one of the two bounds.
LEMMA HeardIsCurrent ==
    ASSUME Always, Intact, NEW g \in Gens, engine[g] = "live", Heard(g)
    PROVE  gen = g \/ g \in Excused
<1>1. CASE Held(g)
    BY <1>1 DEF Intact, HeldHolds
<1>2. CASE ~Held(g)
    <2>1. g \in cut /\ g \notin bound
        BY <1>2 DEF Held
    <2>2. CASE ClaimIs(g)
        BY <2>1, <2>2, Constants DEF Always, ClaimFits, ClaimIs
    <2>3. CASE ~ClaimIs(g)
        BY <2>1, <2>3 DEF Always, LooseAreMute, Heard
    <2> QED
        BY <2>2, <2>3
<1> QED
    BY <1>1, <1>2

LEMMA CompletedSound ==
    ASSUME IInv, NEW g \in Gens, NEW outcome \in {"ok", "failed"}, Completed(g, outcome)
    PROVE  IInv'
<1> USE Constants
<1>1. /\ engine[g] = "live"
      /\ engine' = [engine EXCEPT ![g] = "over"]
      /\ said' = [said EXCEPT ![g] = outcome]
      /\ UNCHANGED <<gen, busy, claim, body, card, quarantined, grace, cut, outlived>>
    BY DEF Completed
<1>2. /\ TypeOK /\ FutureFits /\ EngineFits /\ ClaimFits /\ OwedFits /\ ToldFits
      /\ RegistriesFit /\ GraceFits /\ SettlingFits /\ LooseAreMute
    BY DEF IInv, Always
<1>3. said[g] = "none" /\ outcome # "none" /\ gen \in Gens
    <2>1. said[g] = "none" /\ body[g] # "none"
        BY <1>1, <1>2 DEF EngineFits
    <2>2. ~(g > gen)
        BY <1>2, <2>1 DEF FutureFits
    <2> QED
        BY <1>2, <2>1, <2>2 DEF TypeOK, Gens
<1>4. \A h \in Gens : /\ engine'[h] = IF h = g THEN "over" ELSE engine[h]
                      /\ said'[h] = IF h = g THEN outcome ELSE said[h]
    BY <1>1, <1>2 DEF TypeOK
<1>5. engine' \in [Gens -> {"none", "live", "over"}] /\ said' \in [Gens -> Outcomes]
    BY <1>1, <1>2 DEF TypeOK, Outcomes
<1>6. EngineFits' /\ ClaimFits'
    BY <1>1, <1>2, <1>4 DEF EngineFits, ClaimFits, ClaimIs
<1>7. CASE ~Heard(g)
    <2>1. Ignored(g) /\ UNCHANGED <<bound, completed, early, owed, told, watch, settling>>
        BY <1>7 DEF Completed
    <2>2. Retiring({g})
        BY <1>2, <2>1, IgnoredFits
    <2>3. TypeOK'
        <3>1. \A s \in {retired', completed', early'} : s \in Seq(Gens) /\ Len(s) <= Limit /\ IsInjective(s)
            BY <1>2, <2>1, <2>2 DEF TypeOK, Retiring, Registry
        <3>2. cut' \subseteq Gens /\ outlived' \subseteq Gens /\ forgotten' \subseteq Gens
            BY <1>1, <1>2, <2>2 DEF TypeOK, Retiring
        <3> QED
            BY <1>1, <1>2, <1>5, <2>1, <3>1, <3>2 DEF TypeOK
    <2>4. (FutureFits /\ OwedFits)'
        BY <1>1, <1>2, <1>4, <2>1 DEF FutureFits, OwedFits
    <2>5. ToldFits'
        BY <1>1, <1>2, <1>3, <1>4, <2>1 DEF ToldFits
    <2>6. (RegistriesFit /\ GraceFits /\ SettlingFits)'
        BY <1>1, <1>2, <1>3, <1>4, <2>1, <2>2 DEF RegistriesFit, GraceFits, SettlingFits, Retiring, TypeOK
    <2>7. LooseAreMute'
        BY <1>1, <1>2, <1>4, <2>1, <2>2 DEF LooseAreMute, ClaimIs, Excused, Retiring
    <2>8. Slipped => Slipped'
        BY <1>1, <1>2, <1>3, <1>4, <2>2, SlipStays, ExcusedAreTurns DEF Retiring
    <2>9. ASSUME Intact PROVE Intact'
        <3>1. ~Held(g)
            BY <1>7, <2>9 DEF Intact, HeldHolds, Heard
        <3>2. g \in cut /\ g \notin bound /\ ~ClaimIs(g)
            BY <1>1, <1>2, <3>1 DEF Held, ClaimFits, ClaimIs
        <3>3. \A h \in Gens : Held(h)' => h # g /\ Held(h)
            BY <1>1, <1>4, <2>1, <3>2 DEF Held
        <3>4. HeldHolds'
            BY <1>1, <1>4, <2>1, <2>2, <2>9, <3>3 DEF Intact, HeldHolds, Retiring
        <3>5. EarlyIsKept'
            BY <1>1, <1>4, <2>1, <2>9, <3>2 DEF Intact, EarlyIsKept, ClaimIs
        <3>6. WatchFits'
            BY <1>1, <1>3, <1>4, <2>1, <2>9 DEF Intact, WatchFits
        <3>7. (OwnSettling /\ OutcomeTold)'
            BY <1>1, <1>4, <2>1, <2>9, <3>2 DEF Intact, OwnSettling, OutcomeTold
        <3> QED
            BY <3>4, <3>5, <3>6, <3>7 DEF Intact
    <2> QED
        BY <1>6, <2>3, <2>4, <2>5, <2>6, <2>7, <2>8, <2>9 DEF IInv, Always
<1>8. CASE Heard(g)
    <2>1. /\ watch' = "off" /\ retired' = retired
          /\ settling' = settling \cup {[of |-> gen, by |-> g]}
        BY <1>8 DEF Completed
    <2>2. settling' \subseteq [of : Gens, by : Gens] /\ SettlingFits'
        BY <1>1, <1>2, <1>3, <1>4, <2>1 DEF TypeOK, SettlingFits
    <2>3. /\ forgotten \subseteq forgotten' /\ forgotten' \subseteq Gens
          /\ completed' \in Seq(Gens) /\ Len(completed') <= Limit /\ IsInjective(completed')
          /\ early' \in Seq(Gens) /\ Len(early') <= Limit /\ IsInjective(early')
          /\ \A h : Contains(completed', h) => Contains(completed, h) \/ h = g
          /\ \A h : Contains(early', h) => Contains(early, h) \/ h = g
          /\ owed' \subseteq owed /\ owed \subseteq owed' \cup {g} /\ bound' = bound \ {g}
          /\ \A h \in Gens : h # g => told'[h] = told[h]
          /\ told' \in [Gens -> Outcomes]
          /\ g \in bound => told'[g] = outcome /\ g \notin owed'
          /\ g \notin bound => UNCHANGED <<owed, told>>
          /\ g \notin cut /\ g \notin bound => Contains(completed', g) /\ Contains(early', g)
        <3>1. Registry(completed) /\ Registry(early) /\ told \in [Gens -> Outcomes] /\ forgotten \subseteq Gens
            BY <1>2 DEF TypeOK, Registry
        <3>2. CASE Contains(completed, g)
            <4>1. UNCHANGED <<bound, completed, early, owed, told, forgotten>>
                BY <1>8, <3>2 DEF Completed
            <4>2. g \notin bound /\ g \in cut
                BY <1>1, <1>2, <3>2 DEF RegistriesFit
            <4> QED
                BY <3>1, <4>1, <4>2 DEF Registry
        <3>3. CASE ~Contains(completed, g) /\ g \in bound
            <4>1. /\ completed' = Kept(Added(completed, g)) /\ bound' = bound \ {g}
                  /\ owed' = owed \ {g} /\ told' = IF g \in owed THEN [told EXCEPT ![g] = outcome] ELSE told
                  /\ UNCHANGED <<early, forgotten>>
                BY <1>8, <3>3 DEF Completed, OwnerOf, FollowupSettled
            <4>2. g \in owed /\ outcome \in Outcomes
                BY <1>2, <3>3 DEF OwedFits, Outcomes
            <4>3. /\ told' \in [Gens -> Outcomes] /\ told'[g] = outcome
                  /\ \A h \in Gens : h # g => told'[h] = told[h]
                BY <3>1, <4>1, <4>2
            <4>4. /\ Registry(completed')
                  /\ \A h : Contains(completed', h) => Contains(completed, h) \/ h = g
                BY <3>1, <4>1, PushFits
            <4>5. owed' \subseteq owed /\ owed \subseteq owed' \cup {g} /\ g \notin owed'
                BY <4>1
            <4>6. \A h : Contains(early', h) => Contains(early, h) \/ h = g
                BY <4>1
            <4> QED
                BY <3>1, <3>3, <4>1, <4>3, <4>4, <4>5, <4>6 DEF Registry
        <3>4. CASE ~Contains(completed, g) /\ g \notin bound
            <4>1. /\ completed' = Kept(Added(completed, g)) /\ early' = Kept(Append(early, g))
                  /\ forgotten' = forgotten \cup Evicted(Append(early, g))
                  /\ UNCHANGED <<bound, owed, told>>
                BY <1>8, <3>4 DEF Completed, OwnerOf
            <4>2. ~Contains(early, g)
                BY <1>2, <1>3 DEF RegistriesFit
            <4>3. Append(early, g) = Added(early, g)
                BY <4>2 DEF Added
            <4>4. /\ Registry(completed') /\ Contains(completed', g)
                  /\ \A h : Contains(completed', h) => Contains(completed, h) \/ h = g
                BY <3>1, <4>1, PushFits
            <4>5. /\ Registry(early') /\ Evicted(Added(early, g)) \subseteq Gens
                  /\ \A h : Contains(early', h) => Contains(early, h) \/ h = g
                  /\ Contains(early', g)
                BY <3>1, <4>1, <4>3, PushFits
            <4>6. bound' = bound \ {g} /\ told' \in [Gens -> Outcomes]
                BY <3>1, <3>4, <4>1
            <4> QED
                BY <3>1, <3>4, <4>1, <4>3, <4>4, <4>5, <4>6 DEF Registry
        <3> QED
            BY <3>2, <3>3, <3>4
    <2>4. TypeOK'
        <3>1. \A s \in {retired', completed', early'} : s \in Seq(Gens) /\ Len(s) <= Limit /\ IsInjective(s)
            BY <1>2, <2>1, <2>3 DEF TypeOK
        <3>2. cut' \subseteq Gens /\ outlived' \subseteq Gens /\ forgotten' \subseteq Gens
            BY <1>1, <1>2, <2>3 DEF TypeOK
        <3>3. owed' \subseteq Gens /\ bound' \subseteq Gens /\ told' \in [Gens -> Outcomes]
            BY <1>2, <2>3 DEF TypeOK
        <3> QED
            BY <1>1, <1>2, <1>5, <2>1, <2>2, <3>1, <3>2, <3>3 DEF TypeOK
    <2>5. FutureFits'
        BY <1>1, <1>2, <1>3, <1>4, <2>1, <2>3 DEF FutureFits, EngineFits
    <2>6. OwedFits'
        BY <1>1, <1>2, <1>4, <2>3 DEF OwedFits
    <2>7. ToldFits'
        BY <1>2, <1>3, <1>4, <2>3 DEF ToldFits
    <2>8. (RegistriesFit /\ GraceFits)'
        BY <1>1, <1>2, <1>3, <1>4, <2>1, <2>3 DEF RegistriesFit, GraceFits, TypeOK
    <2>9. LooseAreMute'
        BY <1>1, <1>2, <1>4, <2>1, <2>3 DEF LooseAreMute, ClaimIs, Excused
    <2>10. Slipped => Slipped'
        BY <1>1, <1>2, <1>3, <1>4, <2>3, SlipStays, ExcusedAreTurns
    <2>11. ASSUME Intact, ~Slipped' PROVE Intact'
        <3>1. gen = g
            <4>1. gen = g \/ g \in Excused
                BY <1>1, <1>8, <2>11, HeardIsCurrent DEF IInv
            <4>2. g \in Excused => Slipped'
                BY <1>1, <1>3, <1>4, <2>3 DEF Slipped, Excused
            <4> QED
                BY <2>11, <4>1, <4>2
        <3>2. \A h \in Gens : Held(h)' => h # g /\ Held(h)
            BY <1>1, <1>4, <2>3 DEF Held
        <3>3. HeldHolds'
            BY <1>1, <1>4, <2>1, <2>11, <3>2 DEF Intact, HeldHolds
        <3>4. EarlyIsKept'
            <4>1. ASSUME NEW h \in Gens, claim.id = h PROVE h = g /\ g \notin cut /\ g \notin bound
                BY <1>2, <3>1, <4>1 DEF TypeOK, ClaimFits, OwedFits
            <4> QED
                BY <1>1, <2>3, <4>1 DEF EarlyIsKept, ClaimIs
        <3>5. OwnSettling' /\ WatchFits'
            BY <2>1, <2>11, <3>1 DEF Intact, OwnSettling, WatchFits
        <3>6. OutcomeTold'
            BY <1>1, <1>2, <1>4, <2>3, <2>11 DEF Intact, OutcomeTold, OwedFits
        <3> QED
            BY <3>3, <3>4, <3>5, <3>6 DEF Intact
    <2> QED
        BY <1>6, <2>2, <2>4, <2>5, <2>6, <2>7, <2>8, <2>9, <2>10, <2>11 DEF IInv, Always
<1> QED
    BY <1>7, <1>8

\* A settlement frees the conversation of its own turn only, which is over.
LEMMA SettleEndsSound == ASSUME IInv, NEW s \in settling, SettleEnds(s) PROVE IInv'
<1> USE Constants
<1>1. /\ settling' = settling \ {s} /\ busy' = IF gen = s.of THEN FALSE ELSE busy
      /\ UNCHANGED <<gen, claim, body, engine, card, registries, owed, told, watch, grace, history>>
    BY DEF SettleEnds, Settlement
<1>2. /\ TypeOK /\ FutureFits /\ EngineFits /\ ClaimFits /\ OwedFits /\ ToldFits
      /\ RegistriesFit /\ GraceFits /\ SettlingFits /\ LooseAreMute
    BY DEF IInv, Always
<1>3. TypeOK'
    BY <1>1, <1>2 DEF TypeOK, registries, history
<1>4. (FutureFits /\ EngineFits /\ ClaimFits /\ OwedFits /\ ToldFits)'
    BY <1>1, <1>2 DEF FutureFits, EngineFits, ClaimFits, ClaimIs, OwedFits, ToldFits, registries, history
<1>5. (RegistriesFit /\ GraceFits /\ SettlingFits /\ LooseAreMute)'
    BY <1>1, <1>2 DEF RegistriesFit, GraceFits, SettlingFits, LooseAreMute, ClaimIs, Excused, registries, history
<1>6. Slipped' = Slipped
    BY <1>1 DEF Slipped, Excused, history
<1>7. ASSUME Intact PROVE Intact'
    <2>1. s.of = s.by /\ engine[s.by] = "over" /\ (s.by = gen => watch = "off")
        BY <1>2, <1>7 DEF Intact, OwnSettling, SettlingFits, WatchFits
    <2>2. HeldHolds'
        BY <1>1, <1>7, <2>1 DEF Intact, HeldHolds, Held, registries, history
    <2>3. WatchFits'
        BY <1>1, <1>7, <2>1 DEF Intact, WatchFits
    <2>4. (EarlyIsKept /\ OwnSettling /\ OutcomeTold)'
        BY <1>1, <1>7 DEF Intact, EarlyIsKept, ClaimIs, OwnSettling, OutcomeTold, registries, history
    <2> QED
        BY <2>2, <2>3, <2>4 DEF Intact
<1> QED
    BY <1>3, <1>4, <1>5, <1>6, <1>7 DEF IInv, Always

-----------------------------------------------------------------------------
(* People, the watchdog and timers. *)

\* A claim that is cancelled leaves its handshake in quarantine.
LEMMA CancelledClaimIsHeld ==
    ASSUME Always, CancelClaim
    PROVE  /\ claim' = NoClaim /\ claim'.id = None /\ claim'.phase = "setup"
           /\ quarantined \subseteq quarantined' /\ quarantined' \subseteq Gens
           /\ \A g \in Gens : ClaimIs(g) => engine[g] = "none" \/ g \in quarantined'
           /\ claim.id = None => quarantined' = quarantined
<1>1. claim \in [id : {None, gen}, phase : {"setup", "dispatching"}] /\ quarantined \subseteq Gens /\ gen \in 0..MaxTurns
    BY DEF Always, TypeOK
<1>2. claim' = NoClaim /\ quarantined' = IF claim.phase = "dispatching" THEN quarantined \cup {claim.id} ELSE quarantined
    BY DEF CancelClaim
<1>3. claim.phase = "dispatching" => claim.id \in Gens
    BY <1>1, Constants DEF Always, ClaimFits, Gens, None
<1>4. \A g \in Gens : ClaimIs(g) => engine[g] = "none" \/ claim.phase = "dispatching"
    BY <1>1, Constants DEF Always, ClaimFits, ClaimIs, EngineFits
<1> QED
    BY <1>1, <1>2, <1>3, <1>4 DEF NoClaim, ClaimIs, Always, ClaimFits

LEMMA StopSound == ASSUME IInv, Stop PROVE IInv'
<1> USE Constants
<1>1. /\ busy \/ claim.id # None
      /\ CancelClaim /\ cut' = cut \cup {gen}
      /\ UNCHANGED <<gen, busy, body, engine, card, retired, bound, completed, early, owed, told, watch, grace,
                     settling, said, outlived, forgotten>>
    BY DEF Stop, ThreadBusy
<1>2. /\ TypeOK /\ FutureFits /\ EngineFits /\ ClaimFits /\ OwedFits /\ ToldFits
      /\ RegistriesFit /\ GraceFits /\ SettlingFits /\ LooseAreMute /\ Always
    BY DEF IInv, Always
<1>3. gen \in Gens /\ ~(gen > gen)
    BY <1>1, <1>2 DEF TypeOK, FutureFits, Gens, None
<1>4. /\ claim' = NoClaim /\ claim'.id = None /\ claim'.phase = "setup"
      /\ quarantined \subseteq quarantined' /\ quarantined' \subseteq Gens
      /\ \A g \in Gens : ClaimIs(g) => engine[g] = "none" \/ g \in quarantined'
      /\ claim.id = None => quarantined' = quarantined
    BY <1>1, <1>2, CancelledClaimIsHeld
<1>5. \A g \in Gens : ClaimIs(g) => g = gen
    BY <1>2 DEF TypeOK, ClaimIs
<1>6. TypeOK'
    <2>1. claim' \in [id : {None, gen'}, phase : {"setup", "dispatching"}]
        BY <1>4 DEF NoClaim
    <2>2. cut' \subseteq Gens
        BY <1>1, <1>2, <1>3 DEF TypeOK
    <2> QED
        BY <1>1, <1>2, <1>4, <2>1, <2>2 DEF TypeOK
<1>7. (FutureFits /\ EngineFits)'
    BY <1>1, <1>2, <1>3 DEF FutureFits, EngineFits
<1>8. (ClaimFits /\ OwedFits /\ ToldFits)'
    BY <1>1, <1>2, <1>4, <1>5 DEF ClaimFits, ClaimIs, OwedFits, ToldFits
<1>9. (RegistriesFit /\ GraceFits /\ SettlingFits)'
    BY <1>1, <1>2 DEF RegistriesFit, GraceFits, SettlingFits
<1>10. LooseAreMute'
    BY <1>1, <1>2, <1>4 DEF LooseAreMute, Excused
<1>11. Slipped' = Slipped
    BY <1>1 DEF Slipped, Excused
<1>12. ASSUME Intact PROVE Intact'
    <2>1. ASSUME NEW h \in Gens, Held(h)' PROVE Held(h) /\ h \in bound
        <3>1. Held(h)
            BY <1>1, <2>1 DEF Held
        <3> QED
            BY <1>1, <1>12, <2>1, <3>1 DEF Held, Intact, HeldHolds
    <2>2. ASSUME NEW h \in Gens, h \in bound, Held(h) PROVE claim.id = None
        <3>1. body[h] = "done" /\ gen = h
            BY <1>2, <1>12, <2>2 DEF OwedFits, Intact, HeldHolds
        <3> QED
            BY <1>2, <3>1 DEF TypeOK, ClaimFits
    <2>3. HeldHolds'
        BY <1>1, <1>4, <1>12, <2>1, <2>2 DEF Intact, HeldHolds
    <2>4. EarlyIsKept'
        BY <1>4 DEF EarlyIsKept, ClaimIs
    <2>5. (OwnSettling /\ WatchFits /\ OutcomeTold)'
        BY <1>1, <1>12 DEF Intact, OwnSettling, WatchFits, OutcomeTold
    <2> QED
        BY <2>3, <2>4, <2>5 DEF Intact
<1> QED
    BY <1>6, <1>7, <1>8, <1>9, <1>10, <1>11, <1>12 DEF IInv, Always

LEMMA StallSound == ASSUME IInv, Stall PROVE IInv'
<1> USE Constants
<1>1. /\ watch = "silent" /\ watch' = "off"
      /\ CancelClaim /\ cut' = cut \cup {gen} /\ grace' = grace \cup {gen}
      /\ owed' = owed \ {gen}
      /\ told' = IF gen \in owed THEN [told EXCEPT ![gen] = "interrupted"] ELSE told
      /\ IF gen \in owed THEN DropBound(gen) ELSE UNCHANGED <<bound, completed, retired, forgotten>>
      /\ UNCHANGED <<gen, busy, body, engine, card, early, settling, said, outlived>>
    BY DEF Stall, FollowupSettled
<1>2. /\ TypeOK /\ FutureFits /\ EngineFits /\ ClaimFits /\ OwedFits /\ ToldFits
      /\ RegistriesFit /\ GraceFits /\ SettlingFits /\ LooseAreMute /\ Always
    BY DEF IInv, Always
<1>3. gen \in Gens /\ ~(gen > gen)
    BY <1>1, <1>2 DEF TypeOK, FutureFits, Gens, None
<1>4. /\ claim' = NoClaim /\ claim'.id = None /\ claim'.phase = "setup"
      /\ quarantined \subseteq quarantined' /\ quarantined' \subseteq Gens
      /\ \A g \in Gens : ClaimIs(g) => engine[g] = "none" \/ g \in quarantined'
    BY <1>1, <1>2, CancelledClaimIsHeld
<1>5. \A g \in Gens : ClaimIs(g) => g = gen
    BY <1>2 DEF TypeOK, ClaimIs
<1>6. /\ bound' = bound \ {gen} /\ Registry(completed') /\ Retiring(bound \cap {gen})
      /\ \A h : Contains(completed', h) => Contains(completed, h) \/ (h = gen /\ gen \in bound)
    <2>1. CASE gen \in owed
        BY <1>1, <1>2, <1>3, <2>1, DropBoundFits
    <2>2. CASE gen \notin owed
        <3>1. gen \notin bound /\ UNCHANGED <<bound, completed, retired, forgotten>> /\ Registry(completed)
            BY <1>1, <1>2, <1>3, <2>2 DEF OwedFits, TypeOK, Registry
        <3>2. Retiring({}) /\ bound \cap {gen} = {} /\ bound \ {gen} = bound
            BY <1>2, <3>1, NothingRetires
        <3> QED
            BY <3>1, <3>2
    <2> QED
        BY <2>1, <2>2
<1>7. /\ told' \in [Gens -> Outcomes]
      /\ \A h \in Gens : told'[h] = told[h] \/ (h = gen /\ told'[h] = "interrupted")
    BY <1>1, <1>2, <1>3 DEF TypeOK, Outcomes
<1>8. TypeOK'
    <2>1. claim' \in [id : {None, gen'}, phase : {"setup", "dispatching"}]
        BY <1>1, <1>4 DEF NoClaim
    <2>2. \A s \in {retired', completed', early'} : s \in Seq(Gens) /\ Len(s) <= Limit /\ IsInjective(s)
        BY <1>1, <1>2, <1>6 DEF TypeOK, Retiring, Registry
    <2>3. cut' \subseteq Gens /\ outlived' \subseteq Gens /\ forgotten' \subseteq Gens
        BY <1>1, <1>2, <1>3, <1>6 DEF TypeOK, Retiring
    <2>4. bound' \subseteq Gens /\ owed' \subseteq Gens /\ grace' \subseteq Gens
        BY <1>1, <1>2, <1>3, <1>6 DEF TypeOK
    <2>5. \A S \in {cut', outlived', forgotten'} : S \subseteq Gens
        BY <2>3
    <2>6. /\ gen' \in 0..MaxTurns /\ busy' \in BOOLEAN /\ body' \in [Gens -> Bodies]
          /\ engine' \in [Gens -> {"none", "live", "over"}] /\ card' \in [Gens -> Requests]
          /\ said' \in [Gens -> Outcomes] /\ settling' \subseteq [of : Gens, by : Gens]
          /\ watch' \in {"off", "on", "silent", "waiting"}
        BY <1>1, <1>2 DEF TypeOK
    <2> QED
        BY <1>4, <1>7, <2>1, <2>2, <2>4, <2>5, <2>6 DEF TypeOK
<1>9. (FutureFits /\ EngineFits)'
    BY <1>1, <1>2, <1>3, <1>7 DEF FutureFits, EngineFits
<1>10. (ClaimFits /\ OwedFits /\ ToldFits)'
    BY <1>1, <1>2, <1>4, <1>5, <1>6, <1>7 DEF ClaimFits, ClaimIs, OwedFits, ToldFits
<1>11. (RegistriesFit /\ GraceFits /\ SettlingFits)'
    BY <1>1, <1>2, <1>3, <1>6 DEF RegistriesFit, OwedFits, GraceFits, SettlingFits, Retiring
<1>12. LooseAreMute'
    BY <1>1, <1>2, <1>4, <1>6 DEF LooseAreMute, ClaimIs, Excused, Retiring
<1>13. Slipped => Slipped'
    BY <1>1, <1>2, <1>6, SlipStays, ExcusedAreTurns DEF Retiring
<1>14. ASSUME Intact PROVE Intact'
    <2>1. \A h \in Gens : ~Held(h)'
        BY <1>1, <1>6, <1>14 DEF Held, Intact, HeldHolds
    <2>2. HeldHolds' /\ EarlyIsKept'
        BY <1>4, <2>1 DEF HeldHolds, EarlyIsKept, ClaimIs
    <2>3. (OwnSettling /\ WatchFits)'
        BY <1>1, <1>14 DEF Intact, OwnSettling, WatchFits
    <2>4. OutcomeTold'
        BY <1>1, <1>7, <1>14 DEF Intact, OutcomeTold
    <2> QED
        BY <2>2, <2>3, <2>4 DEF Intact
<1> QED
    BY <1>8, <1>9, <1>10, <1>11, <1>12, <1>13, <1>14 DEF IInv, Always

\* The turn that stalled is neither bound nor going on.
LEMMA ReleaseSound == ASSUME IInv, NEW g \in Gens, Release(g) PROVE IInv'
<1> USE Constants
<1>1. /\ g \in grace /\ grace' = grace \ {g} /\ busy' = IF gen = g THEN FALSE ELSE busy
      /\ UNCHANGED <<gen, claim, body, engine, card, registries, owed, told, watch, settling, history>>
    BY DEF Release, Releases
<1>2. /\ TypeOK /\ FutureFits /\ EngineFits /\ ClaimFits /\ OwedFits /\ ToldFits
      /\ RegistriesFit /\ GraceFits /\ SettlingFits /\ LooseAreMute
    BY DEF IInv, Always
<1>3. TypeOK'
    <2>1. busy' \in BOOLEAN
        BY <1>1, <1>2 DEF TypeOK
    <2>2. grace' \subseteq Gens
        BY <1>1, <1>2 DEF TypeOK
    <2>3. \A s \in {retired', completed', early'} : s \in Seq(Gens) /\ Len(s) <= Limit /\ IsInjective(s)
        BY <1>1, <1>2 DEF TypeOK, registries
    <2>4. \A S \in {cut', outlived', forgotten'} : S \subseteq Gens
        BY <1>1, <1>2 DEF TypeOK, history
    <2> QED
        BY <1>1, <1>2, <2>1, <2>2, <2>3, <2>4 DEF TypeOK, registries, history
<1>4. (FutureFits /\ EngineFits /\ ClaimFits /\ OwedFits /\ ToldFits)'
    BY <1>1, <1>2 DEF FutureFits, EngineFits, ClaimFits, ClaimIs, OwedFits, ToldFits, registries, history
<1>5. (RegistriesFit /\ GraceFits /\ SettlingFits /\ LooseAreMute)'
    BY <1>1, <1>2 DEF RegistriesFit, GraceFits, SettlingFits, LooseAreMute, ClaimIs, Excused, registries, history
<1>6. Slipped' = Slipped
    BY <1>1 DEF Slipped, Excused, history
<1>7. ASSUME Intact PROVE Intact'
    <2>1. ~Held(g) /\ (gen = g => watch = "off")
        BY <1>1, <1>2, <1>7 DEF Intact, GraceFits, Held, WatchFits
    <2>2. HeldHolds'
        BY <1>1, <1>7, <2>1 DEF Intact, HeldHolds, Held, registries, history
    <2>3. WatchFits'
        BY <1>1, <1>7, <2>1 DEF Intact, WatchFits
    <2>4. (EarlyIsKept /\ OwnSettling /\ OutcomeTold)'
        BY <1>1, <1>7 DEF Intact, EarlyIsKept, ClaimIs, OwnSettling, OutcomeTold, registries, history
    <2> QED
        BY <2>2, <2>3, <2>4 DEF Intact
<1> QED
    BY <1>3, <1>4, <1>5, <1>6, <1>7 DEF IInv, Always

LEMMA ExpireSound == ASSUME IInv, NEW g \in Gens, Expire(g) PROVE IInv'
<1> USE Constants
<1>1. /\ g \in quarantined /\ quarantined' = quarantined \ {g}
      /\ outlived' = IF Contains(retired, g) THEN outlived ELSE outlived \cup {g}
      /\ UNCHANGED <<gen, busy, claim, body, engine, card, retired, bound, completed, early, owed, told, watch,
                     grace, settling, said, cut, forgotten>>
    BY DEF Expire
<1>2. /\ TypeOK /\ FutureFits /\ EngineFits /\ ClaimFits /\ OwedFits /\ ToldFits
      /\ RegistriesFit /\ GraceFits /\ SettlingFits /\ LooseAreMute
    BY DEF IInv, Always
<1>3. TypeOK'
    <2>1. quarantined' \subseteq Gens /\ outlived' \subseteq Gens
        BY <1>1, <1>2 DEF TypeOK
    <2>2. \A S \in {cut', outlived', forgotten'} : S \subseteq Gens
        <3>1. cut' \subseteq Gens /\ forgotten' \subseteq Gens
            BY <1>1, <1>2 DEF TypeOK
        <3> QED
            BY <2>1, <3>1
    <2>3. \A s \in {retired', completed', early'} : s \in Seq(Gens) /\ Len(s) <= Limit /\ IsInjective(s)
        BY <1>1, <1>2 DEF TypeOK
    <2> QED
        BY <1>1, <1>2, <2>1, <2>2, <2>3 DEF TypeOK
<1>4. (FutureFits /\ EngineFits /\ ClaimFits /\ OwedFits /\ ToldFits)'
    BY <1>1, <1>2 DEF FutureFits, EngineFits, ClaimFits, ClaimIs, OwedFits, ToldFits
<1>5. (RegistriesFit /\ GraceFits /\ SettlingFits)'
    BY <1>1, <1>2 DEF RegistriesFit, GraceFits, SettlingFits
<1>6. LooseAreMute'
    BY <1>1, <1>2 DEF LooseAreMute, ClaimIs, Excused
<1>7. Slipped => Slipped'
    BY <1>1, <1>2, SlipStays, ExcusedAreTurns
<1>8. ASSUME Intact PROVE Intact'
    <2>1. \A h \in Gens : ~Held(h)'
        BY <1>1, <1>8 DEF Held, Intact, HeldHolds
    <2> QED
        BY <1>1, <1>8, <2>1 DEF Intact, HeldHolds, EarlyIsKept, ClaimIs, OwnSettling, WatchFits, OutcomeTold
<1> QED
    BY <1>3, <1>4, <1>5, <1>6, <1>7, <1>8 DEF IInv, Always

-----------------------------------------------------------------------------
(* The invariant. *)

LEMMA InitSound == Init => IInv
<1> SUFFICES ASSUME Init PROVE IInv
    OBVIOUS
<1> USE Constants
<1>1. \A g : ~Contains(<<>>, g)
    BY DEF Contains
<1>2. TypeOK
    <2>1. <<>> \in Seq(Gens) /\ Len(<<>>) = 0 /\ IsInjective(<<>>)
        BY DEF IsInjective
    <2>2. claim \in [id : {None, gen}, phase : {"setup", "dispatching"}] /\ gen \in 0..MaxTurns
        BY DEF Init, NoClaim, None
    <2>3. \A s \in {retired, completed, early} : s \in Seq(Gens) /\ Len(s) <= Limit /\ IsInjective(s)
        <3>1. retired = <<>> /\ completed = <<>> /\ early = <<>>
            BY DEF Init
        <3>2. Registry(<<>>)
            BY <2>1 DEF Registry
        <3>3. \A s \in {retired, completed, early} : Registry(s)
            BY <3>1, <3>2
        <3> QED
            BY <3>3 DEF Registry
    <2>4. \A S \in {cut, outlived, forgotten} : S \subseteq Gens
        BY DEF Init
    <2>5. /\ body \in [Gens -> Bodies] /\ engine \in [Gens -> {"none", "live", "over"}]
          /\ card \in [Gens -> Requests]
          /\ told \in [Gens -> Outcomes] /\ said \in [Gens -> Outcomes]
        BY DEF Init, Bodies, Outcomes, Requests
    <2> QED
        BY <2>2, <2>3, <2>4, <2>5 DEF Init, TypeOK
<1>3. FutureFits /\ EngineFits /\ ClaimFits /\ OwedFits /\ ToldFits
    BY DEF Init, FutureFits, EngineFits, ClaimFits, ClaimIs, NoClaim, OwedFits, ToldFits
<1>4. RegistriesFit /\ GraceFits /\ SettlingFits /\ LooseAreMute
    BY <1>1 DEF Init, RegistriesFit, GraceFits, SettlingFits, LooseAreMute
<1>5. Intact
    BY <1>1 DEF Init, Intact, HeldHolds, Held, EarlyIsKept, OwnSettling, WatchFits, OutcomeTold
<1> QED
    BY <1>2, <1>3, <1>4, <1>5 DEF IInv, Always

\* Nothing changes, or only the watchdog's clock.
LEMMA SilenceSound == ASSUME IInv, Silence \/ UNCHANGED vars PROVE IInv'
<1>1. /\ UNCHANGED <<gen, busy, claim, body, engine, card, quarantined, retired, bound, completed, early, owed, told,
                     grace, settling, said, cut, outlived, forgotten>>
      /\ watch' = watch \/ (watch = "on" /\ watch' = "silent")
    BY DEF Silence, vars, registries, history
<1>2. Always'
    BY <1>1 DEF IInv, Always, TypeOK, FutureFits, EngineFits, ClaimFits, ClaimIs, OwedFits, ToldFits,
                RegistriesFit, GraceFits, SettlingFits, LooseAreMute, Excused
<1>3. Slipped' = Slipped
    BY <1>1 DEF Slipped, Excused
<1>4. Intact => Intact'
    BY <1>1 DEF Intact, HeldHolds, Held, EarlyIsKept, ClaimIs, OwnSettling, WatchFits, OutcomeTold
<1> QED
    BY <1>2, <1>3, <1>4 DEF IInv

LEMMA StepSound == IInv /\ [Next]_vars => IInv'
<1> SUFFICES ASSUME IInv, [Next]_vars PROVE IInv'
    OBVIOUS
<1>1. CASE Start
    BY <1>1, StartSound
<1>2. CASE Stop
    BY <1>2, StopSound
<1>3. CASE Stall
    BY <1>3, StallSound
<1>4. CASE \E g \in Gens : Background(g) \/ Handshake(g) \/ Release(g) \/ Expire(g)
    <2>1. PICK g \in Gens : Background(g) \/ Handshake(g) \/ Release(g) \/ Expire(g)
        BY <1>4
    <2>2. CASE SetupFails(g) \/ SendFails(g)
        BY <2>2, FailuresSound
    <2>3. CASE Dispatch(g)
        BY <2>3, DispatchSound
    <2>4. CASE Acknowledged(g)
        BY <2>4, AcknowledgedSound
    <2>5. CASE CancelledAck(g)
        BY <2>5, CancelledAckSound
    <2>6. CASE CancelledDone(g)
        BY <2>6, FailuresSound
    <2>7. CASE Release(g)
        BY <2>7, ReleaseSound
    <2>8. CASE Expire(g)
        BY <2>8, ExpireSound
    <2> QED
        BY <2>1, <2>2, <2>3, <2>4, <2>5, <2>6, <2>7, <2>8 DEF Background, Handshake
<1>5. CASE \E g \in Gens : Activity(g) \/ \E c \in Cards : CardOpens(g, c) \/ CardResolved(g, c)
    BY <1>5, EventsSound
<1>6. CASE \E g \in Gens, outcome \in {"ok", "failed"} : Completed(g, outcome)
    BY <1>6, CompletedSound
<1>7. CASE \E s \in settling : SettleEnds(s)
    BY <1>7, SettleEndsSound
<1>8. CASE Silence \/ UNCHANGED vars
    BY <1>8, SilenceSound
<1> QED
    BY <1>1, <1>2, <1>3, <1>4, <1>5, <1>6, <1>7, <1>8 DEF Next

LEMMA Invariant == Spec => []IInv
BY InitSound, StepSound, PTL DEF Spec

-----------------------------------------------------------------------------
(* What follows from it. *)

LEMMA OwnSettlements == IInv => CompletionSettlesItsOwn
BY DEF IInv, Intact, OwnSettling, CompletionSettlesItsOwn

LEMMA OldAreMute == IInv => OldTurnsAreMute
<1> SUFFICES ASSUME Always, Intact, NEW g \in Gens, NEW h \in Gens, g < h, engine[g] = "live", engine[h] # "none"
             PROVE  ~Heard(g) \/ g \in Excused
    BY DEF IInv, OldTurnsAreMute
<1> USE Constants
<1>1. /\ TypeOK /\ FutureFits /\ EngineFits /\ LooseAreMute
      /\ gen \in Nat /\ g \in Nat /\ h \in Nat
    BY DEF Always, TypeOK
<1>2. ~(h > gen)
    BY <1>1 DEF FutureFits, EngineFits
<1>3. g # gen
    BY <1>1, <1>2
<1>4. ~ClaimIs(g)
    BY <1>1, <1>3 DEF TypeOK, ClaimIs
<1>5. g \notin bound
    BY <1>3 DEF Intact, HeldHolds, Held
<1> QED
    BY <1>1, <1>4, <1>5 DEF LooseAreMute, Heard

LEMMA OwnOutcomes == IInv => OutcomeIsItsOwn
BY DEF IInv, Always, ToldFits, Intact, OutcomeTold, OutcomeIsItsOwn

LEMMA CleanWhenIdle == IInv => IdleIsClean
<1> SUFFICES ASSUME Always, Intact, ~ThreadBusy
             PROVE  watch = "off" /\ \A g \in owed : body[g] # "done" /\ g \in cut
    BY DEF IInv, IdleIsClean
<1> USE Constants
<1>1. ~busy /\ claim.id = None /\ owed \subseteq Gens /\ body \in [Gens -> Bodies] /\ ClaimFits /\ OwedFits
    BY DEF ThreadBusy, Always, TypeOK
<1>2. watch = "off"
    BY <1>1 DEF Intact, WatchFits
<1>3. ASSUME NEW g \in owed PROVE body[g] # "done" /\ g \in cut
    <2>1. body[g] # "done"
        BY <1>1 DEF OwedFits, Intact, HeldHolds, Held
    <2>2. body[g] \in {"setup", "sending", "stopping"}
        BY <1>1, <2>1 DEF OwedFits, Bodies
    <2>3. g \in cut
        BY <1>1, <2>2 DEF ClaimFits, ClaimIs
    <2> QED
        BY <2>1, <2>3
<1> QED
    BY <1>2, <1>3

LEMMA Freed ==
    ASSUME IInv, [Next]_vars, busy, ~busy'
    PROVE  \/ \E s \in settling \ settling' : s.of = gen
           \/ body[gen] # "done" /\ body'[gen] = "done"
           \/ gen \in grace \ grace'
<1>1. body \in [Gens -> Bodies] /\ Next
    BY DEF IInv, Always, TypeOK, vars
<1>2. CASE Start \/ Stop \/ Silence \/ Stall
    BY <1>2 DEF Start, Stop, Silence, Stall
<1>3. CASE \E g \in Gens : Background(g) \/ Handshake(g) \/ Release(g) \/ Expire(g)
    <2>1. PICK g \in Gens : Background(g) \/ Handshake(g) \/ Release(g) \/ Expire(g)
        BY <1>3
    <2>2. CASE SetupFails(g) \/ SendFails(g) \/ CancelledDone(g)
        <3>1. body[g] # "done" /\ Abandon(g)
            BY <2>2 DEF SetupFails, SendFails, CancelledDone
        <3>2. gen = g /\ body'[g] = "done"
            BY <1>1, <3>1 DEF Abandon, Frees
        <3> QED
            BY <3>1, <3>2
    <2>3. CASE Dispatch(g) \/ Acknowledged(g) \/ CancelledAck(g) \/ Expire(g)
        BY <2>3 DEF Dispatch, Acknowledged, CancelledAck, Expire
    <2>4. CASE Release(g)
        BY <2>4 DEF Release, Releases
    <2> QED
        BY <2>1, <2>2, <2>3, <2>4 DEF Background, Handshake
<1>4. CASE \E g \in Gens : Activity(g) \/ \E c \in Cards : CardOpens(g, c) \/ CardResolved(g, c)
    BY <1>4 DEF Activity, CardOpens, CardResolved
<1>5. CASE \E g \in Gens, outcome \in {"ok", "failed"} : Completed(g, outcome)
    BY <1>5 DEF Completed
<1>6. CASE \E s \in settling : SettleEnds(s)
    BY <1>6 DEF SettleEnds, Settlement
<1> QED
    BY <1>1, <1>2, <1>3, <1>4, <1>5, <1>6 DEF Next

-----------------------------------------------------------------------------
(* Theorems. *)

\* Every variable keeps its type, whatever the engine does and whenever it
\* does it: the registries hold each turn once and never more than Limit of
\* them (turn-dispatch-guard.ts).
THEOREM TypeCorrect == Spec => []TypeOK
<1>1. IInv => TypeOK
    BY DEF IInv, Always
<1> QED
    BY <1>1, Invariant, PTL

\* Turns leave each other alone: a completion settles only its own turn, an
\* older turn that is still alive is not heard, waiters are told what their
\* turn came to, an idle conversation has let go of the last turn, and only
\* the turn that holds it frees it; all but the freeing until a completion
\* slips through one of the two bounds (startTurn, the turn.completed handler
\* and guardTurnDispatch of index.ts and turn-dispatch-guard.ts).
THEOREM TurnsIsolated == Spec => TurnsAreIsolated
<1>1. IInv => CompletionSettlesItsOwn /\ OldTurnsAreMute /\ OutcomeIsItsOwn /\ IdleIsClean
    BY OwnSettlements, OldAreMute, OwnOutcomes, CleanWhenIdle
<1>2. ASSUME IInv, [Next]_vars
      PROVE  [busy /\ ~busy' => \/ \E s \in settling \ settling' : s.of = gen
                                \/ body[gen] # "done" /\ body'[gen] = "done"
                                \/ gen \in grace \ grace']_vars
    BY <1>2, Freed
<1>3. Spec => [][Next]_vars
    BY PTL DEF Spec
<1> QED
    BY <1>1, <1>2, <1>3, Invariant, PTL DEF TurnsAreIsolated, FreedByItsOwner
=============================================================================
