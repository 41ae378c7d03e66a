----------------------------- MODULE TurnGuard -----------------------------
(***************************************************************************)
(* The turns of one conversation against an engine that answers late, twice *)
(* or never: the dispatch claim and its generations (server/index.ts), the *)
(* quarantine of cancelled handshakes and the tombstones of retired turns  *)
(* (server/turn-dispatch-guard.ts), and the watchdog that ends a silent    *)
(* turn (server/turn-watchdog.ts).                                         *)
(*                                                                         *)
(* A generation is one call of startTurn; its engine turn has the same     *)
(* number.  Events of the engine name the conversation and the turn, and   *)
(* the code that settles the conversation does not compare the turn: what  *)
(* keeps an old turn from settling a newer one is modelled here.           *)
(***************************************************************************)
EXTENDS Naturals, Sequences, SequencesExt, FiniteSets

CONSTANTS MaxTurns,   \* bound on the turns of the conversation
          Cards,      \* requests to a person that one turn can have open at once
          Limit       \* entries of a bounded registry (4096)

ASSUME ConstantsAssumption == MaxTurns \in Nat \ {0} /\ Limit \in Nat \ {0}

Gens == 1..MaxTurns
None == 0

VARIABLES
    gen,         \* directTurnGenerationByThread
    busy,        \* the busy flag of the conversation
    claim,       \* directTurnDispatchClaims: [id, phase]
    body,        \* [Gens -> Bodies]: where startTurn's background part is
    engine,      \* [Gens -> {"none", "live", "over"}]: the engine's turn
    card,        \* [Gens -> Requests]: what it asks a person
    quarantined, \* PendingTurnCancellations: generations
    retired,     \* RetiredTurnRegistry, oldest first
    bound,       \* ProviderTurnGenerationRegistry: #owners
    completed,   \* ... #completed, oldest first
    early,       \* ... #earlyCompletions, oldest first
    owed,        \* directFollowupSettlers and directCoordinationSettlers
    told,        \* [Gens -> Outcomes]: what those were told
    watch,       \* TurnWatchdog: "off", "on" (heard within stallMs), "silent" or "waiting" on a person
    grace,       \* stalled generations whose conversation is freed in six seconds
    settling,    \* settlements under way: [of, by], a generation and the turn that ended it
    \* bookkeeping of the model
    said,        \* [Gens -> Outcomes]: what the engine reported
    cut,         \* generations that were stopped, stalled or not dispatched
    outlived,    \* handshakes whose quarantine ran out before a turn was known
    forgotten    \* turns dropped from a bounded registry

registries == <<quarantined, retired, bound, completed, early>>
history == <<said, cut, outlived, forgotten>>
vars == <<gen, busy, claim, body, engine, card, registries, owed, told, watch, grace, settling, history>>

Outcomes == {"none", "ok", "failed", "interrupted"}
Bodies == {"none", "setup", "sending", "stopping", "done"}
Requests == [Cards -> {"none", "open", "closed"}]
NoClaim == [id |-> None, phase |-> "setup"]

-----------------------------------------------------------------------------
(* Registries. *)

ThreadBusy == busy \/ claim.id # None
ClaimIs(g) == claim.id = g

\* A bounded registry keeps the newest entries, each once.
Added(s, g) == IF Contains(s, g) THEN s ELSE Append(s, g)
\* Mutant: the bound is forgotten.
KeptAll(s) == s
Kept(s) == IF Len(s) > Limit THEN Tail(s) ELSE s
Evicted(s) == IF Len(s) > Limit THEN {Head(s)} ELSE {}
Taken(s, g) == IF Contains(s, g) THEN RemoveAt(s, CHOOSE i \in DOMAIN s : s[i] = g) ELSE s

Heard(g) == ~Contains(retired, g) /\ quarantined = {}

\* retire, as a pair of conjuncts so that every caller records evictions.
Retires(g) ==
    /\ retired' = Kept(Added(retired, g))
    /\ forgotten' = forgotten \cup Evicted(Added(retired, g))

\* isTurnEventQuarantined: an event that must be ignored gives its turn away.
Ignored(g) == IF Contains(retired, g) THEN UNCHANGED <<retired, forgotten>> ELSE Retires(g)

\* settleDirectFollowup: the generation's bound turn is retired with it.
DropBound(g) ==
    /\ bound' = bound \ {g}
    /\ completed' = IF g \in bound THEN Kept(Added(completed, g)) ELSE completed
    /\ IF g \in bound THEN Retires(g) ELSE UNCHANGED <<retired, forgotten>>
FollowupSettled(g, outcome) ==
    /\ owed' = owed \ {g}
    /\ told' = IF g \in owed THEN [told EXCEPT ![g] = outcome] ELSE told

\* cancelDirectTurnDispatch: only a dispatching claim leaves a handshake behind.
CancelClaim ==
    /\ claim' = NoClaim
    /\ quarantined' = IF claim.phase = "dispatching" THEN quarantined \cup {claim.id} ELSE quarantined

-----------------------------------------------------------------------------
Init ==
    /\ gen = None /\ busy = FALSE /\ claim = NoClaim
    /\ body = [g \in Gens |-> "none"] /\ engine = [g \in Gens |-> "none"]
    /\ card = [g \in Gens |-> [c \in Cards |-> "none"]] /\ quarantined = {} /\ retired = <<>>
    /\ bound = {} /\ completed = <<>> /\ early = <<>>
    /\ owed = {} /\ told = [g \in Gens |-> "none"]
    /\ watch = "off" /\ grace = {} /\ settling = {}
    /\ said = [g \in Gens |-> "none"]
    /\ cut = {} /\ outlived = {} /\ forgotten = {}

-----------------------------------------------------------------------------
(* startTurn. *)

\* Admission and everything before the background part.
Start ==
    LET g == gen + 1 IN
    /\ gen < MaxTurns /\ ~ThreadBusy
    /\ gen' = g /\ busy' = TRUE
    /\ claim' = [id |-> g, phase |-> "setup"]
    /\ body' = [body EXCEPT ![g] = "setup"]
    /\ owed' = owed \cup {g}
    /\ UNCHANGED <<engine, card, registries, told, watch, grace, settling, history>>

\* The catch of startTurn, after a cancellation or an error.
\* Mutant: a stopped turn leaves the conversation to its completion.
FreesUnlessStopped(g) == busy' = IF gen = g /\ g \notin cut THEN FALSE ELSE busy
Frees(g) == busy' = IF gen = g THEN FALSE ELSE busy
Abandon(g) ==
    /\ body' = [body EXCEPT ![g] = "done"]
    /\ FollowupSettled(g, "interrupted")
    /\ quarantined' = quarantined \ {g}
    /\ claim' = IF ClaimIs(g) THEN NoClaim ELSE claim
    /\ watch' = IF gen = g THEN "off" ELSE watch
    /\ Frees(g)
    /\ cut' = cut \cup {g}
    /\ UNCHANGED <<gen, early, grace, settling, said, outlived>>

\* Setup fails, or was stopped and is found out at the latest before dispatch.
SetupFails(g) ==
    /\ body[g] = "setup"
    /\ Abandon(g) /\ DropBound(g)
    /\ UNCHANGED <<engine, card>>

\* Nothing is sent while an older handshake may still reveal a turn.
GateOpen == quarantined = {}
Dispatch(g) ==
    /\ body[g] = "setup" /\ GateOpen /\ ClaimIs(g) /\ busy
    /\ claim' = [id |-> g, phase |-> "dispatching"]
    /\ watch' = "on"
    /\ body' = [body EXCEPT ![g] = "sending"]
    /\ engine' = [engine EXCEPT ![g] = "live"]
    /\ UNCHANGED <<gen, busy, card, registries, owed, told, grace, settling, history>>

\* sendTurn rejects: there will be no completion.
SendFails(g) ==
    /\ body[g] = "sending"
    /\ engine' = [engine EXCEPT ![g] = "over"]
    /\ Abandon(g) /\ DropBound(g)
    /\ UNCHANGED card

\* sendTurn resolves under its claim: the turn is bound to its generation,
\* unless its completion was first.
EarlyOutcome(g) == IF Contains(early, g) THEN said[g] ELSE "interrupted"
Acknowledged(g) ==
    /\ body[g] = "sending" /\ ClaimIs(g)
    /\ claim' = NoClaim
    /\ body' = [body EXCEPT ![g] = "done"]
    /\ IF g \notin owed THEN UNCHANGED <<bound, early, owed, told>>
       ELSE IF Contains(completed, g)
            THEN /\ FollowupSettled(g, EarlyOutcome(g))
                 /\ early' = Taken(early, g)
                 /\ UNCHANGED bound
            ELSE bound' = bound \cup {g} /\ UNCHANGED <<early, owed, told>>
    /\ UNCHANGED <<gen, busy, engine, card, quarantined, retired, completed, watch, grace, settling, history>>

\* sendTurn resolves after a cancellation: a second interrupt, then the
\* tombstone (guardTurnDispatch).
CancelledAck(g) ==
    /\ body[g] = "sending" /\ ~ClaimIs(g)
    /\ body' = [body EXCEPT ![g] = "stopping"]
    /\ UNCHANGED <<gen, busy, claim, engine, card, registries, owed, told, watch, grace, settling, history>>
CancelledDone(g) ==
    /\ body[g] = "stopping"
    /\ Abandon(g) /\ Retires(g)
    /\ UNCHANGED <<engine, card, bound, completed>>

-----------------------------------------------------------------------------
(* The engine. *)

\* Any event of a turn that runs: it restarts the watchdog's clock, but does
\* not end a wait for a person; under quarantine it reveals its turn.
Touched == IF watch = "silent" THEN "on" ELSE watch
Activity(g) ==
    /\ engine[g] = "live"
    /\ IF Heard(g) THEN watch' = Touched /\ UNCHANGED <<retired, forgotten>>
       ELSE Ignored(g) /\ UNCHANGED watch
    /\ UNCHANGED <<gen, busy, claim, body, engine, card, quarantined, bound, completed, early, owed, told,
                   grace, settling, said, cut, outlived>>

\* A card for a person opens, and is answered, times out or dies.  The wait is
\* one flag: the first answer ends it, although other cards may be open.
CardOpens(g, c) ==
    /\ engine[g] = "live" /\ card[g][c] = "none"
    /\ card' = [card EXCEPT ![g][c] = "open"]
    /\ IF Heard(g) THEN /\ watch' = IF watch = "off" THEN "off" ELSE "waiting"
                        /\ UNCHANGED <<retired, forgotten>>
       ELSE Ignored(g) /\ UNCHANGED watch
    /\ UNCHANGED <<gen, busy, claim, body, engine, quarantined, bound, completed, early, owed, told, grace,
                   settling, said, cut, outlived>>
CardResolved(g, c) ==
    /\ card[g][c] = "open"
    /\ card' = [card EXCEPT ![g][c] = "closed"]
    /\ IF Heard(g) THEN /\ watch' = IF watch = "off" THEN "off" ELSE "on"
                        /\ UNCHANGED <<retired, forgotten>>
       ELSE Ignored(g) /\ UNCHANGED watch
    /\ UNCHANGED <<gen, busy, claim, body, engine, quarantined, bound, completed, early, owed, told, grace,
                   settling, said, cut, outlived>>

\* turn.completed: it settles the conversation as it is now, and the
\* generation its turn is bound to.
OwnerOf(g) == IF g \in bound THEN g ELSE None
Completed(g, outcome) ==
    /\ engine[g] = "live" /\ \A c \in Cards : card[g][c] # "open"
    /\ engine' = [engine EXCEPT ![g] = "over"]
    /\ said' = [said EXCEPT ![g] = outcome]
    /\ IF ~Heard(g)
       THEN Ignored(g) /\ UNCHANGED <<bound, completed, early, owed, told, watch, settling>>
       ELSE /\ watch' = "off"
            /\ settling' = settling \cup {[of |-> gen, by |-> g]}
            /\ IF Contains(completed, g) THEN UNCHANGED <<bound, completed, early, owed, told, forgotten>>
               ELSE /\ completed' = Kept(Added(completed, g))
                    /\ IF OwnerOf(g) # None
                       THEN /\ FollowupSettled(OwnerOf(g), outcome)
                            /\ bound' = bound \ {g}
                            /\ UNCHANGED <<early, forgotten>>
                       ELSE /\ early' = Kept(Append(early, g))
                            /\ forgotten' = forgotten \cup Evicted(Append(early, g))
                            /\ UNCHANGED <<bound, owed, told>>
            /\ UNCHANGED retired
    /\ UNCHANGED <<gen, busy, claim, body, card, quarantined, grace, cut, outlived>>

\* The end of the settlement, which waits for a digest or a last screenshot.
Settlement(s) == busy' = IF gen = s.of THEN FALSE ELSE busy
SettleEnds(s) ==
    /\ s \in settling
    /\ settling' = settling \ {s}
    /\ Settlement(s)
    /\ UNCHANGED <<gen, claim, body, engine, card, registries, owed, told, watch, grace, history>>

-----------------------------------------------------------------------------
(* People, the watchdog and timers. *)

\* interruptDirectThread; the engine may or may not react.
Stop ==
    /\ ThreadBusy /\ gen \notin cut
    /\ CancelClaim
    /\ cut' = cut \cup {gen}
    /\ UNCHANGED <<gen, busy, body, engine, card, retired, bound, completed, early, owed, told, watch, grace,
                   settling, said, outlived, forgotten>>

\* stallMs pass without an event that is heard.
Silence ==
    /\ watch = "on"
    /\ watch' = "silent"
    /\ UNCHANGED <<gen, busy, claim, body, engine, card, registries, owed, told, grace, settling, history>>

\* The sweep meets a silent turn that waits for nobody.
Stall ==
    /\ watch = "silent"
    /\ watch' = "off"
    /\ CancelClaim
    /\ FollowupSettled(gen, "interrupted")
    /\ IF gen \in owed THEN DropBound(gen) ELSE UNCHANGED <<bound, completed, retired, forgotten>>
    /\ grace' = grace \cup {gen}
    /\ cut' = cut \cup {gen}
    /\ UNCHANGED <<gen, busy, body, engine, card, early, settling, said, outlived>>

\* Six seconds later the conversation is freed, if it is still that turn's.
\* Mutant: whoever owns it by then.
ReleasesAny(g) == busy' = FALSE
Releases(g) == busy' = IF gen = g THEN FALSE ELSE busy
Release(g) ==
    /\ g \in grace
    /\ grace' = grace \ {g}
    /\ Releases(g)
    /\ UNCHANGED <<gen, claim, body, engine, card, registries, owed, told, watch, settling, history>>

\* A quarantine ends after thirty seconds whatever became of its handshake.
Expire(g) ==
    /\ g \in quarantined
    /\ quarantined' = quarantined \ {g}
    /\ outlived' = IF Contains(retired, g) THEN outlived ELSE outlived \cup {g}
    /\ UNCHANGED <<gen, busy, claim, body, engine, card, retired, bound, completed, early, owed, told, watch,
                   grace, settling, said, cut, forgotten>>

Background(g) == SetupFails(g) \/ Dispatch(g)
Handshake(g) == SendFails(g) \/ Acknowledged(g) \/ CancelledAck(g) \/ CancelledDone(g)
Next ==
    \/ Start \/ Stop \/ Silence \/ Stall
    \/ \E g \in Gens : Background(g) \/ Handshake(g) \/ Release(g) \/ Expire(g)
    \/ \E g \in Gens : Activity(g) \/ \E c \in Cards : CardOpens(g, c) \/ CardResolved(g, c)
    \/ \E g \in Gens, outcome \in {"ok", "failed"} : Completed(g, outcome)
    \/ \E s \in settling : SettleEnds(s)

Spec == Init /\ [][Next]_vars

\* An assumption on engines, which the code does not enforce: events keep a
\* turn alive however long it takes, so a turn that never completes is ended
\* only if it falls silent in the end, for stallMs and until the sweep.
Chatters == watch = "silent" /\ watch' = "on"
EnginesFallSilent == WF_vars(Silence) /\ <>[][~Chatters]_vars

\* Setups end, the sweep and the timers fire, settlements end and cards are
\* answered or time out.  Engines owe no answer: a handshake may hang and a
\* turn never complete.
FairSpec ==
    /\ Spec /\ EnginesFallSilent
    /\ WF_vars(Stall)
    /\ WF_vars(\E s \in settling : SettleEnds(s))
    /\ \A g \in Gens : /\ WF_vars(Background(g)) /\ WF_vars(Release(g)) /\ WF_vars(Expire(g))
                       /\ \A c \in Cards : WF_vars(CardResolved(g, c))

-----------------------------------------------------------------------------
TypeOK ==
    /\ gen \in 0..MaxTurns /\ busy \in BOOLEAN
    /\ claim \in [id : {None, gen}, phase : {"setup", "dispatching"}]
    /\ body \in [Gens -> Bodies] /\ engine \in [Gens -> {"none", "live", "over"}]
    /\ card \in [Gens -> Requests] /\ quarantined \subseteq Gens
    /\ \A s \in {retired, completed, early} : s \in Seq(Gens) /\ Len(s) <= Limit /\ IsInjective(s)
    /\ bound \subseteq Gens /\ owed \subseteq Gens
    /\ told \in [Gens -> Outcomes] /\ said \in [Gens -> Outcomes]
    /\ watch \in {"off", "on", "silent", "waiting"}
    /\ grace \subseteq Gens /\ settling \subseteq [of : Gens, by : Gens]
    /\ \A S \in {cut, outlived, forgotten} : S \subseteq Gens

\* A handshake that outlived its quarantine without an event, and a tombstone
\* pushed out by 4096 newer ones, are the two exceptions the bounds make.  A
\* completion of such a turn slips through, and what follows is not excluded.
Excused == outlived \cup forgotten
Slipped == \E g \in Excused : said[g] # "none"

\* A completion settles the conversation for its own turn, never for a newer
\* one that has begun since.
CompletionSettlesItsOwn == \A s \in settling : s.of = s.by \/ Slipped

\* Once a newer turn has reached the engine, an older one that is still alive
\* there cannot be heard.
OldTurnsAreMute ==
    \A g, h \in Gens : g < h /\ engine[g] = "live" /\ engine[h] # "none" => ~Heard(g) \/ g \in Excused \/ Slipped

\* Whoever waits for a turn is told what that turn came to, and is told it
\* although the completion came before the acknowledgement.
OutcomeIsItsOwn ==
    \A g \in Gens :
        /\ told[g] \in {"ok", "failed"} => told[g] = said[g]
        /\ said[g] # "none" /\ body[g] = "done" /\ g \notin cut => told[g] = said[g] \/ Slipped

\* A conversation that takes the next message has let go of the last turn:
\* the watchdog does not count against it, and nobody waits for it any more,
\* but for a turn that was stopped and has not come back from its handshake.
IdleIsClean ==
    ~ThreadBusy => \/ watch = "off" /\ \A g \in owed : body[g] # "done" /\ g \in cut
                   \/ Slipped

\* Only the turn that holds the conversation frees it: by its completion, its
\* failure or its stall.
FreedByItsOwner ==
    [][busy /\ ~busy' => \/ \E s \in settling \ settling' : s.of = gen
                         \/ body[gen] # "done" /\ body'[gen] = "done"
                         \/ gen \in grace \ grace']_vars

\* A turn ends by its own events and leaves the next one alone.
TurnsAreIsolated ==
    /\ [](CompletionSettlesItsOwn /\ OldTurnsAreMute /\ OutcomeIsItsOwn /\ IdleIsClean)
    /\ FreedByItsOwner

\* The watchdog waits for a person whose answer will not be heard: the turn
\* that asked is retired.
WaitsForNobody ==
    watch = "waiting" /\ \A g \in Gens, c \in Cards : card[g][c] = "open" => Contains(retired, g)

\* The turn completed before its dispatch was acknowledged: the claim alone
\* holds the conversation, for as long as the handshake does not return.
HandshakeHangs(g) == ~busy /\ ClaimIs(g) /\ body[g] = "sending"

\* A turn that completes, fails, is stopped or falls silent lets go of the
\* conversation in the end, flag and claim, so that the next message can start,
\* though its engine never answers.  Two ways of holding it for ever are the
\* code's own: the answer to a card that the quarantine swallowed, and the
\* handshake that hangs behind an early completion.
EveryTurnEnds ==
    \A g \in Gens : \/ (gen = g /\ ThreadBusy) ~> (gen # g \/ ~ThreadBusy)
                    \/ <>[]WaitsForNobody \/ <>[]HandshakeHangs(g)
=============================================================================
