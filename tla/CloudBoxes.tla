----------------------------- MODULE CloudBoxes -----------------------------
(***************************************************************************)
(* The cloud computer (Box) of one bot: server/box.ts with its two         *)
(* journals, server/box-create-idempotency.ts and                          *)
(* server/box-delete-journal.ts, against a provider whose answers can be   *)
(* lost and whose account listing lags behind.                             *)
(*                                                                         *)
(* Two activities of the server run at once.  "call" provisions the        *)
(* computer or deletes it; claimBotComputerLifecycle lets one in at a      *)
(* time.  "list" is the inventory of Settings, which reconciles what the   *)
(* journals remember and claims nothing.  A request is served by the       *)
(* provider in one step and its answer is handled in a later one; the code *)
(* between two awaits is one step, so that each operation on a journal is  *)
(* whole (JournalLock shows why).                                          *)
(***************************************************************************)
EXTENDS Naturals, FiniteSets

CONSTANTS Boxes, Keys,       \* ids the provider and the server may draw
          NoBox, NoKey,
          MaxCalls, MaxLists, MaxLost, MaxCrashes, MaxOps   \* bounds

ASSUME ConstantsAssumption ==
    /\ NoBox \notin Boxes /\ NoKey \notin Keys
    /\ {MaxCalls, MaxLists, MaxLost, MaxCrashes, MaxOps} \subseteq Nat

VARIABLES
    box,      \* the provider's truth about each Box
    label,    \* its name there: "plain", or the bot's own "nation" name
    made,     \* [Keys -> the Box made for an idempotency key]
    oper,     \* number of the last deletion operation of a Box
    old,      \* keys past KEY_RETENTION_MS, which the provider has forgotten
    create,   \* the bot's record in the create journal
    del,      \* [Boxes -> record in the deletion journal]
    used,     \* keys drawn
    cache,    \* boxIdCache of the bot
    act,      \* the two activities
    handed,   \* Boxes given to the person by a provision that succeeded
    asked,    \* Boxes the person asked to delete
    count     \* calls, lists, losses and crashes so far

provider == <<box, label, made, oper, old>>
journals == <<create, del, used>>
history == <<handed, asked>>
vars == <<provider, journals, cache, act, history, count>>

BoxStates == {"none", "live", "deleting", "blocked", "gone"}
Phases == {"none", "prepared", "accepted", "completed", "blocked"}
Places == {"idle", "find", "recover", "create", "rename", "ready", "inspect",
           "relist", "delete", "poll", "check", "verify"}
Answers == {"none", "ok", "lost", "refused", "absent", "pending", "blocked", "completed"}

NoRequest == [key |-> NoKey, box |-> NoBox, resolved |-> FALSE]
NoFence == [phase |-> "none", op |-> 0, label |-> "plain"]
Idle == [at |-> "idle", job |-> "none", b |-> NoBox, key |-> NoKey, op |-> 0,
         mine |-> FALSE, tries |-> 0, ans |-> "none"]

Exists(b) == box[b] \in {"live", "deleting", "blocked"}
Fenced(b) == del[b].phase # "none"

Init ==
    /\ box = [b \in Boxes |-> "none"]
    /\ label = [b \in Boxes |-> "plain"]
    /\ made = [k \in Keys |-> NoBox]
    /\ oper = [b \in Boxes |-> 0]
    /\ old = {}
    /\ create = NoRequest
    /\ del = [b \in Boxes |-> NoFence]
    /\ used = {}
    /\ cache = NoBox
    /\ act = [t \in {"call", "list"} |-> Idle]
    /\ handed = {} /\ asked = {}
    /\ count = [calls |-> 0, lists |-> 0, lost |-> 0, crashes |-> 0]

-----------------------------------------------------------------------------
(* Steps of an activity: it sends the request named by its place, waits for *)
(* the answer, or ends.                                                      *)

Becomes(t, a) == act' = [act EXCEPT ![t] = a]
Sends(t, a, place) == Becomes(t, [a EXCEPT !.at = place, !.ans = "none"])
Ends(t) == Becomes(t, Idle)
Answered(t, place, answers) == act[t].at = place /\ act[t].ans \in answers
Waiting(t, place) == act[t].at = place /\ act[t].ans = "none"
Answer(t, answer) == Becomes(t, [act[t] EXCEPT !.ans = answer])

Loses == count.lost < MaxLost /\ count' = [count EXCEPT !.lost = @ + 1]

-----------------------------------------------------------------------------
(* The provider *)

\* No answer: the request or its answer is lost, or it is a 5xx.
Lost(t) ==
    /\ act[t].at # "idle" /\ act[t].ans = "none"
    /\ Answer(t, "lost") /\ Loses
    /\ UNCHANGED <<provider, journals, cache, history>>

\* The answer reaches the server, or only its effect happens.
Replies(t, answer) ==
    \/ Answer(t, answer) /\ UNCHANGED count
    \/ Answer(t, "lost") /\ Loses

CachedIdWorks == cache \in Boxes /\ Exists(cache)

\* A cached id is read directly, otherwise the account is listed: the listing
\* may miss a Box and may still show one that is gone.
ServeFind(t) ==
    /\ Waiting(t, "find")
    /\ \/ /\ CachedIdWorks
          /\ Becomes(t, [act[t] EXCEPT !.ans = "ok", !.b = cache])
       \/ /\ ~CachedIdWorks
          /\ \E b \in Boxes :
                /\ box[b] # "none" /\ label[b] = "nation"
                /\ Becomes(t, [act[t] EXCEPT !.ans = "ok", !.b = b])
       \/ /\ ~CachedIdWorks
          /\ Answer(t, "absent")
    /\ UNCHANGED <<provider, journals, cache, history, count>>

\* A key that is remembered gives the same Box again; another one gives a new
\* Box or a refusal.
ServeCreate(t) ==
    LET k == act[t].key IN
    /\ Waiting(t, "create")
    /\ \/ /\ made[k] # NoBox /\ k \notin old
          /\ Becomes(t, [act[t] EXCEPT !.ans = "ok", !.b = made[k]])
          /\ UNCHANGED <<box, made, count>>
       \/ /\ made[k] = NoBox \/ k \in old
          /\ \E b \in Boxes :
                /\ box[b] = "none"
                /\ box' = [box EXCEPT ![b] = "live"]
                /\ made' = [made EXCEPT ![k] = b]
                /\ \/ Becomes(t, [act[t] EXCEPT !.ans = "ok", !.b = b]) /\ UNCHANGED count
                   \/ Answer(t, "lost") /\ Loses
       \/ made[k] = NoBox /\ Answer(t, "refused") /\ UNCHANGED <<box, made, count>>
    /\ UNCHANGED <<label, oper, old, journals, cache, history>>

ServeRename(t) ==
    LET b == act[t].b IN
    /\ Waiting(t, "rename")
    /\ \/ Exists(b) /\ label' = [label EXCEPT ![b] = "nation"] /\ Replies(t, "ok")
       \/ label' = label /\ Answer(t, "refused") /\ UNCHANGED count
    /\ UNCHANGED <<box, made, oper, old, journals, cache, history>>

\* waitReady and mintDesktopUrl, which may also run out of their budget.
ServeReady(t) ==
    /\ Waiting(t, "ready")
    /\ \/ box[act[t].b] = "live" /\ Answer(t, "ok")
       \/ Answer(t, "refused")
    /\ UNCHANGED <<provider, journals, cache, history, count>>

ServeRead(t) ==
    /\ \E place \in {"recover", "inspect", "check", "verify"} : Waiting(t, place)
    /\ Answer(t, IF Exists(act[t].b) THEN "ok" ELSE "absent")
    /\ UNCHANGED <<provider, journals, cache, history, count>>

ServeRelist(t) ==
    /\ Waiting(t, "relist")
    /\ Answer(t, IF label[act[t].b] = "nation" THEN "ok" ELSE "absent")
    /\ UNCHANGED <<provider, journals, cache, history, count>>

\* A deletion under way keeps its operation, another request starts a new one.
ServeDelete(t) ==
    LET b == act[t].b IN
    /\ Waiting(t, "delete")
    /\ \/ ~Exists(b) /\ Answer(t, "absent") /\ UNCHANGED <<box, oper, count>>
       \/ /\ box[b] \in {"live", "blocked"} /\ oper[b] < MaxOps
          /\ box' = [box EXCEPT ![b] = "deleting"]
          /\ oper' = [oper EXCEPT ![b] = @ + 1]
          /\ \/ Becomes(t, [act[t] EXCEPT !.ans = "pending", !.op = oper'[b]]) /\ UNCHANGED count
             \/ Answer(t, "lost") /\ Loses
       \/ /\ box[b] = "deleting"
          /\ Becomes(t, [act[t] EXCEPT !.ans = "pending", !.op = oper[b]])
          /\ UNCHANGED <<box, oper, count>>
       \/ Answer(t, "refused") /\ UNCHANGED <<box, oper, count>>
    /\ UNCHANGED <<label, made, old, journals, cache, history>>

ServePoll(t) ==
    LET b == act[t].b IN
    /\ Waiting(t, "poll")
    /\ Answer(t, IF act[t].op < oper[b] \/ box[b] = "blocked" THEN "blocked"
                 ELSE IF box[b] = "gone" THEN "completed" ELSE "pending")
    /\ UNCHANGED <<provider, journals, cache, history, count>>

\* A deletion ends or gets stuck; a person can remove a Box at the provider.
Provider(b) ==
    /\ \/ Exists(b) /\ box' = [box EXCEPT ![b] = "gone"]
       \/ box[b] = "deleting" /\ box' = [box EXCEPT ![b] = "blocked"]
    /\ UNCHANGED <<label, made, oper, old, journals, cache, act, history, count>>

\* A day passes, longer than any call that holds the key.  It matters only to
\* a key that is still pending.
Ages(k) ==
    /\ k \notin old /\ create.key = k /\ create.box = NoBox /\ \A t \in DOMAIN act : act[t].key # k
    /\ old' = old \cup {k}
    /\ UNCHANGED <<box, label, made, oper, journals, cache, act, history, count>>

-----------------------------------------------------------------------------
(* The journals.  Each operator is the next value of a journal; an operation *)
(* that the code refuses has no value and ends the activity.                  *)

Requested(k) == [NoRequest EXCEPT !.key = k]
Remembers(k, b) == create.key = k /\ create.box \in {NoBox, b}
Without(k) == IF create.key = k THEN NoRequest ELSE create
Retired(b) == IF create.box = b THEN NoRequest ELSE create

CanPrepare(b, name) == Fenced(b) => del[b].label = name
\* Mutant: a retry keeps the operation of the deletion that was blocked.
PreparedKeepsOperation(b, name) ==
    IF del[b].phase \in {"none", "blocked"}
    THEN [del EXCEPT ![b].phase = "prepared", ![b].label = name]
    ELSE del

Prepared(b, name) ==
    IF del[b].phase \in {"none", "blocked"}
    THEN [del EXCEPT ![b] = [phase |-> "prepared", op |-> 0, label |-> name]]
    ELSE del

CanAccept(b, n) ==
    /\ del[b].phase \notin {"none", "blocked"}
    /\ del[b].op \in {0, n}
Accepted(b, n, phase) ==
    IF del[b].phase = "completed" THEN del
    ELSE [del EXCEPT ![b].phase = phase, ![b].op = n]

CanBlock(b, n) == Fenced(b) /\ (n = 0 \/ del[b].op \in {0, n})
Blocked(b, n) ==
    [del EXCEPT ![b].phase = "blocked", ![b].op = IF n = 0 THEN @ ELSE n]

\* finishRecordedBoxDeletion: the receipt of the create goes first.
Finish(b) ==
    /\ create' = Retired(b)
    /\ del' = [del EXCEPT ![b] = NoFence]
    /\ cache' = IF cache = b THEN NoBox ELSE cache

-----------------------------------------------------------------------------
(* Following a deletion: reconcileRecordedBoxDeletion *)

Reconciles(t, b, job) ==
    LET a == [Idle EXCEPT !.job = job, !.b = b, !.op = del[b].op] IN
    CASE del[b].phase = "completed" -> Finish(b) /\ Ends(t)
      [] del[b].phase = "accepted" -> Sends(t, a, "poll") /\ UNCHANGED <<create, del, cache>>
      [] OTHER -> Sends(t, a, "check") /\ UNCHANGED <<create, del, cache>>

\* The receipt of the operation moves the record, if it still fits.
HandlePoll(t) ==
    LET a == act[t]  b == a.b IN
    /\ \/ /\ Answered(t, "poll", {"pending"})
          /\ IF CanAccept(b, a.op)
             THEN /\ del' = Accepted(b, a.op, "accepted")
                  /\ \E place \in IF a.job = "ending" THEN {"poll", "check"} ELSE {"check"} :
                        Sends(t, a, place)
             ELSE Ends(t) /\ UNCHANGED del
          /\ UNCHANGED <<create, cache>>
       \/ /\ Answered(t, "poll", {"blocked"})
          /\ IF CanBlock(b, a.op) THEN del' = Blocked(b, a.op) /\ Sends(t, a, "check")
             ELSE Ends(t) /\ UNCHANGED del
          /\ UNCHANGED <<create, cache>>
       \/ /\ Answered(t, "poll", {"completed"})
          /\ IF CanAccept(b, a.op) THEN Finish(b) ELSE UNCHANGED <<create, del, cache>>
          /\ Ends(t)
       \/ /\ Answered(t, "poll", {"lost"})
          /\ Sends(t, a, "check")
          /\ UNCHANGED <<create, del, cache>>
    /\ UNCHANGED <<provider, used, history, count>>

\* The exact Box is read.  Absence is proof; a Box under another name is not
\* touched.  Otherwise the deletion is still to be done, and the call that
\* asks for it may send it (again), unless the provider has accepted it.
HandleCheck(t) ==
    LET a == act[t]  b == a.b IN
    /\ \/ /\ Answered(t, "check", {"absent"})
          /\ Finish(b) /\ Ends(t)
       \/ /\ Answered(t, "check", {"ok", "lost"})
          /\ IF a.ans = "ok" /\ Fenced(b) /\ label[b] # del[b].label THEN Ends(t) /\ UNCHANGED del
             ELSE IF a.job = "delete" /\ del[b].phase \notin {"accepted", "completed"}
                  THEN Sends(t, a, "relist") /\ UNCHANGED del
             ELSE IF a.job = "prior" /\ del[b].phase \in {"prepared", "blocked"}
                  THEN /\ del' = Prepared(b, del[b].label)
                       /\ Sends(t, [Idle EXCEPT !.job = "ending", !.b = b], "delete")
             ELSE Ends(t) /\ UNCHANGED del
          /\ UNCHANGED <<create, cache>>
    /\ UNCHANGED <<provider, used, history, count>>

\* Mutant: an accepted deletion counts as done.
HandleDeleteTrusting(t) ==
    LET b == act[t].b IN
    /\ \/ /\ Answered(t, "delete", {"absent", "pending"})
          /\ Finish(b) /\ Ends(t)
       \/ /\ Answered(t, "delete", {"refused"})
          /\ del' = IF CanBlock(b, 0) THEN Blocked(b, 0) ELSE del
          /\ Ends(t) /\ UNCHANGED <<create, cache>>
       \/ /\ Answered(t, "delete", {"lost"})
          /\ Ends(t) /\ UNCHANGED <<create, del, cache>>
    /\ UNCHANGED <<provider, used, history, count>>

\* requestRecordedBoxDeletion, from the answer to DELETE on.
HandleDelete(t) ==
    LET a == act[t]  b == a.b IN
    /\ \/ /\ Answered(t, "delete", {"absent"})
          /\ Finish(b) /\ Ends(t)
       \/ /\ Answered(t, "delete", {"refused"})
          /\ del' = IF CanBlock(b, 0) THEN Blocked(b, 0) ELSE del
          /\ Ends(t) /\ UNCHANGED <<create, cache>>
       \/ /\ Answered(t, "delete", {"pending"})
          /\ IF CanAccept(b, a.op) THEN del' = Accepted(b, a.op, "accepted") /\ Sends(t, a, "poll")
             ELSE Ends(t) /\ UNCHANGED del
          /\ UNCHANGED <<create, cache>>
       \/ /\ Answered(t, "delete", {"lost"})
          /\ Ends(t) /\ UNCHANGED <<create, del, cache>>
    /\ UNCHANGED <<provider, used, history, count>>

\* requestRecordedBoxDeletion: on disk before it is sent.
RequestsDeletion(t, b, name) ==
    IF CanPrepare(b, name)
    THEN del' = Prepared(b, name) /\ Sends(t, [Idle EXCEPT !.job = "ending", !.b = b], "delete")
    ELSE Ends(t) /\ UNCHANGED del

-----------------------------------------------------------------------------
(* deleteManagedBox *)

Delete(b) ==
    /\ act["call"].at = "idle" /\ count.calls < MaxCalls /\ box[b] # "none"
    /\ count' = [count EXCEPT !.calls = @ + 1]
    /\ asked' = asked \cup {b}
    /\ IF Fenced(b) THEN Reconciles("call", b, "delete")
       ELSE /\ Sends("call", [Idle EXCEPT !.job = "delete", !.b = b], "relist")
            /\ UNCHANGED <<create, del, cache>>
    /\ UNCHANGED <<provider, used, handed>>

HandleRelist(t) ==
    LET a == act[t] IN
    /\ \/ Answered(t, "relist", {"ok"}) /\ RequestsDeletion(t, a.b, "nation")
       \/ Answered(t, "relist", {"absent", "lost"}) /\ Ends(t) /\ UNCHANGED del
    /\ UNCHANGED <<provider, create, used, cache, history, count>>

-----------------------------------------------------------------------------
(* provisionBox *)

\* A deletion that was asked for wins: it is finished, and this call fails.
Provision ==
    /\ act["call"].at = "idle" /\ count.calls < MaxCalls
    /\ count' = [count EXCEPT !.calls = @ + 1]
    /\ \/ \E b \in Boxes : Fenced(b) /\ Reconciles("call", b, "prior")
       \/ /\ \A b \in Boxes : ~Fenced(b)
          /\ Sends("call", [Idle EXCEPT !.job = "provision"], "find")
          /\ UNCHANGED <<create, del, cache>>
    /\ UNCHANGED <<provider, used, history>>

\* Mutant: a pending key is used whatever its age.
BeginsAnyAge(t, record) ==
    \/ /\ record.box # NoBox
       /\ Sends(t, [act[t] EXCEPT !.b = record.box, !.key = record.key], "recover")
       /\ create' = record /\ UNCHANGED used
    \/ /\ record.box = NoBox /\ record.key # NoKey
       /\ Sends(t, [act[t] EXCEPT !.key = record.key], "create")
       /\ create' = record /\ UNCHANGED used
    \/ /\ record = NoRequest
       /\ \E k \in Keys \ used :
             /\ create' = Requested(k) /\ used' = used \cup {k}
             /\ Sends(t, [act[t] EXCEPT !.key = k, !.mine = TRUE], "create")

\* beginBoxCreate: a Box that is known, else a key that is pending and that
\* the provider still knows, else a new key.
Begins(t, record) ==
    \/ /\ record.box # NoBox
       /\ Sends(t, [act[t] EXCEPT !.b = record.box, !.key = record.key], "recover")
       /\ create' = record /\ UNCHANGED used
    \/ /\ record.box = NoBox /\ record.key # NoKey
       /\ IF record.key \in old THEN Ends(t)
          ELSE Sends(t, [act[t] EXCEPT !.key = record.key], "create")
       /\ create' = record /\ UNCHANGED used
    \/ /\ record = NoRequest
       /\ \E k \in Keys \ used :
             /\ create' = Requested(k) /\ used' = used \cup {k}
             /\ Sends(t, [act[t] EXCEPT !.key = k, !.mine = TRUE], "create")

HandleFind(t) ==
    /\ \/ /\ Answered(t, "find", {"ok"})
          /\ cache' = act[t].b
          /\ Sends(t, act[t], "ready")
          /\ UNCHANGED <<create, used>>
       \/ /\ Answered(t, "find", {"absent"}) /\ cache' = NoBox
          /\ IF \E b \in Boxes : Fenced(b) THEN Ends(t) /\ UNCHANGED <<create, used>>
             ELSE Begins(t, create)
       \/ /\ Answered(t, "find", {"lost"}) /\ cache' = NoBox
          /\ Ends(t) /\ UNCHANGED <<create, used>>
    /\ UNCHANGED <<provider, del, history, count>>

\* A remembered Box is read before anything else is tried.
HandleRecover(t) ==
    /\ \/ Answered(t, "recover", {"ok"}) /\ Sends(t, act[t], "rename") /\ UNCHANGED <<create, used>>
       \/ Answered(t, "recover", {"lost"}) /\ Ends(t) /\ UNCHANGED <<create, used>>
       \/ Answered(t, "recover", {"absent"}) /\ Begins(t, Without(act[t].key))
    /\ UNCHANGED <<provider, del, cache, history, count>>

\* Mutant: a lost answer gives the key up, as a refusal does.
HandleCreateForgets(t) ==
    LET a == act[t] IN
    /\ \/ /\ Answered(t, "create", {"ok"})
          /\ IF Remembers(a.key, a.b)
             THEN create' = [create EXCEPT !.box = a.b] /\ Sends(t, a, "rename")
             ELSE Ends(t) /\ UNCHANGED create
       \/ /\ Answered(t, "create", {"lost", "refused"})
          /\ create' = Without(a.key) /\ Ends(t)
    /\ UNCHANGED <<provider, del, used, cache, history, count>>

\* POST /boxes: a lost answer is retried once with the same key, a refusal
\* gives the key up.
HandleCreate(t) ==
    LET a == act[t] IN
    /\ \/ /\ Answered(t, "create", {"ok"})
          /\ IF Remembers(a.key, a.b)
             THEN create' = [create EXCEPT !.box = a.b] /\ Sends(t, [a EXCEPT !.tries = 0], "rename")
             ELSE Ends(t) /\ UNCHANGED create
       \/ /\ Answered(t, "create", {"lost"})
          /\ IF a.tries = 0 THEN Sends(t, [a EXCEPT !.tries = 1], "create") ELSE Ends(t)
          /\ UNCHANGED create
       \/ /\ Answered(t, "create", {"refused"})
          /\ create' = Without(a.key) /\ Ends(t)
    /\ UNCHANGED <<provider, del, used, cache, history, count>>

\* Mutant: whatever Box the call worked on is cleaned up.
FailsAlways(t) == Sends(t, [act[t] EXCEPT !.key = NoKey], "inspect")

\* Only a Box that this very call created is cleaned up.
Fails(t) == IF act[t].mine THEN Sends(t, [act[t] EXCEPT !.key = NoKey], "inspect") ELSE Ends(t)

HandleRename(t) ==
    LET a == act[t] IN
    /\ \/ /\ Answered(t, "rename", {"ok"})
          /\ IF create.key = a.key /\ create.box = a.b
             THEN create' = [create EXCEPT !.resolved = TRUE] /\ Sends(t, [a EXCEPT !.key = NoKey], "ready")
             ELSE Fails(t) /\ UNCHANGED create
       \/ Answered(t, "rename", {"lost", "refused"}) /\ Fails(t) /\ UNCHANGED create
    /\ UNCHANGED <<provider, del, used, cache, history, count>>

HandleReady(t) ==
    LET b == act[t].b IN
    /\ Answered(t, "ready", {"ok", "refused", "lost"})
    /\ IF act[t].ans = "ok" /\ ~Fenced(b) THEN Ends(t) /\ handed' = handed \cup {b}
       ELSE Fails(t) /\ UNCHANGED handed
    /\ UNCHANGED <<provider, journals, cache, asked, count>>

\* The clean-up of provisionBox.  If the Box cannot be read, the fence gets
\* the name that it should have had.
HandleInspect(t) ==
    LET b == act[t].b IN
    /\ \/ /\ Answered(t, "inspect", {"absent"})
          /\ create' = Retired(b) /\ cache' = NoBox
          /\ Ends(t) /\ UNCHANGED del
       \/ /\ Answered(t, "inspect", {"ok", "lost"})
          /\ RequestsDeletion(t, b, IF act[t].ans = "ok" THEN label[b] ELSE "nation")
          /\ UNCHANGED <<create, cache>>
    /\ UNCHANGED <<provider, used, history, count>>

-----------------------------------------------------------------------------
(* listManagedBoxes *)

List(b) ==
    /\ act["list"].at = "idle" /\ count.lists < MaxLists
    /\ count' = [count EXCEPT !.lists = @ + 1]
    /\ \/ /\ create.resolved /\ create.box = b
          /\ Sends("list", [Idle EXCEPT !.job = "list", !.b = b], "verify")
          /\ UNCHANGED <<create, del, cache>>
       \/ Fenced(b) /\ Reconciles("list", b, "list")
    /\ UNCHANGED <<provider, used, history>>

\* A remembered Box that is gone is forgotten.
HandleVerify(t) ==
    /\ Answered(t, "verify", {"ok", "absent", "lost"})
    /\ create' = IF act[t].ans = "absent" THEN Retired(act[t].b) ELSE create
    /\ Ends(t)
    /\ UNCHANGED <<provider, del, used, cache, history, count>>

-----------------------------------------------------------------------------
\* A crash loses what is in memory.  It can fall between the journal writes
\* of a deletion that is being finished.
Crash ==
    /\ count.crashes < MaxCrashes
    /\ count' = [count EXCEPT !.crashes = @ + 1]
    /\ act' = [t \in DOMAIN act |-> Idle]
    /\ cache' = NoBox
    /\ \/ UNCHANGED <<create, del>>
       \/ \E t \in DOMAIN act :
             /\ Answered(t, "poll", {"completed"}) /\ CanAccept(act[t].b, act[t].op)
             /\ del' = Accepted(act[t].b, act[t].op, "completed")
             /\ create' \in {create, Retired(act[t].b)}
       \/ \E t \in DOMAIN act :
             /\ \E place \in {"check", "delete"} : Answered(t, place, {"absent"})
             /\ create' = Retired(act[t].b) /\ UNCHANGED del
    /\ UNCHANGED <<provider, used, history>>

Serve(t) ==
    \/ ServeFind(t) \/ ServeCreate(t) \/ ServeRename(t) \/ ServeReady(t)
    \/ ServeRead(t) \/ ServeRelist(t) \/ ServeDelete(t) \/ ServePoll(t)

Handle(t) ==
    \/ HandleFind(t) \/ HandleRecover(t) \/ HandleCreate(t) \/ HandleRename(t)
    \/ HandleReady(t) \/ HandleInspect(t) \/ HandleRelist(t) \/ HandleDelete(t)
    \/ HandlePoll(t) \/ HandleCheck(t) \/ HandleVerify(t)

Next ==
    \/ Provision
    \/ \E b \in Boxes : Delete(b) \/ List(b) \/ Provider(b)
    \/ \E k \in Keys : Ages(k)
    \/ \E t \in {"call", "list"} : Serve(t) \/ Lost(t) \/ Handle(t)
    \/ Crash

Spec == Init /\ [][Next]_vars

-----------------------------------------------------------------------------
(* Properties *)

\* The types, and what the two journals require of their files when they
\* load them: a record that breaks it would stop every later operation.
TypeOK ==
    /\ box \in [Boxes -> BoxStates]
    /\ label \in [Boxes -> {"plain", "nation"}]
    /\ made \in [Keys -> Boxes \cup {NoBox}]
    /\ oper \in [Boxes -> 0..MaxOps]
    /\ old \subseteq Keys /\ used \subseteq Keys
    /\ create.resolved => create.box # NoBox
    /\ \A b \in Boxes :
          /\ del[b].phase = "prepared" => del[b].op = 0
          /\ del[b].phase \in {"accepted", "completed"} => del[b].op # 0
    /\ create \in [key : Keys \cup {NoKey}, box : Boxes \cup {NoBox}, resolved : BOOLEAN]
    /\ del \in [Boxes -> [phase : Phases, op : 0..MaxOps, label : {"plain", "nation"}]]
    /\ cache \in Boxes \cup {NoBox}
    /\ act \in [{"call", "list"} ->
                  [at : Places, job : {"none", "provision", "delete", "prior", "ending", "list"},
                   b : Boxes \cup {NoBox}, key : Keys \cup {NoKey}, op : 0..MaxOps,
                   mine : BOOLEAN, tries : 0..1, ans : Answers]]
    /\ handed \subseteq Boxes /\ asked \subseteq Boxes

\* However answers are lost and whenever the server stops, a bot never has
\* two computers that cost money.
OneBillable == \A b, c \in Boxes : Exists(b) /\ Exists(c) => b = c

\* No Box is lost from sight: it has its name, or a journal leads to it.
NoOrphan ==
    \A b \in Boxes : Exists(b) =>
       \/ label[b] = "nation"
       \/ create.box = b
       \/ create.key # NoKey /\ made[create.key] = b
       \/ Fenced(b)

\* The fence of a deletion falls only when the Box is gone.
FenceUntilGone ==
    [][\A b \in Boxes : Fenced(b) /\ del'[b] = NoFence => box[b] = "gone"]_vars

\* A computer that was given to the person is never deleted by a clean-up.
HandedKeptUnlessAsked == \A b \in Boxes : Fenced(b) /\ b \in handed => b \in asked
=============================================================================
