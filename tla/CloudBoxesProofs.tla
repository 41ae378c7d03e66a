-------------------------- MODULE CloudBoxesProofs --------------------------
(* Proofs that a bot never has two cloud computers, that none is lost from   *)
(* sight, that no fence falls early and that no clean-up deletes a computer  *)
(* the person was given, for any number of Boxes, keys, calls, lost answers, *)
(* deletions and crashes.                                                    *)
EXTENDS CloudBoxes, TLAPS

-----------------------------------------------------------------------------
(* The inductive invariant: what holds of the provider, of each journal, of  *)
(* the cache, and of an activity.                                            *)

Activities == {"call", "list"}
Labels == {"plain", "nation"}
Requests == [key : Keys \cup {NoKey}, box : Boxes \cup {NoBox}, resolved : BOOLEAN]
Fences == [phase : Phases, op : 0..MaxOps, label : Labels]
Jobs == {"none", "provision", "delete", "prior", "ending", "list"}
Activity ==
    [at : Places, job : Jobs, b : Boxes \cup {NoBox}, key : Keys \cup {NoKey},
     op : 0..MaxOps, mine : BOOLEAN, tries : 0..1, ans : Answers]

BoxesFit ==
    /\ box \in [Boxes -> BoxStates] /\ label \in [Boxes -> Labels]
    /\ made \in [Keys -> Boxes \cup {NoBox}] /\ oper \in [Boxes -> 0..MaxOps]
    /\ old \subseteq Keys /\ handed \subseteq Boxes /\ asked \subseteq Boxes
    /\ \A k \in Keys : made[k] # NoBox => box[made[k]] # "none"
    /\ \A b \in handed : box[b] # "none"
    /\ \A b \in Boxes : box[b] = "deleting" => oper[b] # 0

\* A key makes nothing before it is drawn, a remembered Box is the one that
\* its key made, and the only Box that costs money is the one that the record
\* leads to.
CreateSound(r, drawn) ==
    /\ r \in Requests /\ drawn \subseteq Keys /\ old \subseteq drawn
    /\ r.key # NoKey => r.key \in drawn
    /\ \A k \in Keys \ drawn : made[k] = NoBox
    /\ r.box # NoBox => r.key # NoKey /\ made[r.key] = r.box
    /\ r.resolved => r.box # NoBox
    /\ \A b \in Boxes : Exists(b) => r.key # NoKey /\ made[r.key] = b
CreateFits == CreateSound(create, used)

\* The end of a deletion is the end of its Box, and a fence around a Box that
\* was handed over was asked for.
FenceSound(b, f) ==
    /\ f \in Fences
    /\ f.phase = "prepared" => f.op = 0
    /\ f.phase \in {"accepted", "completed"} => f.op # 0
    /\ f.phase = "completed" => box[b] = "gone"
    /\ f.phase # "none" => box[b] # "none"
    /\ f.phase # "none" /\ b \in handed => b \in asked
FencesFit == del \in [Boxes -> Fences] /\ \A b \in Boxes : FenceSound(b, del[b])

CacheFits == cache \in Boxes \cup {NoBox} /\ (cache # NoBox => box[cache] # "none")

\* Every place but three concerns a Box.
PlaceFits(t) ==
    /\ act[t].at \notin {"idle", "find", "create"} => act[t].b # NoBox
    /\ act[t].at = "find" /\ act[t].ans = "ok" => act[t].b # NoBox
    /\ act[t].b # NoBox => box[act[t].b] # "none"
    /\ act[t].key # NoKey => act[t].key \in used

\* A create is sent with the pending key, which the provider still knows.
CreatePending(t) ==
    act[t].at = "create" =>
        /\ act[t].key # NoKey /\ act[t].key \notin old
        /\ create.key = act[t].key /\ create.box = NoBox
        /\ act[t].ans = "ok" => act[t].b # NoBox /\ made[act[t].key] = act[t].b
        /\ act[t].ans = "refused" => made[act[t].key] = NoBox

\* A recovery reads the Box of the record that it will forget.
RecoversRecord(t) ==
    act[t].at = "recover" =>
        /\ act[t].key # NoKey
        /\ create.key = act[t].key => create.box = act[t].b

\* An answer of absence, and the end of a deletion, stay true.
AbsenceIsFinal(t) ==
    \/ act[t].at \in {"recover", "inspect", "check", "verify", "delete"} /\ act[t].ans = "absent"
    \/ act[t].at = "poll" /\ act[t].ans = "completed"
    => box[act[t].b] = "gone"

\* A deletion is followed by the number of its operation.
OperationNumbered(t) ==
    \/ act[t].at = "poll"
    \/ act[t].at = "delete" /\ act[t].ans = "pending"
    => act[t].op # 0

\* A call cleans up what it made itself and has not handed over.
CleansOwn(t) ==
    /\ act[t].at \in {"find", "recover"} => ~act[t].mine
    /\ act[t].at = "inspect" => act[t].mine
    /\ act[t].mine /\ act[t].at = "create" => made[act[t].key] \notin handed
    /\ act[t].mine /\ act[t].at \in {"rename", "ready", "inspect"} => act[t].b \notin handed

\* A deletion that is not a clean-up was asked for.
DeleteAsked(t) ==
    /\ act[t].job = "delete" => act[t].at \in {"poll", "check", "relist"}
    /\ act[t].job = "delete" \/ act[t].at = "relist" => act[t].b \in asked

ActivityFits(t) ==
    /\ PlaceFits(t) /\ CreatePending(t) /\ RecoversRecord(t) /\ AbsenceIsFinal(t)
    /\ OperationNumbered(t) /\ CleansOwn(t) /\ DeleteAsked(t)

\* The inventory never creates, deletes or cleans up.
ListOnlyReads ==
    /\ act["list"].at \in {"idle", "verify", "poll", "check"}
    /\ act["list"].job \in {"none", "list"}

IInv ==
    /\ BoxesFit /\ CreateFits /\ FencesFit /\ CacheFits
    /\ act \in [Activities -> Activity]
    /\ ListOnlyReads
    /\ \A t \in Activities : ActivityFits(t)

\* What a step may do to the fences.
FencesFall == \A b \in Boxes : Fenced(b) /\ del'[b] = NoFence => box[b] = "gone"

-----------------------------------------------------------------------------
LEMMA InitIInv == Init => IInv
  <1> SUFFICES ASSUME Init PROVE IInv
    OBVIOUS
  <1>1. BoxesFit /\ CreateFits /\ CacheFits
    BY ConstantsAssumption DEF Init, BoxesFit, CreateFits, CreateSound, CacheFits, BoxStates,
       Labels, Requests, NoRequest, Exists
  <1>2. FencesFit
    BY ConstantsAssumption DEF Init, FencesFit, FenceSound, Fences, NoFence, Phases, Labels
  <1>3. act \in [Activities -> Activity] /\ ListOnlyReads /\ \A t \in Activities : act[t] = Idle
    BY ConstantsAssumption DEF Init, Activities, Activity, ListOnlyReads, Idle, Places, Jobs, Answers
  <1>4. \A t \in Activities : ActivityFits(t)
    BY <1>3 DEF Idle, ActivityFits, PlaceFits, CreatePending, RecoversRecord, AbsenceIsFinal,
       OperationNumbered, CleansOwn, DeleteAsked
  <1> QED
    BY <1>1, <1>2, <1>3, <1>4 DEF IInv

-----------------------------------------------------------------------------
(* What a step does to the activities. *)

Others(t) == \A u \in Activities \ {t} : act'[u] = act[u]
Moves(t) == act' \in [Activities -> Activity] /\ Others(t)

LEMMA BecomesShape ==
    ASSUME act \in [Activities -> Activity], NEW t \in Activities, NEW a \in Activity, Becomes(t, a)
    PROVE  Moves(t) /\ act'[t] = a
  BY DEF Becomes, Moves, Others

LEMMA AnswerShape ==
    ASSUME act \in [Activities -> Activity], NEW t \in Activities, NEW x \in Answers, Answer(t, x)
    PROVE  /\ Moves(t) /\ act'[t].ans = x
           /\ act'[t].at = act[t].at /\ act'[t].job = act[t].job /\ act'[t].b = act[t].b
           /\ act'[t].key = act[t].key /\ act'[t].op = act[t].op /\ act'[t].mine = act[t].mine
  <1>1. [act[t] EXCEPT !.ans = x] \in Activity
    BY DEF Activity
  <1>2. Moves(t) /\ act'[t] = [act[t] EXCEPT !.ans = x]
    BY <1>1, BecomesShape DEF Answer
  <1>3. act[t] \in Activity
    OBVIOUS
  <1> QED
    BY <1>2, <1>3 DEF Activity

LEMMA SendsShape ==
    ASSUME act \in [Activities -> Activity], NEW t \in Activities, NEW a \in Activity,
           NEW place \in Places, Sends(t, a, place)
    PROVE  /\ Moves(t) /\ act'[t].at = place /\ act'[t].ans = "none"
           /\ act'[t].job = a.job /\ act'[t].b = a.b /\ act'[t].key = a.key
           /\ act'[t].op = a.op /\ act'[t].mine = a.mine
  <1>1. [a EXCEPT !.at = place, !.ans = "none"] \in Activity
    BY DEF Activity, Answers
  <1>2. Moves(t) /\ act'[t] = [a EXCEPT !.at = place, !.ans = "none"]
    BY <1>1, BecomesShape DEF Sends
  <1> QED
    BY <1>2 DEF Activity

LEMMA IdleType ==
    /\ Idle \in Activity /\ Idle.at = "idle" /\ Idle.job = "none" /\ Idle.b = NoBox
    /\ Idle.key = NoKey /\ Idle.mine = FALSE
  BY ConstantsAssumption DEF Idle, Activity, Places, Jobs, Answers

LEMMA IdleFits ==
    ASSUME NEW t \in Activities, act'[t] = Idle
    PROVE  ActivityFits(t)'
  BY DEF Idle, ActivityFits, PlaceFits, CreatePending, RecoversRecord, AbsenceIsFinal,
         OperationNumbered, CleansOwn, DeleteAsked

LEMMA EndsShape ==
    ASSUME act \in [Activities -> Activity], NEW t \in Activities, Ends(t)
    PROVE  Moves(t) /\ act'[t] = Idle /\ ActivityFits(t)'
  BY IdleType, IdleFits, BecomesShape DEF Ends

-----------------------------------------------------------------------------
(* An activity that does not move keeps fitting. *)

\* What every step respects: a Box is made once and ends once, and keys and
\* requests of the person are not forgotten.
Progress ==
    /\ \A b \in Boxes : box[b] # "none" => box'[b] # "none"
    /\ \A b \in Boxes : box[b] = "gone" => box'[b] = "gone"
    /\ used \subseteq used' /\ asked \subseteq asked'

\* The record of a create changes under a call only by being retired.
OnlyRetires == create' = create \/ (create.box # NoBox /\ create' = NoRequest)

LEMMA ListUndisturbed ==
    ASSUME IInv, Progress, act'["list"] = act["list"]
    PROVE  ActivityFits("list")'
  <1>1. act["list"] \in Activity /\ ActivityFits("list") /\ ListOnlyReads
    BY DEF IInv, Activities
  <1> QED
    BY <1>1 DEF Progress, Activity, ListOnlyReads, ActivityFits, PlaceFits, CreatePending,
         RecoversRecord, AbsenceIsFinal, OperationNumbered, CleansOwn, DeleteAsked

LEMMA CallUndisturbed ==
    ASSUME IInv, Progress, OnlyRetires, act'["call"] = act["call"],
           made' = made, handed' = handed, act["call"].key \in old' => act["call"].key \in old
    PROVE  ActivityFits("call")'
  <1>1. act["call"] \in Activity /\ ActivityFits("call")
    BY DEF IInv, Activities
  <1> QED
    BY <1>1 DEF Progress, OnlyRetires, Activity, NoRequest, ActivityFits, PlaceFits, CreatePending,
         RecoversRecord, AbsenceIsFinal, OperationNumbered, CleansOwn, DeleteAsked

LEMMA StepFits ==
    ASSUME IInv, BoxesFit', CreateFits', FencesFit', CacheFits', Progress,
           NEW t \in Activities, Moves(t), ActivityFits(t)', ListOnlyReads',
           t = "list" => OnlyRetires /\ UNCHANGED <<made, handed, old>>
    PROVE  IInv'
  <1>1. CASE t = "call"
    BY <1>1, ListUndisturbed DEF IInv, Moves, Others, Activities
  <1>2. CASE t = "list"
    BY <1>2, CallUndisturbed DEF IInv, Moves, Others, Activities
  <1> QED
    BY <1>1, <1>2 DEF Activities

\* What a step leaves alone still fits.
LEMMA BoxesKept ==
    ASSUME BoxesFit, UNCHANGED <<provider, history>> PROVE BoxesFit'
  BY DEF BoxesFit, provider, history

LEMMA CreateKept ==
    ASSUME CreateFits, UNCHANGED <<box, made, old, create, used>> PROVE CreateFits'
  BY DEF CreateFits, CreateSound, Exists

LEMMA FencesKept ==
    ASSUME FencesFit, UNCHANGED <<box, del, handed>>, asked \subseteq asked'
    PROVE  FencesFit' /\ FencesFall
  BY DEF FencesFit, FenceSound, FencesFall, Fenced, NoFence

LEMMA CacheKept ==
    ASSUME CacheFits, UNCHANGED <<box, cache>> PROVE CacheFits'
  BY DEF CacheFits

LEMMA ListKept ==
    ASSUME ListOnlyReads, NEW t \in Activities, Moves(t),
           t = "call" \/ (act'[t].at = act[t].at /\ act'[t].job = act[t].job) \/ act'[t] = Idle
    PROVE  ListOnlyReads'
  BY DEF ListOnlyReads, Moves, Others, Activities, Idle

-----------------------------------------------------------------------------
(* Answers of the provider. *)

LEMMA QuietStep ==
    ASSUME IInv, NEW t \in Activities, Moves(t), ActivityFits(t)',
           act'[t].at = act[t].at, act'[t].job = act[t].job,
           label' \in [Boxes -> Labels],
           UNCHANGED <<box, made, oper, old, journals, cache, history>>
    PROVE  IInv' /\ FencesFall
  <1>1. BoxesFit'
    BY DEF IInv, BoxesFit, history
  <1>2. CreateFits' /\ FencesFit' /\ FencesFall /\ CacheFits'
    BY CreateKept, FencesKept, CacheKept DEF IInv, journals, history
  <1>3. ListOnlyReads'
    BY ListKept DEF IInv
  <1>4. Progress /\ OnlyRetires
    BY DEF Progress, OnlyRetires, journals, history
  <1> QED
    BY <1>1, <1>2, <1>3, <1>4, StepFits DEF history

LEMMA AnswerKeeps ==
    ASSUME IInv, NEW t \in Activities, NEW x \in Answers, Answer(t, x),
           act[t].at = "find" => x # "ok",
           act[t].at = "create" => x # "ok" /\ (x = "refused" => made[act[t].key] = NoBox),
           act[t].at \in {"recover", "inspect", "check", "verify", "delete"} /\ x = "absent"
              => ~Exists(act[t].b),
           act[t].at = "poll" /\ x = "completed" => box[act[t].b] = "gone",
           act[t].at = "delete" => x # "pending",
           label' \in [Boxes -> Labels],
           UNCHANGED <<box, made, oper, old, journals, cache, history>>
    PROVE  IInv' /\ FencesFall
  <1>1. act[t] \in Activity /\ ActivityFits(t) /\ act \in [Activities -> Activity]
    BY DEF IInv
  <1>2. /\ Moves(t) /\ act'[t].ans = x
        /\ act'[t].at = act[t].at /\ act'[t].job = act[t].job /\ act'[t].b = act[t].b
        /\ act'[t].key = act[t].key /\ act'[t].op = act[t].op /\ act'[t].mine = act[t].mine
    BY <1>1, AnswerShape
  <1>3. PlaceFits(t)' /\ RecoversRecord(t)' /\ CleansOwn(t)' /\ DeleteAsked(t)'
    BY <1>1, <1>2 DEF ActivityFits, PlaceFits, RecoversRecord, CleansOwn, DeleteAsked, journals, history
  <1>4. CreatePending(t)'
    BY <1>1, <1>2 DEF ActivityFits, CreatePending, journals
  <1>5. AbsenceIsFinal(t)'
    <2>1. act[t].b # NoBox /\ ~Exists(act[t].b) => box[act[t].b] = "gone"
      BY <1>1 DEF IInv, BoxesFit, BoxStates, ActivityFits, PlaceFits, Exists, Activity
    <2> QED
      BY <1>1, <1>2, <2>1 DEF ActivityFits, PlaceFits, AbsenceIsFinal
  <1>6. OperationNumbered(t)'
    BY <1>1, <1>2 DEF ActivityFits, OperationNumbered
  <1> QED
    BY <1>2, <1>3, <1>4, <1>5, <1>6, QuietStep DEF ActivityFits

LEMMA LostKeeps ==
    ASSUME IInv, NEW t \in Activities, Lost(t)
    PROVE  IInv' /\ FencesFall
  <1>1. "lost" \in Answers /\ label \in [Boxes -> Labels]
    BY DEF IInv, BoxesFit, Answers
  <1> QED
    BY <1>1, AnswerKeeps DEF Lost, provider

LEMMA ServeRenameKeeps ==
    ASSUME IInv, NEW t \in Activities, ServeRename(t)
    PROVE  IInv' /\ FencesFall
  <1>1. PICK x \in {"ok", "lost", "refused"} : Answer(t, x)
    BY DEF ServeRename, Replies
  <1>2. label' \in [Boxes -> Labels]
    BY DEF IInv, BoxesFit, ServeRename, Labels
  <1>3. x \in Answers
    BY DEF Answers
  <1> QED
    BY <1>1, <1>2, <1>3, AnswerKeeps DEF ServeRename, Waiting

LEMMA ServeReadyKeeps ==
    ASSUME IInv, NEW t \in Activities, ServeReady(t)
    PROVE  IInv' /\ FencesFall
  <1>1. PICK x \in {"ok", "refused"} : Answer(t, x)
    BY DEF ServeReady
  <1>2. x \in Answers /\ label \in [Boxes -> Labels]
    BY DEF IInv, BoxesFit, Answers
  <1> QED
    BY <1>1, <1>2, AnswerKeeps DEF ServeReady, Waiting, provider

LEMMA ServeReadKeeps ==
    ASSUME IInv, NEW t \in Activities, ServeRead(t)
    PROVE  IInv' /\ FencesFall
  <1>1. PICK x \in {"ok", "absent"} : Answer(t, x) /\ (x = "absent" => ~Exists(act[t].b))
    BY DEF ServeRead
  <1>2. x \in Answers /\ label \in [Boxes -> Labels]
    BY DEF IInv, BoxesFit, Answers
  <1> QED
    BY <1>1, <1>2, AnswerKeeps DEF ServeRead, Waiting, provider

LEMMA ServeRelistKeeps ==
    ASSUME IInv, NEW t \in Activities, ServeRelist(t)
    PROVE  IInv' /\ FencesFall
  <1>1. PICK x \in {"ok", "absent"} : Answer(t, x)
    BY DEF ServeRelist
  <1>2. x \in Answers /\ label \in [Boxes -> Labels]
    BY DEF IInv, BoxesFit, Answers
  <1> QED
    BY <1>1, <1>2, AnswerKeeps DEF ServeRelist, Waiting, provider

LEMMA ServePollKeeps ==
    ASSUME IInv, NEW t \in Activities, ServePoll(t)
    PROVE  IInv' /\ FencesFall
  <1>1. PICK x \in {"blocked", "completed", "pending"} :
           Answer(t, x) /\ (x = "completed" => box[act[t].b] = "gone")
    BY DEF ServePoll
  <1>2. x \in Answers /\ label \in [Boxes -> Labels]
    BY DEF IInv, BoxesFit, Answers
  <1> QED
    BY <1>1, <1>2, AnswerKeeps DEF ServePoll, Waiting, provider

LEMMA ServeFindKeeps ==
    ASSUME IInv, NEW t \in Activities, ServeFind(t)
    PROVE  IInv' /\ FencesFall
  <1>1. /\ act \in [Activities -> Activity] /\ act[t] \in Activity /\ ActivityFits(t)
        /\ label \in [Boxes -> Labels]
    BY DEF IInv, BoxesFit
  <1>2. act[t].at = "find" /\ UNCHANGED <<provider, journals, cache, history>>
    BY DEF ServeFind, Waiting
  <1>3. CASE Answer(t, "absent")
    <2>1. "absent" \in Answers
      BY DEF Answers
    <2> QED
      BY <1>1, <1>2, <1>3, <2>1, AnswerKeeps DEF provider
  <1>4. ASSUME NEW b \in Boxes, box[b] # "none",
               Becomes(t, [act[t] EXCEPT !.ans = "ok", !.b = b])
        PROVE  IInv' /\ FencesFall
    <2>1. [act[t] EXCEPT !.ans = "ok", !.b = b] \in Activity
      BY <1>1 DEF Activity, Answers
    <2>2. Moves(t) /\ act'[t] = [act[t] EXCEPT !.ans = "ok", !.b = b]
      BY <1>1, <1>4, <2>1, BecomesShape
    <2>3. /\ act'[t].ans = "ok" /\ act'[t].b = b
          /\ act'[t].at = act[t].at /\ act'[t].job = act[t].job
          /\ act'[t].key = act[t].key /\ act'[t].mine = act[t].mine
      BY <1>1, <2>2 DEF Activity
    <2>4. ActivityFits(t)'
      BY <1>1, <1>2, <1>4, <2>3, ConstantsAssumption
      DEF ActivityFits, PlaceFits, CreatePending, RecoversRecord, AbsenceIsFinal,
          OperationNumbered, CleansOwn, DeleteAsked, provider, journals, history
    <2> QED
      BY <1>1, <1>2, <2>2, <2>3, <2>4, QuietStep DEF provider
  <1>5. CachedIdWorks => cache \in Boxes /\ box[cache] # "none"
    BY DEF CachedIdWorks, Exists
  <1> QED
    BY <1>3, <1>4, <1>5 DEF ServeFind

-----------------------------------------------------------------------------
(* What the provider does to Boxes. *)

\* A create that is answered with the Box its key made before, with a new Box,
\* or with a refusal.
LEMMA ServeCreateKeeps ==
    ASSUME IInv, NEW t \in Activities, ServeCreate(t)
    PROVE  IInv' /\ FencesFall
  <1> DEFINE k == act[t].key
  <1>1. /\ act \in [Activities -> Activity] /\ act[t] \in Activity /\ ActivityFits(t)
        /\ BoxesFit /\ CreateFits /\ label \in [Boxes -> Labels]
    BY DEF IInv, BoxesFit
  <1>2. /\ act[t].at = "create"
        /\ UNCHANGED <<label, oper, old, journals, cache, history>>
    BY DEF ServeCreate, Waiting
  <1>3. /\ k \in Keys /\ k \notin old /\ create.key = k /\ create.box = NoBox /\ create.key # NoKey
        /\ act[t].mine => made[k] \notin handed
    BY <1>1, <1>2 DEF ActivityFits, CreatePending, CleansOwn, Activity
  <1>4. t = "call"
    BY <1>2 DEF IInv, ListOnlyReads, Activities
  <1>5. CASE Answer(t, "refused") /\ made[k] = NoBox /\ UNCHANGED <<box, made, count>>
    <2>1. "refused" \in Answers
      BY DEF Answers
    <2> QED
      BY <1>1, <1>2, <1>5, <2>1, AnswerKeeps
  \* The Box of an answer is the one its key made.
  <1>6. ASSUME NEW b \in Boxes, made'[k] = b, box'[b] # "none",
               Becomes(t, [act[t] EXCEPT !.ans = "ok", !.b = b]),
               act[t].mine => b \notin handed, Progress
        PROVE  Moves(t) /\ act'[t].at = "create" /\ ActivityFits(t)'
    <2>1. [act[t] EXCEPT !.ans = "ok", !.b = b] \in Activity
      BY <1>1 DEF Activity, Answers
    <2>2. Moves(t) /\ act'[t] = [act[t] EXCEPT !.ans = "ok", !.b = b]
      BY <1>1, <1>6, <2>1, BecomesShape
    <2>3. /\ act'[t].ans = "ok" /\ act'[t].b = b
          /\ act'[t].at = act[t].at /\ act'[t].job = act[t].job
          /\ act'[t].key = act[t].key /\ act'[t].mine = act[t].mine
      BY <1>1, <2>2 DEF Activity
    <2>4. ActivityFits(t)'
      BY <1>1, <1>2, <1>3, <1>6, <2>3, ConstantsAssumption
      DEF ActivityFits, PlaceFits, CreatePending, RecoversRecord, AbsenceIsFinal,
          OperationNumbered, CleansOwn, DeleteAsked, journals, history
    <2> QED
      BY <1>2, <2>2, <2>3, <2>4
  <1>7. CASE /\ made[k] # NoBox /\ Becomes(t, [act[t] EXCEPT !.ans = "ok", !.b = made[k]])
             /\ UNCHANGED <<box, made, count>>
    <2>1. made[k] \in Boxes /\ box[made[k]] # "none" /\ Progress
      BY <1>1, <1>2, <1>3, <1>7 DEF BoxesFit, Progress, journals, history
    <2>2. Moves(t) /\ act'[t].at = "create" /\ ActivityFits(t)'
      BY <1>3, <1>6, <1>7, <2>1
    <2>3. BoxesFit' /\ CreateFits' /\ FencesFit' /\ FencesFall /\ CacheFits'
      BY <1>2, <1>7, BoxesKept, CreateKept, FencesKept, CacheKept
      DEF IInv, provider, journals, history
    <2>4. ListOnlyReads'
      BY <1>4, <2>2, ListKept DEF IInv
    <2> QED
      BY <1>4, <2>1, <2>2, <2>3, <2>4, StepFits
  \* A new Box: before it the bot had none that costs money.
  <1>8. ASSUME NEW b \in Boxes, made[k] = NoBox, box[b] = "none",
               box' = [box EXCEPT ![b] = "live"], made' = [made EXCEPT ![k] = b],
               \/ Becomes(t, [act[t] EXCEPT !.ans = "ok", !.b = b]) /\ UNCHANGED count
               \/ Answer(t, "lost") /\ Loses
        PROVE  IInv' /\ FencesFall
    <2>1. b \notin handed /\ box'[b] = "live" /\ made'[k] = b
      BY <1>1, <1>3, <1>8 DEF BoxesFit
    <2>2. Progress
      BY <1>1, <1>2, <1>8 DEF Progress, BoxesFit, journals, history
    <2>3. BoxesFit'
      BY <1>1, <1>2, <1>3, <1>8 DEF BoxesFit, BoxStates, history
    <2>4. CreateFits'
      <3>1. \A c \in Boxes : ~Exists(c)
        BY <1>1, <1>3, <1>8, ConstantsAssumption DEF CreateFits, CreateSound
      <3>2. \A c \in Boxes : c # b => ~Exists(c)'
        BY <1>1, <1>8, <3>1 DEF BoxesFit, Exists
      <3> QED
        BY <1>1, <1>2, <1>3, <1>8, <2>1, <3>2 DEF CreateFits, CreateSound, BoxesFit, journals
    <2>5. FencesFit' /\ FencesFall
      BY <1>1, <1>2, <1>8 DEF IInv, BoxesFit, FencesFit, FenceSound, FencesFall, Fenced, NoFence,
         journals, history
    <2>6. CacheFits'
      BY <1>1, <1>2, <1>8 DEF IInv, BoxesFit, CacheFits
    <2>7. Moves(t) /\ act'[t].at = "create" /\ ActivityFits(t)'
      <3>1. CASE Becomes(t, [act[t] EXCEPT !.ans = "ok", !.b = b])
        BY <1>6, <2>1, <2>2, <3>1
      <3>2. CASE Answer(t, "lost")
        <4>1. "lost" \in Answers
          BY DEF Answers
        <4>2. /\ Moves(t) /\ act'[t].ans = "lost"
              /\ act'[t].at = act[t].at /\ act'[t].job = act[t].job /\ act'[t].b = act[t].b
              /\ act'[t].key = act[t].key /\ act'[t].op = act[t].op /\ act'[t].mine = act[t].mine
          BY <1>1, <3>2, <4>1, AnswerShape
        <4>3. act[t].b # NoBox => box'[act[t].b] # "none"
          BY <1>1, <1>8 DEF ActivityFits, PlaceFits, BoxesFit, Activity
        <4> QED
          BY <1>1, <1>2, <1>3, <2>1, <4>2, <4>3
          DEF ActivityFits, PlaceFits, CreatePending, RecoversRecord, AbsenceIsFinal,
              OperationNumbered, CleansOwn, DeleteAsked, journals, history
      <3> QED
        BY <1>8, <3>1, <3>2
    <2>8. ListOnlyReads'
      BY <1>4, <2>7, ListKept DEF IInv
    <2> QED
      BY <1>4, <2>2, <2>3, <2>4, <2>5, <2>6, <2>7, <2>8, StepFits
  <1> QED
    BY <1>3, <1>5, <1>7, <1>8 DEF ServeCreate

LEMMA ServeDeleteKeeps ==
    ASSUME IInv, NEW t \in Activities, ServeDelete(t)
    PROVE  IInv' /\ FencesFall
  <1> DEFINE b == act[t].b
  <1>1. /\ act \in [Activities -> Activity] /\ act[t] \in Activity /\ ActivityFits(t)
        /\ BoxesFit /\ label \in [Boxes -> Labels]
    BY DEF IInv, BoxesFit
  <1>2. act[t].at = "delete" /\ UNCHANGED <<label, made, old, journals, cache, history>>
    BY DEF ServeDelete, Waiting
  <1>3. b \in Boxes /\ box[b] # "none"
    BY <1>1, <1>2 DEF ActivityFits, PlaceFits, Activity
  <1>4. t = "call"
    BY <1>2 DEF IInv, ListOnlyReads, Activities
  <1>5. CASE /\ (Answer(t, "absent") /\ ~Exists(b)) \/ Answer(t, "refused")
             /\ UNCHANGED <<box, oper>>
    <2>1. "absent" \in Answers /\ "refused" \in Answers
      BY DEF Answers
    <2> QED
      BY <1>1, <1>2, <1>5, <2>1, AnswerKeeps
  <1>6. ASSUME Progress, BoxesFit', oper'[b] # 0,
               box' \in {box, [box EXCEPT ![b] = "deleting"]}, Exists(b),
               \/ Becomes(t, [act[t] EXCEPT !.ans = "pending", !.op = oper'[b]])
               \/ Answer(t, "lost")
        PROVE  IInv' /\ FencesFall
    <2>1. \A c \in Boxes : /\ Exists(c)' => Exists(c)
                           /\ box[c] # "none" => box'[c] # "none"
                           /\ box[c] = "gone" => box'[c] = "gone"
      BY <1>1, <1>3, <1>6 DEF BoxesFit, Exists
    <2>2. CreateFits'
      BY <1>2, <2>1 DEF IInv, CreateFits, CreateSound, journals
    <2>3. FencesFit' /\ FencesFall /\ CacheFits'
      BY <1>2, <2>1 DEF IInv, FencesFit, FenceSound, CacheFits, FencesFall, Fenced, NoFence,
         journals, history
    <2>4. Moves(t) /\ act'[t].at = "delete" /\ ActivityFits(t)'
      <3>1. /\ Moves(t) /\ act'[t].ans \in {"pending", "lost"}
            /\ act'[t].at = act[t].at /\ act'[t].job = act[t].job /\ act'[t].b = act[t].b
            /\ act'[t].key = act[t].key /\ act'[t].mine = act[t].mine
            /\ act'[t].ans = "pending" => act'[t].op # 0
        <4>1. CASE Becomes(t, [act[t] EXCEPT !.ans = "pending", !.op = oper'[b]])
          <5>1. [act[t] EXCEPT !.ans = "pending", !.op = oper'[b]] \in Activity
            BY <1>1, <1>3, <1>6 DEF BoxesFit, Activity, Answers
          <5>2. Moves(t) /\ act'[t] = [act[t] EXCEPT !.ans = "pending", !.op = oper'[b]]
            BY <1>1, <4>1, <5>1, BecomesShape
          <5> QED
            BY <1>1, <1>6, <5>2 DEF Activity
        <4>2. CASE Answer(t, "lost")
          <5>1. "lost" \in Answers
            BY DEF Answers
          <5> QED
            BY <1>1, <4>2, <5>1, AnswerShape
        <4> QED
          BY <1>6, <4>1, <4>2
      <3> QED
        BY <1>1, <1>2, <1>3, <1>6, <2>1, <3>1
        DEF ActivityFits, PlaceFits, CreatePending, RecoversRecord, AbsenceIsFinal,
            OperationNumbered, CleansOwn, DeleteAsked, journals, history
    <2>5. ListOnlyReads'
      BY <1>4, <2>4, ListKept DEF IInv
    <2> QED
      BY <1>4, <1>6, <2>2, <2>3, <2>4, <2>5, StepFits
  <1>7. CASE /\ box[b] \in {"live", "blocked"} /\ oper[b] < MaxOps
             /\ box' = [box EXCEPT ![b] = "deleting"] /\ oper' = [oper EXCEPT ![b] = @ + 1]
             /\ \/ Becomes(t, [act[t] EXCEPT !.ans = "pending", !.op = oper'[b]])
                \/ Answer(t, "lost")
    <2>1. oper[b] \in 0..MaxOps /\ MaxOps \in Nat /\ oper'[b] = oper[b] + 1
      BY <1>1, <1>3, <1>7, ConstantsAssumption DEF BoxesFit
    <2>2. oper'[b] \in 0..MaxOps /\ oper'[b] # 0
      BY <1>7, <2>1
    <2>3. BoxesFit'
      BY <1>1, <1>2, <1>3, <1>7, <2>2 DEF BoxesFit, BoxStates, history
    <2>4. Progress /\ Exists(b)
      BY <1>1, <1>2, <1>3, <1>7 DEF BoxesFit, Progress, Exists, journals, history
    <2> QED
      BY <1>6, <1>7, <2>2, <2>3, <2>4
  <1>8. CASE /\ box[b] = "deleting" /\ UNCHANGED <<box, oper>>
             /\ Becomes(t, [act[t] EXCEPT !.ans = "pending", !.op = oper[b]])
    <2>1. BoxesFit' /\ Progress /\ Exists(b) /\ oper'[b] # 0
      BY <1>1, <1>2, <1>3, <1>8 DEF BoxesFit, Progress, Exists, journals, history
    <2> QED
      BY <1>6, <1>8, <2>1
  <1> QED
    BY <1>5, <1>7, <1>8 DEF ServeDelete

\* Steps of the provider alone: no activity moves.
LEMMA ProviderKeeps ==
    ASSUME IInv, NEW b \in Boxes, Provider(b)
    PROVE  IInv' /\ FencesFall
  <1>1. BoxesFit /\ Exists(b) /\ box' \in {[box EXCEPT ![b] = "gone"], [box EXCEPT ![b] = "blocked"]}
    BY DEF IInv, Provider, Exists
  <1>2. UNCHANGED <<label, made, oper, old, journals, cache, act, history>>
    BY DEF Provider
  <1>3. \A c \in Boxes : /\ Exists(c)' => Exists(c)
                         /\ box[c] # "none" => box'[c] # "none"
                         /\ box[c] = "gone" => box'[c] = "gone"
    BY <1>1 DEF BoxesFit, Exists
  <1>4. BoxesFit'
    BY <1>1, <1>2 DEF BoxesFit, BoxStates, history
  <1>5. CreateFits'
    BY <1>2, <1>3 DEF IInv, CreateFits, CreateSound, journals
  <1>6. FencesFit' /\ FencesFall /\ CacheFits'
    BY <1>2, <1>3 DEF IInv, FencesFit, FenceSound, CacheFits, FencesFall, Fenced, NoFence,
       journals, history
  <1>7. Progress /\ OnlyRetires
    BY <1>2, <1>3 DEF Progress, OnlyRetires, journals, history
  <1>8. ActivityFits("call")' /\ ActivityFits("list")'
    BY <1>2, <1>7, ListUndisturbed, CallUndisturbed DEF history
  <1> QED
    BY <1>2, <1>4, <1>5, <1>6, <1>8 DEF IInv, ListOnlyReads, Activities

LEMMA AgesKeeps ==
    ASSUME IInv, NEW k \in Keys, Ages(k)
    PROVE  IInv' /\ FencesFall
  <1>1. /\ create.key = k /\ old' = old \cup {k} /\ \A t \in DOMAIN act : act[t].key # k
        /\ UNCHANGED <<box, label, made, oper, journals, cache, act, history>>
    BY DEF Ages
  <1>2. BoxesFit'
    BY <1>1 DEF IInv, BoxesFit, history
  <1>3. FencesFit' /\ FencesFall /\ CacheFits'
    BY <1>1, FencesKept, CacheKept DEF IInv, journals, history
  <1>7. CreateFits'
    BY <1>1, ConstantsAssumption DEF IInv, CreateFits, CreateSound, Exists, journals
  <1>4. Progress /\ OnlyRetires
    BY <1>1 DEF Progress, OnlyRetires, journals, history
  <1>5. act["call"].key \in old' => act["call"].key \in old
    BY <1>1 DEF IInv, Activities
  <1>6. ActivityFits("call")' /\ ActivityFits("list")'
    BY <1>1, <1>4, <1>5, ListUndisturbed, CallUndisturbed DEF history
  <1> QED
    BY <1>1, <1>2, <1>3, <1>6, <1>7 DEF IInv, ListOnlyReads, Activities

-----------------------------------------------------------------------------
(* What the operations of the journals leave behind. *)

LEMMA FenceChanged ==
    ASSUME FencesFit, NEW b \in Boxes, del' \in [Boxes -> Fences],
           \A c \in Boxes \ {b} : del'[c] = del[c],
           FenceSound(b, del'[b]), del'[b].phase # "none" \/ box[b] = "gone",
           UNCHANGED <<box, handed>>, asked \subseteq asked'
    PROVE  FencesFit' /\ FencesFall
  BY DEF FencesFit, FenceSound, FencesFall, Fenced, NoFence

LEMMA PreparedFits ==
    ASSUME FencesFit, NEW b \in Boxes, box[b] # "none", NEW name \in Labels,
           b \in handed => b \in asked, del' = Prepared(b, name), UNCHANGED <<box, history>>
    PROVE  FencesFit' /\ FencesFall
  <1>1. [phase |-> "prepared", op |-> 0, label |-> name] \in Fences
    BY ConstantsAssumption DEF Fences, Phases
  <1>2. CASE del[b].phase \in {"none", "blocked"}
    BY <1>1, <1>2, FenceChanged DEF FencesFit, FenceSound, Prepared, history
  <1>3. CASE del[b].phase \notin {"none", "blocked"}
    BY <1>3, FencesKept DEF Prepared, history
  <1> QED
    BY <1>2, <1>3

LEMMA AcceptedFits ==
    ASSUME FencesFit, NEW b \in Boxes, NEW n \in 1..MaxOps, CanAccept(b, n),
           NEW phase \in {"accepted", "completed"}, phase = "completed" => box[b] = "gone",
           del' = Accepted(b, n, phase), UNCHANGED <<box, history>>
    PROVE  FencesFit' /\ FencesFall
  <1>1. CASE del[b].phase = "completed"
    BY <1>1, FencesKept DEF Accepted, history
  <1>2. CASE del[b].phase # "completed"
    <2>1. del[b] \in Fences /\ FenceSound(b, del[b]) /\ del[b].phase # "none" /\ n \in 0..MaxOps /\ n # 0
      BY DEF FencesFit, CanAccept
    <2>2. del' \in [Boxes -> Fences] /\ \A c \in Boxes \ {b} : del'[c] = del[c]
      BY <1>2, <2>1 DEF FencesFit, Accepted, Fences, Phases
    <2>3. del'[b].phase = phase /\ del'[b].op = n
      BY <1>2, <2>1 DEF FencesFit, Accepted, Fences
    <2>4. FenceSound(b, del'[b])
      BY <2>1, <2>2, <2>3 DEF FenceSound
    <2> QED
      BY <2>2, <2>3, <2>4, FenceChanged DEF history
  <1> QED
    BY <1>1, <1>2

LEMMA BlockedFits ==
    ASSUME FencesFit, NEW b \in Boxes, NEW n \in 0..MaxOps, CanBlock(b, n),
           del' = Blocked(b, n), UNCHANGED <<box, history>>
    PROVE  FencesFit' /\ FencesFall
  <1>1. del[b] \in Fences /\ FenceSound(b, del[b]) /\ del[b].phase # "none"
    BY DEF FencesFit, CanBlock, Fenced
  <1>2. del' \in [Boxes -> Fences] /\ \A c \in Boxes \ {b} : del'[c] = del[c]
    BY <1>1 DEF FencesFit, Blocked, Fences, Phases
  <1>3. del'[b].phase = "blocked"
    BY <1>1 DEF FencesFit, Blocked, Fences
  <1>4. FenceSound(b, del'[b])
    BY <1>1, <1>2, <1>3 DEF FenceSound
  <1> QED
    BY <1>2, <1>3, <1>4, FenceChanged DEF history

\* A record is retired, or forgotten, when its Box costs nothing any more.
LEMMA ForgottenFits ==
    ASSUME CreateFits, \A b \in Boxes : ~Exists(b)
    PROVE  CreateSound(NoRequest, used)
  BY ConstantsAssumption DEF CreateFits, CreateSound, NoRequest, Requests

LEMMA RetiredFits ==
    ASSUME BoxesFit, CreateFits, NEW b \in Boxes, box[b] = "gone",
           create' = Retired(b), UNCHANGED <<box, made, old, used>>
    PROVE  CreateFits' /\ OnlyRetires
  <1>1. CASE create.box = b
    <2>1. create.key # NoKey /\ made[create.key] = b /\ b # NoBox
      BY <1>1, ConstantsAssumption DEF CreateFits, CreateSound
    <2>2. \A c \in Boxes : ~Exists(c)
      BY <2>1 DEF CreateFits, CreateSound, Exists
    <2>3. CreateSound(NoRequest, used) /\ create' = NoRequest
      BY <1>1, <2>2, ForgottenFits DEF Retired
    <2> QED
      BY <1>1, <2>1, <2>3 DEF CreateFits, CreateSound, Exists, OnlyRetires
  <1>2. CASE create.box # b
    BY <1>2, CreateKept DEF Retired, OnlyRetires
  <1> QED
    BY <1>1, <1>2

LEMMA FinishFits ==
    ASSUME IInv, NEW b \in Boxes, box[b] = "gone", Finish(b), UNCHANGED <<provider, used, handed>>,
           asked \subseteq asked'
    PROVE  CreateFits' /\ OnlyRetires /\ FencesFit' /\ FencesFall /\ CacheFits'
  <1>1. CreateFits' /\ OnlyRetires
    BY RetiredFits DEF IInv, Finish, provider
  <1>2. NoFence \in Fences /\ FenceSound(b, NoFence)
    BY ConstantsAssumption DEF NoFence, Fences, FenceSound, Phases, Labels
  <1>3. FencesFit' /\ FencesFall
    BY <1>2, FenceChanged DEF IInv, FencesFit, Finish, provider
  <1>4. CacheFits'
    BY DEF IInv, CacheFits, Finish, provider
  <1> QED
    BY <1>1, <1>3, <1>4

-----------------------------------------------------------------------------
(* Handling an answer. *)

LEMMA HandlerFits ==
    ASSUME IInv, NEW t \in Activities, Moves(t), ActivityFits(t)',
           \/ t = "call"
           \/ act'[t].at \in {"idle", "verify", "poll", "check"} /\ act'[t].job \in {"none", "list"},
           UNCHANGED <<provider, handed>>, asked \subseteq asked', asked' \subseteq Boxes,
           used \subseteq used', CreateFits', FencesFit', CacheFits',
           t = "list" => OnlyRetires
    PROVE  IInv'
  <1>1. BoxesFit' /\ Progress
    BY DEF IInv, BoxesFit, Progress, provider
  <1>2. ListOnlyReads'
    BY DEF IInv, ListOnlyReads, Moves, Others, Activities
  <1> QED
    BY <1>1, <1>2, StepFits DEF provider

LEMMA EndKeeps ==
    ASSUME IInv, NEW t \in Activities, Ends(t), UNCHANGED <<provider, handed>>,
           asked \subseteq asked', asked' \subseteq Boxes, UNCHANGED used,
           CreateFits', FencesFit', FencesFall, CacheFits', t = "list" => OnlyRetires
    PROVE  IInv' /\ FencesFall
  <1>1. Moves(t) /\ act'[t] = Idle /\ ActivityFits(t)'
    BY EndsShape DEF IInv
  <1>2. act'[t].at = "idle" /\ act'[t].job = "none"
    BY <1>1 DEF Idle
  <1> QED
    BY <1>1, <1>2, HandlerFits

\* A request that is not a create or a recovery.
LEMMA SendFits ==
    ASSUME act \in [Activities -> Activity], NEW t \in Activities, NEW a \in Activity,
           NEW place \in Places \ {"idle", "create", "recover"}, Sends(t, a, place),
           UNCHANGED provider,
           place # "find" => a.b # NoBox,
           a.b # NoBox => box[a.b] # "none", a.key # NoKey => a.key \in used',
           place = "poll" => a.op # 0,
           place = "find" => ~a.mine, place = "inspect" => a.mine,
           a.mine /\ place \in {"rename", "ready", "inspect"} => a.b \notin handed',
           a.job = "delete" => place \in {"poll", "check", "relist"},
           a.job = "delete" \/ place = "relist" => a.b \in asked'
    PROVE  Moves(t) /\ act'[t].at = place /\ act'[t].job = a.job /\ ActivityFits(t)'
  <1>1. /\ Moves(t) /\ act'[t].at = place /\ act'[t].ans = "none"
        /\ act'[t].job = a.job /\ act'[t].b = a.b /\ act'[t].key = a.key
        /\ act'[t].op = a.op /\ act'[t].mine = a.mine
    BY SendsShape
  <1> QED
    BY <1>1 DEF ActivityFits, PlaceFits, CreatePending, RecoversRecord, AbsenceIsFinal,
       OperationNumbered, CleansOwn, DeleteAsked, provider

LEMMA SendKeeps ==
    ASSUME IInv, NEW t \in Activities, NEW a \in Activity,
           NEW place \in Places \ {"idle", "create", "recover"}, Sends(t, a, place),
           UNCHANGED provider,
           place # "find" => a.b # NoBox,
           a.b # NoBox => box[a.b] # "none", a.key # NoKey => a.key \in used',
           place = "poll" => a.op # 0,
           place = "find" => ~a.mine, place = "inspect" => a.mine,
           a.mine /\ place \in {"rename", "ready", "inspect"} => a.b \notin handed',
           a.job = "delete" => place \in {"poll", "check", "relist"},
           a.job = "delete" \/ place = "relist" => a.b \in asked',
           t = "call" \/ (place \in {"verify", "poll", "check"} /\ a.job \in {"none", "list"}),
           UNCHANGED handed, asked \subseteq asked', asked' \subseteq Boxes,
           used \subseteq used', CreateFits', FencesFit', FencesFall, CacheFits',
           t = "list" => OnlyRetires
    PROVE  IInv' /\ FencesFall
  <1>1. act \in [Activities -> Activity]
    BY DEF IInv
  <1>2. Moves(t) /\ act'[t].at = place /\ act'[t].job = a.job /\ ActivityFits(t)'
    BY <1>1, SendFits
  <1> QED
    BY <1>2, HandlerFits

LEMMA ReconcilesKeeps ==
    ASSUME IInv, NEW t \in Activities, NEW b \in Boxes, box[b] # "none",
           NEW job \in {"delete", "prior", "list"}, Reconciles(t, b, job),
           UNCHANGED <<provider, used, handed>>, asked \subseteq asked', asked' \subseteq Boxes,
           job = "delete" => b \in asked', t = "call" \/ job = "list"
    PROVE  IInv' /\ FencesFall
  <1> DEFINE a == [Idle EXCEPT !.job = job, !.b = b, !.op = del[b].op]
  <1>1. del[b] \in Fences /\ FenceSound(b, del[b])
    BY DEF IInv, FencesFit
  <1>2. CASE del[b].phase = "completed" /\ Finish(b) /\ Ends(t)
    <2>1. box[b] = "gone"
      BY <1>1, <1>2 DEF FenceSound
    <2> QED
      BY <1>2, <2>1, FinishFits, EndKeeps
  <1>3. ASSUME NEW place \in {"poll", "check"}, place = "poll" => del[b].op # 0,
               Sends(t, a, place), UNCHANGED <<create, del, cache>>
        PROVE  IInv' /\ FencesFall
    <2>1. /\ a \in Activity /\ a.job = job /\ a.b = b /\ a.op = del[b].op
          /\ a.key = NoKey /\ ~a.mine
      BY <1>1, IdleType DEF Fences, Activity, Jobs
    <2>2. place \in Places \ {"idle", "create", "recover"}
      BY DEF Places
    <2>3. CreateFits' /\ FencesFit' /\ FencesFall /\ CacheFits' /\ OnlyRetires
      BY <1>3, CreateKept, FencesKept, CacheKept DEF IInv, OnlyRetires, provider
    <2> QED
      BY <1>3, <2>1, <2>2, <2>3, SendKeeps, ConstantsAssumption
  <1>4. del[b].phase = "accepted" => del[b].op # 0
    BY <1>1 DEF FenceSound
  <1> QED
    BY <1>2, <1>3, <1>4 DEF Reconciles

LEMMA ProvisionKeeps ==
    ASSUME IInv, Provision
    PROVE  IInv' /\ FencesFall
  <1>1. "call" \in Activities /\ asked \subseteq Boxes
    BY DEF IInv, BoxesFit, Activities
  <1>2. UNCHANGED <<provider, used, handed, asked>>
    BY DEF Provision, history
  <1>3. ASSUME NEW b \in Boxes, Fenced(b), Reconciles("call", b, "prior")
        PROVE  IInv' /\ FencesFall
    <2>1. box[b] # "none"
      BY <1>3 DEF IInv, FencesFit, FenceSound, Fenced
    <2> QED
      BY <1>1, <1>2, <1>3, <2>1, ReconcilesKeeps
  <1>4. CASE /\ Sends("call", [Idle EXCEPT !.job = "provision"], "find")
             /\ UNCHANGED <<create, del, cache>>
    <2> DEFINE a == [Idle EXCEPT !.job = "provision"]
    <2>1. a \in Activity /\ a.job = "provision" /\ a.b = NoBox /\ a.key = NoKey /\ ~a.mine
      BY IdleType DEF Activity, Jobs
    <2>2. "find" \in Places \ {"idle", "create", "recover"}
      BY DEF Places
    <2>3. CreateFits' /\ FencesFit' /\ FencesFall /\ CacheFits' /\ OnlyRetires
      BY <1>2, <1>4, CreateKept, FencesKept, CacheKept DEF IInv, OnlyRetires, provider
    <2> QED
      BY <1>1, <1>2, <1>4, <2>1, <2>2, <2>3, SendKeeps
  <1> QED
    BY <1>3, <1>4 DEF Provision

LEMMA DeleteKeeps ==
    ASSUME IInv, NEW b \in Boxes, Delete(b)
    PROVE  IInv' /\ FencesFall
  <1>1. /\ "call" \in Activities /\ box[b] # "none"
        /\ asked \subseteq asked' /\ asked' \subseteq Boxes /\ b \in asked'
    BY DEF IInv, BoxesFit, Activities, Delete
  <1>2. UNCHANGED <<provider, used, handed>>
    BY DEF Delete
  <1>3. CASE Reconciles("call", b, "delete")
    BY <1>1, <1>2, <1>3, ReconcilesKeeps
  <1>4. CASE /\ Sends("call", [Idle EXCEPT !.job = "delete", !.b = b], "relist")
             /\ UNCHANGED <<create, del, cache>>
    <2> DEFINE a == [Idle EXCEPT !.job = "delete", !.b = b]
    <2>1. a \in Activity /\ a.job = "delete" /\ a.b = b /\ a.key = NoKey /\ ~a.mine
      BY IdleType DEF Activity, Jobs
    <2>2. "relist" \in Places \ {"idle", "create", "recover"}
      BY DEF Places
    <2>3. CreateFits' /\ FencesFit' /\ FencesFall /\ CacheFits' /\ OnlyRetires
      BY <1>1, <1>2, <1>4, CreateKept, FencesKept, CacheKept DEF IInv, OnlyRetires, provider
    <2> QED
      BY <1>1, <1>2, <1>4, <2>1, <2>2, <2>3, SendKeeps, ConstantsAssumption
  <1> QED
    BY <1>3, <1>4 DEF Delete

LEMMA ListKeeps ==
    ASSUME IInv, NEW b \in Boxes, List(b)
    PROVE  IInv' /\ FencesFall
  <1>1. "list" \in Activities /\ asked \subseteq Boxes
    BY DEF IInv, BoxesFit, Activities
  <1>2. UNCHANGED <<provider, used, handed, asked>>
    BY DEF List, history
  <1>3. CASE Fenced(b) /\ Reconciles("list", b, "list")
    <2>1. box[b] # "none"
      BY <1>3 DEF IInv, FencesFit, FenceSound, Fenced
    <2> QED
      BY <1>1, <1>2, <1>3, <2>1, ReconcilesKeeps
  <1>4. CASE /\ create.box = b /\ Sends("list", [Idle EXCEPT !.job = "list", !.b = b], "verify")
             /\ UNCHANGED <<create, del, cache>>
    <2> DEFINE a == [Idle EXCEPT !.job = "list", !.b = b]
    <2>1. a \in Activity /\ a.job = "list" /\ a.b = b /\ a.key = NoKey /\ ~a.mine
      BY IdleType DEF Activity, Jobs
    <2>2. "verify" \in Places \ {"idle", "create", "recover"}
      BY DEF Places
    <2>3. CreateFits' /\ FencesFit' /\ FencesFall /\ CacheFits' /\ OnlyRetires
      BY <1>2, <1>4, CreateKept, FencesKept, CacheKept DEF IInv, OnlyRetires, provider
    <2>4. box[b] # "none"
      BY <1>4, ConstantsAssumption DEF IInv, BoxesFit, CreateFits, CreateSound, Requests
    <2> QED
      BY <1>1, <1>2, <1>4, <2>1, <2>2, <2>3, <2>4, SendKeeps, ConstantsAssumption
  <1> QED
    BY <1>3, <1>4 DEF List

LEMMA HandleVerifyKeeps ==
    ASSUME IInv, NEW t \in Activities, HandleVerify(t)
    PROVE  IInv' /\ FencesFall
  <1>1. /\ act[t].at = "verify" /\ Ends(t)
        /\ UNCHANGED <<provider, del, used, cache, handed, asked>>
    BY DEF HandleVerify, Answered, history
  <1>2. act[t].b \in Boxes /\ (act[t].ans = "absent" => box[act[t].b] = "gone")
    BY <1>1 DEF IInv, ActivityFits, PlaceFits, AbsenceIsFinal, Activity
  <1>3. CreateFits' /\ OnlyRetires
    BY <1>1, <1>2, RetiredFits, CreateKept DEF IInv, HandleVerify, OnlyRetires, provider
  <1>4. FencesFit' /\ FencesFall /\ CacheFits' /\ asked \subseteq Boxes
    BY <1>1, FencesKept, CacheKept DEF IInv, BoxesFit, provider
  <1> QED
    BY <1>1, <1>3, <1>4, EndKeeps

LEMMA HandlePollKeeps ==
    ASSUME IInv, NEW t \in Activities, HandlePoll(t)
    PROVE  IInv' /\ FencesFall
  <1> DEFINE a == act[t]
             b == act[t].b
  <1>1. act[t].at = "poll" /\ UNCHANGED <<provider, used, handed, asked, history>>
    BY DEF HandlePoll, Answered, history
  <1>2. /\ a \in Activity /\ b \in Boxes /\ b # NoBox /\ box[b] # "none" /\ asked \subseteq Boxes
        /\ a.op \in 1..MaxOps /\ a.op \in 0..MaxOps /\ a.op # 0
        /\ a.key # NoKey => a.key \in used
        /\ a.ans = "completed" => box[b] = "gone"
        /\ a.job = "delete" => b \in asked
        /\ t = "list" => a.job = "list" \/ a.job = "none"
    BY <1>1, ConstantsAssumption DEF IInv, BoxesFit, ActivityFits, PlaceFits, AbsenceIsFinal,
       OperationNumbered, DeleteAsked, ListOnlyReads, Activity
  <1>3. CreateFits /\ FencesFit /\ CacheFits
    BY DEF IInv
  <1>4. UNCHANGED <<create, cache>> => CreateFits' /\ CacheFits' /\ OnlyRetires
    BY <1>1, <1>3, CreateKept, CacheKept DEF OnlyRetires, provider
  <1>5. UNCHANGED del => FencesFit' /\ FencesFall
    BY <1>1, <1>3, FencesKept DEF provider
  <1>6. /\ CanAccept(b, a.op) /\ del' = Accepted(b, a.op, "accepted") => FencesFit' /\ FencesFall
        /\ CanBlock(b, a.op) /\ del' = Blocked(b, a.op) => FencesFit' /\ FencesFall
    BY <1>1, <1>2, <1>3, AcceptedFits, BlockedFits DEF provider
  <1>7. ASSUME NEW place \in {"poll", "check"}, Sends(t, a, place), FencesFit', FencesFall,
               UNCHANGED <<create, cache>>
        PROVE  IInv' /\ FencesFall
    <2>1. place \in Places \ {"idle", "create", "recover"}
      BY DEF Places
    <2>2. t = "call" \/ t = "list"
      BY DEF Activities
    <2> QED
      BY <1>1, <1>2, <1>4, <1>7, <2>1, <2>2, SendKeeps
  <1>8. ASSUME Ends(t), FencesFit', FencesFall, UNCHANGED <<create, cache>>
        PROVE  IInv' /\ FencesFall
    BY <1>1, <1>2, <1>4, <1>8, EndKeeps
  <1>9. CASE a.ans = "completed" /\ Finish(b) /\ Ends(t)
    BY <1>1, <1>2, <1>9, FinishFits, EndKeeps
  <1> QED
    BY <1>5, <1>6, <1>7, <1>8, <1>9 DEF HandlePoll, Answered

LEMMA HandleCheckKeeps ==
    ASSUME IInv, NEW t \in Activities, HandleCheck(t)
    PROVE  IInv' /\ FencesFall
  <1> DEFINE a == act[t]
             b == act[t].b
  <1>1. act[t].at = "check" /\ UNCHANGED <<provider, used, handed, asked, history>>
    BY DEF HandleCheck, Answered, history
  <1>2. /\ a \in Activity /\ b \in Boxes /\ b # NoBox /\ box[b] # "none" /\ asked \subseteq Boxes
        /\ a.key # NoKey => a.key \in used
        /\ a.ans = "absent" => box[b] = "gone"
        /\ a.job = "delete" => b \in asked
        /\ a.job \in {"delete", "prior"} => t = "call"
    BY <1>1, ConstantsAssumption DEF IInv, BoxesFit, ActivityFits, PlaceFits, AbsenceIsFinal,
       DeleteAsked, ListOnlyReads, Activity, Activities
  <1>3. CreateFits /\ FencesFit /\ CacheFits
    BY DEF IInv
  <1>4. UNCHANGED <<create, cache>> => CreateFits' /\ CacheFits' /\ OnlyRetires
    BY <1>1, <1>3, CreateKept, CacheKept DEF OnlyRetires, provider
  <1>5. UNCHANGED del => FencesFit' /\ FencesFall
    BY <1>1, <1>3, FencesKept DEF provider
  <1>6. CASE a.ans = "absent" /\ Finish(b) /\ Ends(t)
    BY <1>1, <1>2, <1>6, FinishFits, EndKeeps
  <1>7. CASE Ends(t) /\ UNCHANGED <<create, del, cache>>
    BY <1>1, <1>2, <1>4, <1>5, <1>7, EndKeeps
  <1>8. CASE a.job = "delete" /\ Sends(t, a, "relist") /\ UNCHANGED <<create, del, cache>>
    <2>1. "relist" \in Places \ {"idle", "create", "recover"}
      BY DEF Places
    <2> QED
      BY <1>1, <1>2, <1>4, <1>5, <1>8, <2>1, SendKeeps
  <1>9. CASE /\ a.job = "prior" /\ del[b].phase \in {"prepared", "blocked"}
             /\ del' = Prepared(b, del[b].label)
             /\ Sends(t, [Idle EXCEPT !.job = "ending", !.b = b], "delete")
             /\ UNCHANGED <<create, cache>>
    <2> DEFINE e == [Idle EXCEPT !.job = "ending", !.b = b]
    <2>1. e \in Activity /\ e.job = "ending" /\ e.b = b /\ e.key = NoKey /\ ~e.mine
      BY <1>2, IdleType DEF Activity, Jobs
    <2>2. "delete" \in Places \ {"idle", "create", "recover"}
      BY DEF Places
    <2>3. del[b].label \in Labels /\ (b \in handed => b \in asked)
      BY <1>2, <1>3, <1>9 DEF FencesFit, FenceSound, Fences
    <2>4. FencesFit' /\ FencesFall
      BY <1>1, <1>2, <1>3, <1>9, <2>3, PreparedFits DEF provider
    <2> QED
      BY <1>1, <1>2, <1>4, <1>9, <2>1, <2>2, <2>4, SendKeeps
  <1> QED
    BY <1>6, <1>7, <1>8, <1>9 DEF HandleCheck, Answered

LEMMA HandleDeleteKeeps ==
    ASSUME IInv, NEW t \in Activities, HandleDelete(t)
    PROVE  IInv' /\ FencesFall
  <1> DEFINE a == act[t]
             b == act[t].b
  <1>1. act[t].at = "delete" /\ UNCHANGED <<provider, used, handed, asked, history>>
    BY DEF HandleDelete, Answered, history
  <1>2. /\ a \in Activity /\ b \in Boxes /\ b # NoBox /\ box[b] # "none" /\ asked \subseteq Boxes
        /\ a.key # NoKey => a.key \in used
        /\ a.ans = "absent" => box[b] = "gone"
        /\ a.ans = "pending" => a.op \in 1..MaxOps /\ a.op # 0
        /\ a.job # "delete" /\ t = "call"
    BY <1>1, ConstantsAssumption DEF IInv, BoxesFit, ActivityFits, PlaceFits, AbsenceIsFinal,
       OperationNumbered, DeleteAsked, ListOnlyReads, Activity, Activities
  <1>3. CreateFits /\ FencesFit /\ CacheFits
    BY DEF IInv
  <1>4. UNCHANGED <<create, cache>> => CreateFits' /\ CacheFits' /\ OnlyRetires
    BY <1>1, <1>3, CreateKept, CacheKept DEF OnlyRetires, provider
  <1>5. UNCHANGED del => FencesFit' /\ FencesFall
    BY <1>1, <1>3, FencesKept DEF provider
  <1>6. CASE a.ans = "absent" /\ Finish(b) /\ Ends(t)
    BY <1>1, <1>2, <1>6, FinishFits, EndKeeps
  <1>7. CASE /\ del' = IF CanBlock(b, 0) THEN Blocked(b, 0) ELSE del
             /\ Ends(t) /\ UNCHANGED <<create, cache>>
    <2>1. 0 \in 0..MaxOps
      BY ConstantsAssumption
    <2>2. FencesFit' /\ FencesFall
      BY <1>1, <1>2, <1>3, <1>5, <1>7, <2>1, BlockedFits DEF provider
    <2> QED
      BY <1>1, <1>2, <1>4, <1>7, <2>2, EndKeeps
  <1>8. CASE Ends(t) /\ UNCHANGED <<create, del, cache>>
    BY <1>1, <1>2, <1>4, <1>5, <1>8, EndKeeps
  <1>9. CASE /\ a.ans = "pending" /\ CanAccept(b, a.op)
             /\ del' = Accepted(b, a.op, "accepted") /\ Sends(t, a, "poll")
             /\ UNCHANGED <<create, cache>>
    <2>1. "poll" \in Places \ {"idle", "create", "recover"}
      BY DEF Places
    <2>2. FencesFit' /\ FencesFall
      BY <1>1, <1>2, <1>3, <1>9, AcceptedFits DEF provider
    <2> QED
      BY <1>1, <1>2, <1>4, <1>9, <2>1, <2>2, SendKeeps
  <1> QED
    BY <1>6, <1>7, <1>8, <1>9 DEF HandleDelete, Answered

\* The intent is on disk when the request is sent.
LEMMA RequestKeeps ==
    ASSUME IInv, NEW b \in Boxes, NEW name \in Labels, RequestsDeletion("call", b, name),
           box[b] # "none", b \in handed => b \in asked,
           UNCHANGED <<provider, create, used, cache, history>>
    PROVE  IInv' /\ FencesFall
  <1>1. "call" \in Activities /\ b # NoBox /\ UNCHANGED <<handed, asked>> /\ asked \subseteq Boxes
    BY ConstantsAssumption DEF IInv, BoxesFit, Activities, history
  <1>2. CreateFits' /\ CacheFits' /\ FencesFit
    BY CreateKept, CacheKept DEF IInv, provider
  <1>3. CASE Ends("call") /\ UNCHANGED del
    <2>1. FencesFit' /\ FencesFall
      BY <1>1, <1>2, <1>3, FencesKept DEF provider
    <2> QED
      BY <1>1, <1>2, <1>3, <2>1, EndKeeps
  <1>4. CASE /\ del' = Prepared(b, name)
             /\ Sends("call", [Idle EXCEPT !.job = "ending", !.b = b], "delete")
    <2> DEFINE e == [Idle EXCEPT !.job = "ending", !.b = b]
    <2>1. e \in Activity /\ e.job = "ending" /\ e.b = b /\ e.key = NoKey /\ ~e.mine
      BY IdleType DEF Activity, Jobs
    <2>2. "delete" \in Places \ {"idle", "create", "recover"}
      BY DEF Places
    <2>3. FencesFit' /\ FencesFall
      BY <1>2, <1>4, PreparedFits DEF provider
    <2> QED
      BY <1>1, <1>2, <1>4, <2>1, <2>2, <2>3, SendKeeps
  <1> QED
    BY <1>3, <1>4 DEF RequestsDeletion

LEMMA HandleRelistKeeps ==
    ASSUME IInv, NEW t \in Activities, HandleRelist(t)
    PROVE  IInv' /\ FencesFall
  <1>1. act[t].at = "relist" /\ UNCHANGED <<provider, create, used, cache, history>>
    BY DEF HandleRelist, Answered
  <1>2. /\ act[t].b \in Boxes /\ act[t].b \in asked /\ box[act[t].b] # "none"
        /\ t = "call" /\ "nation" \in Labels
    BY <1>1 DEF IInv, ActivityFits, PlaceFits, DeleteAsked, ListOnlyReads, Activity, Activities, Labels
  <1>3. CASE RequestsDeletion(t, act[t].b, "nation")
    BY <1>1, <1>2, <1>3, RequestKeeps
  <1>4. CASE Ends(t) /\ UNCHANGED del
    <2>1. CreateFits' /\ CacheFits' /\ FencesFit' /\ FencesFall /\ asked \subseteq Boxes
      BY <1>1, <1>4, CreateKept, CacheKept, FencesKept DEF IInv, BoxesFit, provider, history
    <2> QED
      BY <1>1, <1>2, <1>4, <2>1, EndKeeps DEF history
  <1> QED
    BY <1>3, <1>4 DEF HandleRelist

LEMMA HandleInspectKeeps ==
    ASSUME IInv, NEW t \in Activities, HandleInspect(t)
    PROVE  IInv' /\ FencesFall
  <1>1. act[t].at = "inspect" /\ UNCHANGED <<provider, used, history>>
    BY DEF HandleInspect, Answered
  <1>2. /\ act[t].b \in Boxes /\ act[t].b \notin handed /\ box[act[t].b] # "none"
        /\ act[t].ans = "absent" => box[act[t].b] = "gone"
        /\ t = "call" /\ "nation" \in Labels /\ label[act[t].b] \in Labels
    BY <1>1 DEF IInv, BoxesFit, ActivityFits, PlaceFits, AbsenceIsFinal, CleansOwn, ListOnlyReads,
       Activity, Activities, Labels
  <1>3. CASE /\ act[t].ans = "absent" /\ create' = Retired(act[t].b) /\ cache' = NoBox
             /\ Ends(t) /\ UNCHANGED del
    <2>1. CreateFits'
      BY <1>1, <1>2, <1>3, RetiredFits DEF IInv, provider
    <2>2. CacheFits' /\ FencesFit' /\ FencesFall /\ asked \subseteq Boxes
      BY <1>1, <1>3, FencesKept DEF IInv, BoxesFit, CacheFits, provider, history
    <2> QED
      BY <1>1, <1>2, <1>3, <2>1, <2>2, EndKeeps DEF history
  <1>4. CASE /\ RequestsDeletion(t, act[t].b, IF act[t].ans = "ok" THEN label[act[t].b] ELSE "nation")
             /\ UNCHANGED <<create, cache>>
    BY <1>1, <1>2, <1>4, RequestKeeps
  <1> QED
    BY <1>3, <1>4 DEF HandleInspect, Answered

\* beginBoxCreate, on a record that fits.
LEMMA BeginsKeeps ==
    ASSUME IInv, NEW r, CreateSound(r, used), act["call"].at \in {"find", "recover"},
           Begins("call", r), UNCHANGED <<provider, del, history>>, CacheFits'
    PROVE  IInv' /\ FencesFall
  <1> DEFINE a == act["call"]
  <1>1. /\ "call" \in Activities /\ act \in [Activities -> Activity] /\ a \in Activity
        /\ ~a.mine /\ a.job # "delete" /\ (a.b # NoBox => box[a.b] # "none")
        /\ BoxesFit /\ asked \subseteq Boxes /\ UNCHANGED <<handed, asked>>
    BY DEF IInv, BoxesFit, Activities, ActivityFits, PlaceFits, CleansOwn, DeleteAsked, history
  <1>2. FencesFit' /\ FencesFall
    BY <1>1, FencesKept DEF IInv, provider
  <1>3. r \in Requests /\ (r.key # NoKey => r.key \in used)
    BY DEF CreateSound
  <1>4. CASE /\ r.box # NoBox /\ Sends("call", [a EXCEPT !.b = r.box, !.key = r.key], "recover")
             /\ create' = r /\ UNCHANGED used
    <2> DEFINE e == [a EXCEPT !.b = r.box, !.key = r.key]
    <2>1. /\ e \in Activity /\ e.b = r.box /\ e.key = r.key /\ e.mine = a.mine /\ e.job = a.job
      BY <1>1, <1>3 DEF Activity, Requests
    <2>2. "recover" \in Places
      BY DEF Places
    <2>3. /\ Moves("call") /\ act'["call"].at = "recover" /\ act'["call"].ans = "none"
          /\ act'["call"].job = a.job /\ act'["call"].b = r.box /\ act'["call"].key = r.key
          /\ act'["call"].mine = a.mine
      BY <1>1, <1>4, <2>1, <2>2, SendsShape
    <2>4. r.key # NoKey /\ r.box \in Boxes /\ box[r.box] # "none"
      BY <1>1, <1>3, <1>4 DEF CreateSound, BoxesFit, Requests
    <2>5. ActivityFits("call")'
      BY <1>1, <1>3, <1>4, <2>3, <2>4, ConstantsAssumption
      DEF ActivityFits, PlaceFits, CreatePending, RecoversRecord, AbsenceIsFinal,
          OperationNumbered, CleansOwn, DeleteAsked, provider
    <2>6. CreateFits'
      BY <1>4 DEF CreateFits, CreateSound, Exists, provider
    <2> QED
      BY <1>1, <1>2, <1>4, <2>3, <2>5, <2>6, HandlerFits
  <1>5. CASE /\ r.box = NoBox /\ r.key # NoKey /\ r.key \notin old
             /\ Sends("call", [a EXCEPT !.key = r.key], "create")
             /\ create' = r /\ UNCHANGED used
    <2> DEFINE e == [a EXCEPT !.key = r.key]
    <2>1. /\ e \in Activity /\ e.b = a.b /\ e.key = r.key /\ e.mine = a.mine /\ e.job = a.job
      BY <1>1, <1>3 DEF Activity, Requests
    <2>2. "create" \in Places
      BY DEF Places
    <2>3. /\ Moves("call") /\ act'["call"].at = "create" /\ act'["call"].ans = "none"
          /\ act'["call"].job = a.job /\ act'["call"].b = a.b /\ act'["call"].key = r.key
          /\ act'["call"].mine = a.mine
      BY <1>1, <1>5, <2>1, <2>2, SendsShape
    <2>4. ActivityFits("call")'
      BY <1>1, <1>3, <1>5, <2>3
      DEF ActivityFits, PlaceFits, CreatePending, RecoversRecord, AbsenceIsFinal,
          OperationNumbered, CleansOwn, DeleteAsked, provider
    <2>5. CreateFits'
      BY <1>5 DEF CreateFits, CreateSound, Exists, provider
    <2> QED
      BY <1>1, <1>2, <1>5, <2>3, <2>4, <2>5, HandlerFits
  <1>6. CASE create' = r /\ UNCHANGED used /\ Ends("call")
    <2>1. CreateFits'
      BY <1>6 DEF CreateFits, CreateSound, Exists, provider
    <2> QED
      BY <1>1, <1>2, <1>6, <2>1, EndKeeps
  <1>7. ASSUME NEW k \in Keys \ used, r = NoRequest,
               create' = Requested(k), used' = used \cup {k},
               Sends("call", [a EXCEPT !.key = k, !.mine = TRUE], "create")
        PROVE  IInv' /\ FencesFall
    <2> DEFINE e == [a EXCEPT !.key = k, !.mine = TRUE]
    <2>1. e \in Activity /\ e.b = a.b /\ e.key = k /\ e.mine = TRUE /\ e.job = a.job
      BY <1>1 DEF Activity
    <2>2. "create" \in Places
      BY DEF Places
    <2>3. /\ Moves("call") /\ act'["call"].at = "create" /\ act'["call"].ans = "none"
          /\ act'["call"].job = a.job /\ act'["call"].b = a.b /\ act'["call"].key = k
      BY <1>1, <1>7, <2>1, <2>2, SendsShape
    <2>4. create'.key = k /\ create'.box = NoBox /\ create' \in Requests /\ create'.resolved = FALSE
      BY <1>7 DEF Requested, NoRequest, Requests
    <2>5. k # NoKey /\ made[k] = NoBox /\ NoBox \notin handed
      BY <1>1, ConstantsAssumption DEF BoxesFit, CreateSound
    <2>6. k \notin old
      BY <1>7 DEF CreateSound
    <2>7. ActivityFits("call")'
      BY <1>1, <1>7, <2>3, <2>4, <2>5, <2>6
      DEF ActivityFits, PlaceFits, CreatePending, RecoversRecord, AbsenceIsFinal,
          OperationNumbered, CleansOwn, DeleteAsked, provider
    <2>8. CreateFits'
      <3>1. \A b \in Boxes : ~Exists(b)
        BY <1>7 DEF CreateSound, NoRequest
      <3> QED
        BY <1>7, <2>4, <3>1 DEF CreateFits, CreateSound, Exists, provider
    <2> QED
      BY <1>1, <1>2, <1>7, <2>3, <2>7, <2>8, HandlerFits
  <1> QED
    BY <1>4, <1>5, <1>6, <1>7 DEF Begins

LEMMA HandleFindKeeps ==
    ASSUME IInv, NEW t \in Activities, HandleFind(t)
    PROVE  IInv' /\ FencesFall
  <1> DEFINE a == act[t]
  <1>1. a.at = "find" /\ UNCHANGED <<provider, del, history>>
    BY DEF HandleFind, Answered
  <1>2. /\ t = "call" /\ a \in Activity /\ ~a.mine /\ a.job # "delete" /\ asked \subseteq Boxes
        /\ a.key # NoKey => a.key \in used
        /\ a.ans = "ok" => a.b \in Boxes /\ a.b # NoBox /\ box[a.b] # "none"
    BY <1>1 DEF IInv, BoxesFit, ActivityFits, PlaceFits, CleansOwn, DeleteAsked, ListOnlyReads,
       Activity, Activities
  <1>3. FencesFit' /\ FencesFall
    BY <1>1, FencesKept DEF IInv, provider, history
  <1>4. UNCHANGED <<create, used>> => CreateFits'
    BY <1>1, CreateKept DEF IInv, provider
  <1>5. cache' = NoBox => CacheFits'
    BY DEF CacheFits
  <1>6. CASE a.ans = "ok" /\ cache' = a.b /\ Sends(t, a, "ready") /\ UNCHANGED <<create, used>>
    <2>1. "ready" \in Places \ {"idle", "create", "recover"}
      BY DEF Places
    <2>2. CacheFits'
      BY <1>1, <1>2, <1>6 DEF CacheFits, provider
    <2> QED
      BY <1>1, <1>2, <1>3, <1>4, <1>6, <2>1, <2>2, SendKeeps DEF history
  <1>7. CASE cache' = NoBox /\ Ends(t) /\ UNCHANGED <<create, used>>
    BY <1>1, <1>2, <1>3, <1>4, <1>5, <1>7, EndKeeps DEF history
  <1>8. CASE cache' = NoBox /\ Begins(t, create)
    <2>1. CreateSound(create, used)
      BY DEF IInv, CreateFits
    <2> QED
      BY <1>1, <1>2, <1>5, <1>8, <2>1, BeginsKeeps
  <1> QED
    BY <1>6, <1>7, <1>8 DEF HandleFind, Answered

LEMMA HandleRecoverKeeps ==
    ASSUME IInv, NEW t \in Activities, HandleRecover(t)
    PROVE  IInv' /\ FencesFall
  <1> DEFINE a == act[t]
  <1>1. a.at = "recover" /\ UNCHANGED <<provider, del, cache, history>>
    BY DEF HandleRecover, Answered
  <1>2. /\ t = "call" /\ a \in Activity /\ ~a.mine /\ a.job # "delete" /\ asked \subseteq Boxes
        /\ a.key # NoKey /\ a.key \in used
        /\ a.b \in Boxes /\ a.b # NoBox /\ box[a.b] # "none"
        /\ a.ans = "absent" => box[a.b] = "gone"
        /\ create.key = a.key => create.box = a.b
    BY <1>1 DEF IInv, BoxesFit, ActivityFits, PlaceFits, RecoversRecord, AbsenceIsFinal, CleansOwn,
       DeleteAsked, ListOnlyReads, Activity, Activities
  <1>3. FencesFit' /\ FencesFall /\ CacheFits'
    BY <1>1, FencesKept, CacheKept DEF IInv, provider, history
  <1>4. UNCHANGED <<create, used>> => CreateFits'
    BY <1>1, CreateKept DEF IInv, provider
  <1>5. CASE Sends(t, a, "rename") /\ UNCHANGED <<create, used>>
    <2>1. "rename" \in Places \ {"idle", "create", "recover"}
      BY DEF Places
    <2> QED
      BY <1>1, <1>2, <1>3, <1>4, <1>5, <2>1, SendKeeps DEF history
  <1>6. CASE Ends(t) /\ UNCHANGED <<create, used>>
    BY <1>1, <1>2, <1>3, <1>4, <1>6, EndKeeps DEF history
  <1>7. CASE a.ans = "absent" /\ Begins(t, Without(a.key))
    <2>1. CASE create.key = a.key
      <3>1. create.box = a.b /\ made[create.key] = a.b /\ box[a.b] = "gone"
        BY <1>2, <1>7, <2>1 DEF IInv, CreateFits, CreateSound
      <3>2. \A b \in Boxes : ~Exists(b)
        BY <3>1 DEF IInv, CreateFits, CreateSound, Exists
      <3> QED
        BY <1>1, <1>2, <1>3, <1>7, <2>1, <3>2, ForgottenFits, BeginsKeeps DEF IInv, Without
    <2>2. CASE create.key # a.key
      BY <1>1, <1>2, <1>3, <1>7, <2>2, BeginsKeeps DEF IInv, CreateFits, Without
    <2> QED
      BY <2>1, <2>2
  <1> QED
    BY <1>5, <1>6, <1>7 DEF HandleRecover, Answered

LEMMA HandleCreateKeeps ==
    ASSUME IInv, NEW t \in Activities, HandleCreate(t)
    PROVE  IInv' /\ FencesFall
  <1> DEFINE a == act[t]
  <1>1. a.at = "create" /\ UNCHANGED <<provider, del, used, cache, history>>
    BY DEF HandleCreate, Answered
  <1>2. /\ t = "call" /\ act \in [Activities -> Activity] /\ a \in Activity
        /\ a.job # "delete" /\ asked \subseteq Boxes
        /\ a.key \in Keys /\ a.key # NoKey /\ a.key \in used /\ a.key \notin old
        /\ create.key = a.key /\ create.box = NoBox
        /\ a.b # NoBox => box[a.b] # "none"
        /\ a.ans = "ok" => a.b \in Boxes /\ a.b # NoBox /\ made[a.key] = a.b
        /\ a.ans = "refused" => made[a.key] = NoBox
        /\ a.mine => made[a.key] \notin handed
    BY <1>1 DEF IInv, BoxesFit, ActivityFits, PlaceFits, CreatePending, CleansOwn,
       DeleteAsked, ListOnlyReads, Activity, Activities
  <1>3. FencesFit' /\ FencesFall /\ CacheFits'
    BY <1>1, FencesKept, CacheKept DEF IInv, provider, history
  <1>4. UNCHANGED create => CreateFits'
    BY <1>1, CreateKept DEF IInv, provider
  <1>5. CASE Ends(t) /\ UNCHANGED create
    BY <1>1, <1>2, <1>3, <1>4, <1>5, EndKeeps DEF history
  <1>6. CASE /\ a.ans = "ok" /\ create' = [create EXCEPT !.box = a.b]
             /\ Sends(t, [a EXCEPT !.tries = 0], "rename")
    <2> DEFINE e == [a EXCEPT !.tries = 0]
    <2>1. /\ e \in Activity /\ e.b = a.b /\ e.key = a.key /\ e.job = a.job
          /\ e.mine => e.b \notin handed
      BY <1>2, <1>6 DEF Activity
    <2>2. "rename" \in Places \ {"idle", "create", "recover"}
      BY DEF Places
    <2>3. /\ create' \in Requests /\ create'.key = create.key /\ create'.box = a.b
          /\ create'.resolved = create.resolved
      BY <1>2, <1>6 DEF IInv, CreateFits, CreateSound, Requests
    <2>4. CreateFits'
      BY <1>1, <1>2, <1>6, <2>3 DEF IInv, CreateFits, CreateSound, Exists, provider
    <2>5. /\ UNCHANGED <<provider, handed, used, asked>> /\ t = "call" /\ asked \subseteq Boxes
          /\ e.b # NoBox /\ box[e.b] # "none" /\ e.key \in used /\ e.job # "delete"
      BY <1>1, <1>2, <1>6, <2>1 DEF history
    <2> HIDE DEF e
    <2>6. Sends(t, e, "rename")
      BY <1>6 DEF e
    <2> QED
      BY <1>3, <2>1, <2>2, <2>4, <2>5, <2>6, SendKeeps
  <1>7. CASE a.ans = "lost" /\ Sends(t, [a EXCEPT !.tries = 1], "create") /\ UNCHANGED create
    <2> DEFINE e == [a EXCEPT !.tries = 1]
    <2>1. /\ e \in Activity /\ e.b = a.b /\ e.key = a.key /\ e.mine = a.mine /\ e.job = a.job
      BY <1>2 DEF Activity
    <2>2. "create" \in Places
      BY DEF Places
    <2>3. /\ Moves(t) /\ act'[t].at = "create" /\ act'[t].ans = "none"
          /\ act'[t].job = a.job /\ act'[t].b = a.b /\ act'[t].key = a.key /\ act'[t].mine = a.mine
      BY <1>2, <1>7, <2>1, <2>2, SendsShape
    <2>4. ActivityFits(t)'
      BY <1>1, <1>2, <1>7, <2>3
      DEF ActivityFits, PlaceFits, CreatePending, RecoversRecord, AbsenceIsFinal,
          OperationNumbered, CleansOwn, DeleteAsked, provider, history
    <2> QED
      BY <1>1, <1>2, <1>3, <1>4, <1>7, <2>3, <2>4, HandlerFits DEF history
  <1>8. CASE a.ans = "refused" /\ create' = Without(a.key) /\ Ends(t)
    <2>1. \A b \in Boxes : ~Exists(b)
      BY <1>2, <1>8, ConstantsAssumption DEF IInv, CreateFits, CreateSound
    <2>2. CreateSound(NoRequest, used) /\ create' = NoRequest
      BY <1>2, <1>8, <2>1, ForgottenFits DEF IInv, Without
    <2>3. CreateFits'
      BY <1>1, <2>2 DEF CreateFits, CreateSound, Exists, provider
    <2> QED
      BY <1>1, <1>2, <1>3, <1>8, <2>3, EndKeeps DEF history
  <1> QED
    BY <1>5, <1>6, <1>7, <1>8 DEF HandleCreate, Answered

\* The clean-up of a call that failed.
LEMMA FailsKeeps ==
    ASSUME IInv, Fails("call"), act["call"].at \in {"rename", "ready"},
           UNCHANGED <<provider, journals, cache, history>>
    PROVE  IInv' /\ FencesFall
  <1> DEFINE a == act["call"]
  <1>1. /\ "call" \in Activities /\ a \in Activity /\ a.job # "delete" /\ asked \subseteq Boxes
        /\ a.b # NoBox /\ box[a.b] # "none" /\ (a.mine => a.b \notin handed)
    BY DEF IInv, BoxesFit, Activities, ActivityFits, PlaceFits, CleansOwn, DeleteAsked
  <1>2. CreateFits' /\ FencesFit' /\ FencesFall /\ CacheFits'
    BY CreateKept, FencesKept, CacheKept DEF IInv, provider, journals, history
  <1>3. CASE a.mine /\ Sends("call", [a EXCEPT !.key = NoKey], "inspect")
    <2> DEFINE e == [a EXCEPT !.key = NoKey]
    <2>1. /\ e \in Activity /\ e.b = a.b /\ e.key = NoKey /\ e.mine /\ e.job = a.job
          /\ e.b \notin handed
      BY <1>1, <1>3 DEF Activity
    <2>2. "inspect" \in Places \ {"idle", "create", "recover"}
      BY DEF Places
    <2> QED
      BY <1>1, <1>2, <1>3, <2>1, <2>2, SendKeeps DEF journals, history
  <1>4. CASE Ends("call")
    BY <1>1, <1>2, <1>4, EndKeeps DEF journals, history
  <1> QED
    BY <1>3, <1>4 DEF Fails

LEMMA HandleRenameKeeps ==
    ASSUME IInv, NEW t \in Activities, HandleRename(t)
    PROVE  IInv' /\ FencesFall
  <1> DEFINE a == act[t]
  <1>1. a.at = "rename" /\ UNCHANGED <<provider, del, used, cache, history>>
    BY DEF HandleRename, Answered
  <1>2. /\ t = "call" /\ a \in Activity /\ a.job # "delete" /\ asked \subseteq Boxes
        /\ a.b \in Boxes /\ a.b # NoBox /\ box[a.b] # "none" /\ (a.mine => a.b \notin handed)
    BY <1>1 DEF IInv, BoxesFit, ActivityFits, PlaceFits, CleansOwn, DeleteAsked, ListOnlyReads,
       Activity, Activities
  <1>3. CASE Fails(t) /\ UNCHANGED create
    BY <1>1, <1>2, <1>3, FailsKeeps DEF journals
  <1>4. CASE /\ create.box = a.b /\ create' = [create EXCEPT !.resolved = TRUE]
             /\ Sends(t, [a EXCEPT !.key = NoKey], "ready")
    <2> DEFINE e == [a EXCEPT !.key = NoKey]
    <2>1. /\ e \in Activity /\ e.b = a.b /\ e.key = NoKey /\ e.job = a.job
          /\ e.mine => e.b \notin handed
      BY <1>2 DEF Activity
    <2>2. "ready" \in Places \ {"idle", "create", "recover"}
      BY DEF Places
    <2>3. /\ create' \in Requests /\ create'.key = create.key /\ create'.box = create.box
      BY <1>4 DEF IInv, CreateFits, CreateSound, Requests
    <2>4. CreateFits'
      BY <1>1, <1>2, <1>4, <2>3 DEF IInv, CreateFits, CreateSound, Exists, provider
    <2>5. FencesFit' /\ FencesFall /\ CacheFits'
      BY <1>1, FencesKept, CacheKept DEF IInv, provider, history
    <2> QED
      BY <1>1, <1>2, <1>4, <2>1, <2>2, <2>4, <2>5, SendKeeps DEF history
  <1> QED
    BY <1>3, <1>4 DEF HandleRename

LEMMA HandleReadyKeeps ==
    ASSUME IInv, NEW t \in Activities, HandleReady(t)
    PROVE  IInv' /\ FencesFall
  <1> DEFINE b == act[t].b
  <1>1. /\ act[t].at = "ready" /\ UNCHANGED <<provider, journals, cache, asked>>
    BY DEF HandleReady, Answered
  <1>2. /\ t = "call" /\ b \in Boxes /\ box[b] # "none" /\ act \in [Activities -> Activity]
    BY <1>1 DEF IInv, ActivityFits, PlaceFits, ListOnlyReads, Activity, Activities
  <1>3. CASE Fails(t) /\ UNCHANGED handed
    BY <1>1, <1>2, <1>3, FailsKeeps DEF history
  <1>4. CASE ~Fenced(b) /\ Ends(t) /\ handed' = handed \cup {b}
    <2>1. Moves(t) /\ act'[t] = Idle /\ ActivityFits(t)'
      BY <1>2, <1>4, EndsShape
    <2>2. BoxesFit'
      BY <1>1, <1>2, <1>4 DEF IInv, BoxesFit, provider
    <2>3. CreateFits' /\ CacheFits'
      BY <1>1, CreateKept, CacheKept DEF IInv, provider, journals
    <2>4. FencesFit' /\ FencesFall
      BY <1>1, <1>4 DEF IInv, FencesFit, FenceSound, FencesFall, Fenced, NoFence, provider, journals
    <2>5. Progress /\ ListOnlyReads'
      BY <1>1, <2>1, ListKept DEF IInv, Progress, provider, journals
    <2> QED
      BY <1>2, <2>1, <2>2, <2>3, <2>4, <2>5, StepFits
  <1> QED
    BY <1>3, <1>4 DEF HandleReady

LEMMA CrashKeeps ==
    ASSUME IInv, Crash
    PROVE  IInv' /\ FencesFall
  <1>1. /\ UNCHANGED <<provider, used, handed, asked>> /\ cache' = NoBox
        /\ act' = [t \in Activities |-> Idle]
    BY DEF IInv, Crash, history
  <1>2. \A t \in Activities : ActivityFits(t)'
    BY <1>1, IdleFits
  <1>3. act' \in [Activities -> Activity] /\ ListOnlyReads'
    BY <1>1, IdleType DEF ListOnlyReads, Activities
  <1>4. BoxesFit' /\ CacheFits'
    BY <1>1 DEF IInv, BoxesFit, CacheFits, provider
  <1>5. ASSUME NEW t \in Activities, act[t].at \in {"poll", "check", "delete"}
        PROVE  /\ act[t].b \in Boxes
               /\ act[t].at = "poll" => act[t].op \in 1..MaxOps
               /\ act[t].at = "poll" /\ act[t].ans = "completed" => box[act[t].b] = "gone"
               /\ act[t].at # "poll" /\ act[t].ans = "absent" => box[act[t].b] = "gone"
    BY <1>5, ConstantsAssumption DEF IInv, ActivityFits, PlaceFits, AbsenceIsFinal,
       OperationNumbered, Activity
  <1>6. ASSUME NEW b \in Boxes, box[b] = "gone", create' \in {create, Retired(b)}
        PROVE  CreateFits'
    BY <1>1, <1>6, RetiredFits, CreateKept DEF IInv, provider
  <1>7. CreateFits' /\ FencesFit' /\ FencesFall
    <2>1. CASE UNCHANGED <<create, del>>
      BY <1>1, <2>1, CreateKept, FencesKept DEF IInv, provider
    <2>2. ASSUME NEW t \in Activities, Answered(t, "poll", {"completed"}),
                 CanAccept(act[t].b, act[t].op),
                 del' = Accepted(act[t].b, act[t].op, "completed"),
                 create' \in {create, Retired(act[t].b)}
          PROVE  CreateFits' /\ FencesFit' /\ FencesFall
      <3>1. act[t].b \in Boxes /\ act[t].op \in 1..MaxOps /\ box[act[t].b] = "gone"
        BY <1>5, <2>2 DEF Answered
      <3>2. FencesFit' /\ FencesFall
        BY <1>1, <2>2, <3>1, AcceptedFits DEF IInv, provider, history
      <3> QED
        BY <1>6, <2>2, <3>1, <3>2
    <2>3. ASSUME NEW t \in Activities, NEW place \in {"check", "delete"},
                 Answered(t, place, {"absent"}), create' = Retired(act[t].b), UNCHANGED del
          PROVE  CreateFits' /\ FencesFit' /\ FencesFall
      <3>1. act[t].b \in Boxes /\ box[act[t].b] = "gone"
        BY <1>5, <2>3 DEF Answered
      <3>2. FencesFit' /\ FencesFall
        BY <1>1, <2>3, FencesKept DEF IInv, provider
      <3> QED
        BY <1>6, <2>3, <3>1, <3>2
    <2>4. DOMAIN act = Activities
      BY DEF IInv
    <2> QED
      BY <2>1, <2>2, <2>3, <2>4 DEF Crash
  <1> QED
    BY <1>2, <1>3, <1>4, <1>7 DEF IInv

-----------------------------------------------------------------------------
LEMMA NextKeepsIInv == IInv /\ [Next]_vars => IInv' /\ FencesFall
  <1> SUFFICES ASSUME IInv, [Next]_vars PROVE IInv' /\ FencesFall
    OBVIOUS
  <1>1. CASE UNCHANGED vars
    <2>1. UNCHANGED <<box, label, made, oper, old, create, del, used, cache, act, handed, asked>>
      BY <1>1 DEF vars, provider, journals, history
    <2>2. BoxesFit' /\ CreateFits' /\ FencesFit' /\ FencesFall /\ CacheFits'
      BY <2>1, BoxesKept, CreateKept, FencesKept, CacheKept DEF IInv, provider, history
    <2>3. Progress /\ OnlyRetires
      BY <2>1 DEF Progress, OnlyRetires
    <2>4. ActivityFits("call")' /\ ActivityFits("list")'
      BY <2>1, <2>3, ListUndisturbed, CallUndisturbed
    <2> QED
      BY <2>1, <2>2, <2>4 DEF IInv, ListOnlyReads, Activities
  <1>2. ASSUME NEW t \in Activities, Serve(t) PROVE IInv' /\ FencesFall
    BY <1>2, ServeFindKeeps, ServeCreateKeeps, ServeRenameKeeps, ServeReadyKeeps, ServeReadKeeps,
       ServeRelistKeeps, ServeDeleteKeeps, ServePollKeeps DEF Serve
  <1>3. ASSUME NEW t \in Activities, Handle(t) PROVE IInv' /\ FencesFall
    BY <1>3, HandleFindKeeps, HandleRecoverKeeps, HandleCreateKeeps, HandleRenameKeeps,
       HandleReadyKeeps, HandleInspectKeeps, HandleRelistKeeps, HandleDeleteKeeps,
       HandlePollKeeps, HandleCheckKeeps, HandleVerifyKeeps DEF Handle
  <1>4. CASE Next
    BY <1>2, <1>3, <1>4, ProvisionKeeps, DeleteKeeps, ListKeeps, ProviderKeeps, AgesKeeps,
       LostKeeps, CrashKeeps DEF Next, Activities
  <1> QED
    BY <1>1, <1>4

LEMMA Inductive == Spec => []IInv
  <1>1. IInv /\ [Next]_vars => IInv'
    BY NextKeepsIInv
  <1> QED
    BY <1>1, InitIInv, PTL DEF Spec

-----------------------------------------------------------------------------
(* What follows from it. *)

\* The provider's Boxes, the two journals and the activities keep their shape,
\* and no journal is ever written that could not be loaded again.
THEOREM TypeCorrect == Spec => []TypeOK
  <1>1. IInv => TypeOK
    <2> SUFFICES ASSUME IInv PROVE TypeOK
      OBVIOUS
    <2>1. /\ create \in Requests /\ used \subseteq Keys /\ (create.resolved => create.box # NoBox)
          /\ del \in [Boxes -> Fences] /\ cache \in Boxes \cup {NoBox}
          /\ act \in [Activities -> Activity]
      BY DEF IInv, CreateFits, CreateSound, FencesFit, CacheFits
    <2>2. \A b \in Boxes :
             /\ del[b].phase = "prepared" => del[b].op = 0
             /\ del[b].phase \in {"accepted", "completed"} => del[b].op # 0
      BY DEF IInv, FencesFit, FenceSound
    <2> QED
      BY <2>1, <2>2 DEF IInv, BoxesFit, TypeOK, Requests, Fences, Labels, Activities, Activity, Jobs
  <1> QED
    BY <1>1, Inductive, PTL

\* Whatever is lost, delayed or interrupted, a bot has at most one computer
\* that costs money: all of them are the one that the pending key made.
THEOREM AtMostOneBillable == Spec => []OneBillable
  <1>1. IInv => OneBillable
    BY DEF IInv, CreateFits, CreateSound, OneBillable
  <1> QED
    BY <1>1, Inductive, PTL

\* No computer is lost from sight: the create journal leads to it until it is gone.
THEOREM NothingOrphaned == Spec => []NoOrphan
  <1>1. IInv => NoOrphan
    BY DEF IInv, CreateFits, CreateSound, NoOrphan
  <1> QED
    BY <1>1, Inductive, PTL

\* No clean-up, however late, fences a computer that the person was given.
THEOREM HandedIsKept == Spec => []HandedKeptUnlessAsked
  <1>1. IInv => HandedKeptUnlessAsked
    BY DEF IInv, FencesFit, FenceSound, Fenced, HandedKeptUnlessAsked
  <1> QED
    BY <1>1, Inductive, PTL

\* A fence falls only around a Box that is gone.
THEOREM FencesHold == Spec => FenceUntilGone
  <1>1. IInv /\ [Next]_vars => [FencesFall]_vars
    BY NextKeepsIInv
  <1>2. FencesFall <=> \A b \in Boxes : Fenced(b) /\ del'[b] = NoFence => box[b] = "gone"
    BY DEF FencesFall
  <1> QED
    BY <1>1, <1>2, Inductive, PTL DEF Spec, FenceUntilGone, FencesFall
=============================================================================
