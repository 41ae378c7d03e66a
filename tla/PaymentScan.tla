---------------------------- MODULE PaymentScan ----------------------------
(***************************************************************************)
(* Payment requests and the scanner that finds the transfers that pay them *)
(* (server/nation-payments.ts, the invoices of server/nation-credits.ts):  *)
(* one token of one chain, a scan that is many calls to a chain long and   *)
(* may fail or die at each of them, people who paste a transaction's hash  *)
(* meanwhile, and a chain whose newest blocks may still be replaced.       *)
(*                                                                         *)
(* The exact amount of a request is unique and never reused, so a transfer *)
(* is a transfer for one request.                                          *)
(***************************************************************************)
EXTENDS Naturals, FiniteSets, FiniteSetsExt

CONSTANTS Invoices, Transfers, NoTx,
          Pays,            \* the request whose exact amount a transfer carries
          Pasted,          \* transfers whose hash somebody may paste
          Confirmations,   \* NATION_CONFIRMATIONS
          Chunk,           \* SCAN_CHUNK_BLOCKS
          ChunksPerPass,   \* SCAN_CHUNKS_PER_PASS
          MaxBlock,        \* bound on the height of the chain
          MaxFailures      \* bound on the scans that fail and the crashes

ASSUME ConstantsAssumption ==
    /\ Pays \in [Transfers -> Invoices] /\ Pasted \subseteq Transfers /\ NoTx \notin Transfers
    /\ {Confirmations, Chunk, ChunksPerPass, MaxBlock} \subseteq Nat \ {0} /\ MaxFailures \in Nat

Blocks == 0..MaxBlock

VARIABLES
    head,     \* height of the chain
    mined,    \* [Transfers -> Blocks]: 0 when it is not on the chain
    status,   \* [Invoices -> {"none", "asked", "fresh", "stale"}]
    from,     \* [Invoices -> Blocks]: from_block
    paid,     \* [Invoices -> Transfers \cup {NoTx}]: paid_tx
    rows,     \* purchase rows of the ledger: [invoice, tx]
    cursor,   \* credit_scan_cursors: 0 before the first one
    pass,     \* the scan: [phase, open, start, end, to, left, chunks]
    pasting,  \* pasted hashes under verification
    raced,    \* history: requests inserted while a scan was under way
    failures  \* scans that failed and crashes, up to MaxFailures

vars == <<head, mined, status, from, paid, rows, cursor, pass, pasting, raced, failures>>
chainVars == <<head, mined>>
requestVars == <<status, from, raced>>

Idle == [phase |-> "idle", open |-> {}, start |-> 0, end |-> 0, to |-> 0, left |-> {}, chunks |-> 0]
Inserted == {i \in Invoices : status[i] \in {"fresh", "stale"}}
Unpaid == {i \in Inserted : paid[i] = NoTx}
Fresh == {i \in Unpaid : status[i] = "fresh"}
Smaller(m, n) == IF m < n THEN m ELSE n
Larger(m, n) == IF m < n THEN n ELSE m

\* verifyCreditPayment: on the chain, and deep enough.
Confirmed(t) == mined[t] # 0 /\ head + 1 >= mined[t] + Confirmations

-----------------------------------------------------------------------------
Init ==
    /\ head = 1 /\ mined = [t \in Transfers |-> 0]
    /\ status = [i \in Invoices |-> "none"] /\ from = [i \in Invoices |-> 0]
    /\ paid = [i \in Invoices |-> NoTx] /\ rows = {}
    /\ cursor = 0 /\ pass = Idle /\ pasting = {} /\ raced = {} /\ failures = 0

-----------------------------------------------------------------------------
(* The chain and the people. *)

\* A new block, with some of the transfers people have sent.
Block ==
    /\ head < MaxBlock
    /\ head' = head + 1
    /\ \E S \in SUBSET {t \in Transfers : mined[t] = 0 /\ Pays[t] \in Inserted} :
          mined' = [t \in Transfers |-> IF t \in S THEN head' ELSE mined[t]]
    /\ UNCHANGED <<requestVars, paid, rows, cursor, pass, pasting, failures>>

\* The newest blocks are replaced, and a transfer in them is not on the chain
\* any more; blocks as deep as Confirmations stay.
Reorg ==
    /\ \E t \in Transfers : mined[t] # 0 /\ mined[t] + Confirmations > head + 1 /\ mined' = [mined EXCEPT ![t] = 0]
    /\ UNCHANGED <<head, requestVars, paid, rows, cursor, pass, pasting, failures>>

\* A payment request: the chain's height is asked for, then the row inserted.
Ask(i) ==
    /\ status[i] = "none"
    /\ status' = [status EXCEPT ![i] = "asked"]
    /\ from' = [from EXCEPT ![i] = head]
    /\ UNCHANGED <<chainVars, paid, rows, cursor, pass, pasting, raced, failures>>
Insert(i) ==
    /\ status[i] = "asked"
    /\ status' = [status EXCEPT ![i] = "fresh"]
    /\ raced' = IF pass.phase = "idle" THEN raced ELSE raced \cup {i}
    /\ UNCHANGED <<chainVars, from, paid, rows, cursor, pass, pasting, failures>>

\* Thirty minutes and a day later the request no longer draws the scan.
Stale(i) ==
    /\ status[i] = "fresh"
    /\ status' = [status EXCEPT ![i] = "stale"]
    /\ UNCHANGED <<chainVars, from, paid, rows, cursor, pass, pasting, raced, failures>>

\* paid: one transaction, which looks at the request and the ledger again.
Payable(i, t) == paid[i] = NoTx /\ \A r \in rows : r.tx # t
Credit(i, t) ==
    IF Payable(i, t)
    THEN /\ rows' = rows \cup {[invoice |-> i, tx |-> t]}
         /\ paid' = [paid EXCEPT ![i] = t]
    ELSE UNCHANGED <<rows, paid>>

\* Somebody pastes a hash; the chain is asked about it, then the credit given.
\* A hash of another amount is refused without effect and left out.
Paste(t) ==
    /\ t \in Pasted /\ Pays[t] \in Unpaid
    /\ pasting' = pasting \cup {t}
    /\ UNCHANGED <<chainVars, requestVars, paid, rows, cursor, pass, failures>>
Verified(t) ==
    /\ t \in pasting
    /\ pasting' = pasting \ {t}
    /\ IF Confirmed(t) THEN Credit(Pays[t], t) ELSE UNCHANGED <<rows, paid>>
    /\ UNCHANGED <<chainVars, requestVars, cursor, pass, failures>>

-----------------------------------------------------------------------------
(* scanToken. *)

\* Without a fresh request there is no scan; with one, every unpaid request
\* is looked for, from the block of the oldest fresh one on.
BeginPass ==
    /\ pass.phase = "idle" /\ Fresh # {}
    /\ pass' = [Idle EXCEPT !.phase = "begun", !.open = Unpaid, !.start = Min({from[i] : i \in Fresh})]
    /\ UNCHANGED <<chainVars, requestVars, paid, rows, cursor, pasting, failures>>

\* The height is known, and with it the range: never below the cursor.
RangeStart(floor) == IF cursor = 0 THEN floor ELSE Larger(cursor + 1, floor)
HeadRead ==
    /\ pass.phase = "begun"
    /\ LET first == RangeStart(pass.start) IN
       pass' = IF first + Confirmations <= head + 1
               THEN [pass EXCEPT !.phase = "chunk", !.start = first, !.end = (head + 1) - Confirmations,
                                 !.chunks = ChunksPerPass]
               ELSE Idle
    /\ UNCHANGED <<chainVars, requestVars, paid, rows, cursor, pasting, failures>>

\* Mutant: the last chunk is as long as the others.
ChunkEndUnclipped == (pass.start + Chunk) - 1
ChunkEnd == Smaller((pass.start + Chunk) - 1, pass.end)
LogsRead ==
    /\ pass.phase = "chunk"
    /\ pass' = [pass EXCEPT !.phase = "logs", !.to = ChunkEnd,
                            !.left = {t \in Transfers : mined[t] \in pass.start..ChunkEnd}]
    /\ UNCHANGED <<chainVars, requestVars, paid, rows, cursor, pasting, failures>>

\* One transfer of the chunk: a second one for a credited request is only
\* logged; one credited meanwhile closes the request for this scan.
Process(t) ==
    /\ pass.phase = "logs" /\ t \in pass.left
    /\ IF Pays[t] \in pass.open
       THEN Confirmed(t) /\ Credit(Pays[t], t)
       ELSE UNCHANGED <<rows, paid>>
    /\ pass' = [pass EXCEPT !.left = @ \ {t}, !.open = @ \ {Pays[t]}]
    /\ UNCHANGED <<chainVars, requestVars, cursor, pasting, failures>>

\* The cursor is saved chunk by chunk, so a long gap closes over a few scans.
\* Mutants: it is saved when the range is done; or as the end of the range.
SavedAtEnd == IF pass.to = pass.end THEN pass.to ELSE cursor
SavedAhead == pass.end
Saved == pass.to
ChunkDone ==
    /\ pass.phase = "logs" /\ pass.left = {}
    /\ cursor' = Saved
    /\ pass' = IF pass.to = pass.end \/ pass.chunks = 1 THEN Idle
               ELSE [pass EXCEPT !.phase = "chunk", !.start = pass.to + 1, !.to = 0, !.chunks = @ - 1]
    /\ UNCHANGED <<chainVars, requestVars, paid, rows, pasting, failures>>

\* A call to the chain fails, and the scan with it; the next one begins anew.
PassFails ==
    /\ pass.phase # "idle" /\ failures < MaxFailures
    /\ pass' = Idle /\ failures' = failures + 1
    /\ UNCHANGED <<chainVars, requestVars, paid, rows, cursor, pasting>>

\* The process dies: with it the scan and the requests being answered.
Crash ==
    /\ failures < MaxFailures /\ failures' = failures + 1
    /\ pass.phase # "idle" \/ pasting # {} \/ \E i \in Invoices : status[i] = "asked"
    /\ pass' = Idle /\ pasting' = {}
    /\ status' = [i \in Invoices |-> IF status[i] = "asked" THEN "none" ELSE status[i]]
    /\ UNCHANGED <<chainVars, from, paid, rows, cursor, raced>>

Next ==
    \/ Block \/ Reorg
    \/ \E i \in Invoices : Ask(i) \/ Insert(i) \/ Stale(i)
    \/ \E t \in Transfers : Paste(t) \/ Verified(t)
    \/ BeginPass \/ HeadRead \/ LogsRead \/ ChunkDone \/ PassFails \/ Crash
    \/ \E t \in Transfers : Process(t)

Spec == Init /\ [][Next]_vars

\* The timer starts scans, and the chain's endpoint answers or fails.
ScanStep == BeginPass \/ HeadRead \/ LogsRead \/ ChunkDone \/ \E t \in Transfers : Process(t)
FairSpec == Spec /\ WF_vars(ScanStep)

-----------------------------------------------------------------------------
TypeOK ==
    /\ head \in Blocks /\ mined \in [Transfers -> 0..head]
    /\ cursor \in Nat /\ (cursor > 0 => cursor + Confirmations <= head + 1)
    /\ status \in [Invoices -> {"none", "asked", "fresh", "stale"}] /\ from \in [Invoices -> 0..head]
    /\ paid \in [Invoices -> Transfers \cup {NoTx}]
    /\ rows \subseteq [invoice : Invoices, tx : Transfers] /\ pasting \subseteq Pasted
    /\ pass.phase \in {"idle", "begun", "chunk", "logs"}
    /\ pass.open \subseteq Inserted /\ pass.left \subseteq Transfers
    /\ {pass.start, pass.end, pass.to} \subseteq Blocks /\ pass.chunks \in 0..ChunksPerPass
    /\ pass.phase = "chunk" => pass.start <= pass.end
    /\ raced \subseteq Inserted /\ failures \in 0..MaxFailures

\* A request is credited once and a transfer credits once, whoever finds it
\* first, and the ledger says the same as the request.
CreditedOnce ==
    /\ \A r, q \in rows : r.invoice = q.invoice \/ r.tx = q.tx => r = q
    /\ \A i \in Invoices : paid[i] # NoTx <=> \E r \in rows : r.invoice = i
    /\ \A r \in rows : paid[r.invoice] = r.tx

\* What has been credited is on the chain and stays there.
CreditIsFinal == \A r \in rows : mined[r.tx] # 0

\* The scan leaves no payment behind: a transfer at or below the cursor has
\* had its request credited, but for a request that came while a scan was
\* under way, or went stale.
NothingLeftBehind ==
    \A t \in Transfers :
        mined[t] # 0 /\ mined[t] <= cursor =>
            \/ paid[Pays[t]] # NoTx
            \/ status[Pays[t]] = "stale" \/ Pays[t] \in raced

\* The ledger is what the chain says: each payment once, for good, none missed.
CreditsAreSound == CreditedOnce /\ CreditIsFinal /\ NothingLeftBehind

\* Nobody has to paste a hash: a fresh request whose transfer is deep enough
\* is credited in the end, however often scans have failed before.
PaymentsAreFound ==
    \A i \in Invoices :
        i \in Fresh /\ (\E t \in Transfers : Pays[t] = i /\ Confirmed(t))
            ~> paid[i] # NoTx \/ status[i] = "stale" \/ i \in raced
=============================================================================
