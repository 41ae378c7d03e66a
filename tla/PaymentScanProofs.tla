------------------------- MODULE PaymentScanProofs -------------------------
(* Proofs that the ledger is what the chain says, for any number of          *)
(* requests, transfers and pasted hashes, any depth of confirmation, chunk   *)
(* and bound of a scan, and any height of the chain.                         *)
EXTENDS PaymentScan, TLAPS, WellFoundedInduction

-----------------------------------------------------------------------------
(* The inductive invariant. *)

Passes == [phase : {"idle", "begun", "chunk", "logs"}, open : SUBSET Invoices, start : Blocks, end : Blocks,
           to : Blocks, left : SUBSET Transfers, chunks : 0..ChunksPerPass]
PassFits == pass \in Passes

\* A transfer is sent for a request that was made before it, and a row of the
\* ledger is of a transfer that no reorganisation reaches any more.
MinedAfterAsked ==
    \A t \in Transfers : mined[t] # 0 => Pays[t] \in Inserted /\ from[Pays[t]] < mined[t]
RowsAreDeep == \A r \in rows : r.invoice = Pays[r.tx] /\ Confirmed(r.tx)

\* What need not be found: the exceptions of NothingLeftBehind.
Closed(t) == paid[Pays[t]] # NoTx \/ status[Pays[t]] = "stale" \/ Pays[t] \in raced
ClosedBelow(n) == \A t \in Transfers : mined[t] # 0 /\ mined[t] < n => Closed(t)

\* A scan looks for every request it may not leave behind, and has settled
\* what lies below its range and what it has worked through.
PassLooks == pass.phase # "idle" => Fresh \ raced \subseteq pass.open /\ ClosedBelow(pass.start)
RangeIsDeep ==
    /\ pass.phase = "begun" => pass.start <= head
    /\ pass.phase \in {"chunk", "logs"} =>
          /\ pass.start <= pass.end /\ pass.end + Confirmations <= head + 1
          /\ pass.chunks >= 1
ChunkIsKnown ==
    pass.phase = "logs" =>
        /\ pass.start <= pass.to /\ pass.to <= pass.end
        /\ \A t \in Transfers :
              mined[t] # 0 /\ mined[t] \in pass.start..pass.to => t \in pass.left \/ Closed(t)

IInv ==
    /\ TypeOK /\ PassFits
    /\ CreditedOnce /\ MinedAfterAsked /\ RowsAreDeep /\ NothingLeftBehind
    /\ PassLooks /\ RangeIsDeep /\ ChunkIsKnown

-----------------------------------------------------------------------------
(* Lemmas about the operators. *)

LEMMA Constants ==
    /\ \A t \in Transfers : Pays[t] \in Invoices
    /\ NoTx \notin Transfers
    /\ Confirmations \in Nat /\ Confirmations >= 1
    /\ Chunk \in Nat /\ Chunk >= 1
    /\ ChunksPerPass \in Nat /\ ChunksPerPass >= 1
    /\ MaxBlock \in Nat /\ MaxBlock >= 1 /\ MaxFailures \in Nat
BY ConstantsAssumption

\* A non-empty set of blocks has a least one.
LEMMA MinOfBlocks ==
    ASSUME NEW S, S \subseteq Nat, S # {}
    PROVE  Min(S) \in S /\ \A n \in S : Min(S) <= n
<1>1. \E m \in S : \A n \in S : ~ (<<n, m>> \in OpToRel(<, Nat))
    BY NatLessThanWellFounded, WFMin
<1>2. \A m, n \in Nat : n < m => <<n, m>> \in OpToRel(<, Nat)
    BY DEF OpToRel
<1>3. \E m \in S : \A n \in S : m <= n
    <2>1. PICK m \in S : \A n \in S : ~ (<<n, m>> \in OpToRel(<, Nat))
        BY <1>1
    <2>2. \A n \in S : ~ (n < m)
        BY <2>1, <1>2
    <2> QED
        BY <2>2
<1> QED
    BY <1>3 DEF Min

\* A credit leaves what was credited before, and the request is credited.
LEMMA CreditSound ==
    ASSUME IInv, NEW t \in Transfers, Confirmed(t), Credit(Pays[t], t)
    PROVE  /\ paid' \in [Invoices -> Transfers \cup {NoTx}]
           /\ rows' \subseteq [invoice : Invoices, tx : Transfers]
           /\ CreditedOnce'
           /\ \A r \in rows' : r.invoice = Pays[r.tx] /\ Confirmed(r.tx)
           /\ \A i \in Invoices : paid[i] # NoTx => paid'[i] # NoTx
           /\ \A i \in Invoices : i # Pays[t] => paid'[i] = paid[i]
           /\ paid'[Pays[t]] # NoTx
<1> USE Constants
<1> DEFINE i == Pays[t]
<1>0. /\ i \in Invoices /\ t # NoTx
      /\ paid \in [Invoices -> Transfers \cup {NoTx}]
      /\ rows \subseteq [invoice : Invoices, tx : Transfers]
      /\ CreditedOnce
      /\ \A r \in rows : r.invoice = Pays[r.tx] /\ Confirmed(r.tx)
    BY DEF IInv, TypeOK, RowsAreDeep
<1>1. CASE Payable(i, t)
    <2>1. /\ rows' = rows \cup {[invoice |-> i, tx |-> t]}
          /\ paid' = [paid EXCEPT ![i] = t]
          /\ paid[i] = NoTx /\ \A r \in rows : r.tx # t
        BY <1>1 DEF Credit, Payable
    <2>2. /\ \A r \in rows : r.invoice # i
          /\ \A j \in Invoices : paid'[j] = IF j = i THEN t ELSE paid[j]
        BY <2>1, <1>0 DEF CreditedOnce
    <2>3. \A r, q \in rows' : r.invoice = q.invoice \/ r.tx = q.tx => r = q
        BY <2>1, <2>2, <1>0 DEF CreditedOnce
    <2>4. ASSUME NEW j \in Invoices
          PROVE  paid'[j] # NoTx <=> \E r \in rows' : r.invoice = j
        <3>1. CASE j = i
            <4>1. [invoice |-> i, tx |-> t] \in rows'
                BY <2>1
            <4> QED
                BY <3>1, <4>1, <2>2, <1>0
        <3>2. CASE j # i
            <4>1. (\E r \in rows' : r.invoice = j) <=> \E r \in rows : r.invoice = j
                BY <3>2, <2>1
            <4> QED
                BY <3>2, <4>1, <2>2, <1>0 DEF CreditedOnce
        <3> QED
            BY <3>1, <3>2
    <2>5. \A r \in rows' : paid'[r.invoice] = r.tx
        BY <2>1, <2>2, <1>0 DEF CreditedOnce
    <2>6. CreditedOnce'
        BY <2>3, <2>4, <2>5 DEF CreditedOnce
    <2> QED
        BY <2>1, <2>2, <2>6, <1>0
<1>2. CASE ~Payable(i, t)
    <2>1. rows' = rows /\ paid' = paid
        BY <1>2 DEF Credit
    <2>2. paid[i] # NoTx
        BY <1>2, <1>0 DEF Payable, CreditedOnce
    <2> QED
        BY <2>1, <2>2, <1>0 DEF CreditedOnce
<1> QED
    BY <1>1, <1>2

-----------------------------------------------------------------------------
(* The invariant holds of the initial states. *)

LEMMA InitSound == Init => IInv
<1> SUFFICES ASSUME Init PROVE IInv
    OBVIOUS
<1> USE Constants
<1>1. TypeOK /\ PassFits
    BY DEF Init, TypeOK, PassFits, Passes, Idle, Blocks, Inserted
<1>2. CreditedOnce /\ MinedAfterAsked /\ RowsAreDeep /\ NothingLeftBehind
    BY DEF Init, CreditedOnce, MinedAfterAsked, RowsAreDeep, NothingLeftBehind
<1>3. PassLooks /\ RangeIsDeep /\ ChunkIsKnown
    BY DEF Init, PassLooks, RangeIsDeep, ChunkIsKnown, Idle
<1> QED
    BY <1>1, <1>2, <1>3 DEF IInv

-----------------------------------------------------------------------------
(* Each action keeps it: first the chain and the people. *)

LEMMA BlockSound == IInv /\ Block => IInv'
<1> SUFFICES ASSUME IInv, Block PROVE IInv'
    OBVIOUS
<1> USE Constants DEF IInv, TypeOK, PassFits, Passes, Blocks
<1>0. PICK S \in SUBSET {t \in Transfers : mined[t] = 0 /\ Pays[t] \in Inserted} :
          mined' = [t \in Transfers |-> IF t \in S THEN head' ELSE mined[t]]
    BY DEF Block
<1>1. /\ head < MaxBlock /\ head' = head + 1 /\ head \in Nat
      /\ \A t \in Transfers :
            \/ t \in S /\ mined[t] = 0 /\ mined'[t] = head + 1 /\ Pays[t] \in Inserted
            \/ mined'[t] = mined[t]
    BY <1>0 DEF Block
<1>2. UNCHANGED <<status, from, raced, paid, rows, cursor, pass, pasting, failures>>
    BY DEF Block, requestVars
<1>3. Inserted' = Inserted /\ Fresh' = Fresh /\ \A t \in Transfers : Closed(t)' = Closed(t)
    BY <1>2 DEF Inserted, Unpaid, Fresh, Closed
<1>4. (TypeOK /\ PassFits)'
    BY <1>0, <1>1, <1>2, <1>3 DEF Block
<1>5. CreditedOnce'
    BY <1>2 DEF CreditedOnce
<1>6. MinedAfterAsked'
    BY <1>1, <1>2, <1>3 DEF MinedAfterAsked
<1>7. RowsAreDeep'
    BY <1>1, <1>2 DEF RowsAreDeep, Confirmed
<1>8. NothingLeftBehind'
    BY <1>1, <1>2 DEF NothingLeftBehind
<1>9. PassLooks'
    BY <1>1, <1>2, <1>3 DEF PassLooks, ClosedBelow, RangeIsDeep
<1>10. (RangeIsDeep /\ ChunkIsKnown)'
    BY <1>1, <1>2, <1>3 DEF RangeIsDeep, ChunkIsKnown
<1> QED
    BY <1>4, <1>5, <1>6, <1>7, <1>8, <1>9, <1>10

LEMMA ReorgSound == IInv /\ Reorg => IInv'
<1> SUFFICES ASSUME IInv, Reorg PROVE IInv'
    OBVIOUS
<1> USE Constants DEF IInv, TypeOK, PassFits, Passes, Blocks
<1>0. PICK t \in Transfers :
          mined[t] # 0 /\ mined[t] + Confirmations > head + 1 /\ mined' = [mined EXCEPT ![t] = 0]
    BY DEF Reorg
<1>1. ~Confirmed(t) /\ \A u \in Transfers : mined'[u] = IF u = t THEN 0 ELSE mined[u]
    BY <1>0 DEF Confirmed
<1>2. UNCHANGED <<head, status, from, raced, paid, rows, cursor, pass, pasting, failures>>
    BY DEF Reorg, requestVars
<1>3. Inserted' = Inserted /\ Fresh' = Fresh /\ \A u \in Transfers : Closed(u)' = Closed(u)
    BY <1>2 DEF Inserted, Unpaid, Fresh, Closed
<1>4. (TypeOK /\ PassFits)'
    BY <1>0, <1>2, <1>3
<1>5. CreditedOnce'
    BY <1>2 DEF CreditedOnce
<1>6. MinedAfterAsked'
    BY <1>1, <1>2, <1>3 DEF MinedAfterAsked
<1>7. RowsAreDeep'
    BY <1>1, <1>2 DEF RowsAreDeep, Confirmed
<1>8. NothingLeftBehind'
    BY <1>1, <1>2 DEF NothingLeftBehind
<1>9. (PassLooks /\ RangeIsDeep)'
    BY <1>1, <1>2, <1>3 DEF PassLooks, ClosedBelow, RangeIsDeep
<1>10. ChunkIsKnown'
    BY <1>1, <1>2, <1>3 DEF ChunkIsKnown
<1> QED
    BY <1>4, <1>5, <1>6, <1>7, <1>8, <1>9, <1>10

LEMMA AskSound == ASSUME IInv, NEW i \in Invoices, Ask(i) PROVE IInv'
<1> USE Constants DEF IInv, TypeOK, PassFits, Passes, Blocks
<1>1. /\ status[i] = "none" /\ status' = [status EXCEPT ![i] = "asked"]
      /\ from' = [from EXCEPT ![i] = head]
      /\ UNCHANGED <<head, mined, raced, paid, rows, cursor, pass, pasting, failures>>
    BY DEF Ask, chainVars
<1>2. Inserted' = Inserted /\ Fresh' = Fresh /\ i \notin Inserted
    BY <1>1 DEF Inserted, Unpaid, Fresh
<1>3. \A t \in Transfers : Closed(t)' = Closed(t)
    BY <1>1 DEF Closed
<1>4. (TypeOK /\ PassFits)'
    BY <1>1, <1>2
<1>5. CreditedOnce'
    BY <1>1 DEF CreditedOnce
<1>6. MinedAfterAsked'
    BY <1>1, <1>2 DEF MinedAfterAsked
<1>7. RowsAreDeep'
    BY <1>1 DEF RowsAreDeep, Confirmed
<1>8. NothingLeftBehind'
    BY <1>1 DEF NothingLeftBehind
<1>9. (PassLooks /\ RangeIsDeep /\ ChunkIsKnown)'
    BY <1>1, <1>2, <1>3 DEF PassLooks, ClosedBelow, RangeIsDeep, ChunkIsKnown
<1> QED
    BY <1>4, <1>5, <1>6, <1>7, <1>8, <1>9

\* A request inserted while a scan is under way is one of the exceptions.
LEMMA InsertSound == ASSUME IInv, NEW i \in Invoices, Insert(i) PROVE IInv'
<1> USE Constants DEF IInv, TypeOK, PassFits, Passes, Blocks
<1>1. /\ status[i] = "asked" /\ status' = [status EXCEPT ![i] = "fresh"]
      /\ raced' = IF pass.phase = "idle" THEN raced ELSE raced \cup {i}
      /\ UNCHANGED <<head, mined, from, paid, rows, cursor, pass, pasting, failures>>
    BY DEF Insert, chainVars
<1>2. /\ Inserted' = Inserted \cup {i} /\ Fresh' \subseteq Fresh \cup {i}
      /\ \A t \in Transfers : Closed(t) => Closed(t)'
      /\ raced \subseteq raced' /\ (pass.phase # "idle" => i \in raced')
    BY <1>1 DEF Inserted, Unpaid, Fresh, Closed
<1>3. (TypeOK /\ PassFits)'
    BY <1>1, <1>2
<1>4. CreditedOnce'
    BY <1>1 DEF CreditedOnce
<1>5. MinedAfterAsked'
    BY <1>1, <1>2 DEF MinedAfterAsked
<1>6. RowsAreDeep'
    BY <1>1 DEF RowsAreDeep, Confirmed
<1>7. NothingLeftBehind'
    BY <1>1, <1>2 DEF NothingLeftBehind, Closed
<1>8. (PassLooks /\ RangeIsDeep /\ ChunkIsKnown)'
    BY <1>1, <1>2 DEF PassLooks, ClosedBelow, RangeIsDeep, ChunkIsKnown
<1> QED
    BY <1>3, <1>4, <1>5, <1>6, <1>7, <1>8

LEMMA StaleSound == ASSUME IInv, NEW i \in Invoices, Stale(i) PROVE IInv'
<1> USE Constants DEF IInv, TypeOK, PassFits, Passes, Blocks
<1>1. /\ status[i] = "fresh" /\ status' = [status EXCEPT ![i] = "stale"]
      /\ UNCHANGED <<head, mined, from, raced, paid, rows, cursor, pass, pasting, failures>>
    BY DEF Stale, chainVars
<1>2. /\ Inserted' = Inserted /\ Fresh' \subseteq Fresh
      /\ \A t \in Transfers : Closed(t) => Closed(t)'
    BY <1>1 DEF Inserted, Unpaid, Fresh, Closed
<1>3. (TypeOK /\ PassFits)'
    BY <1>1, <1>2
<1>4. CreditedOnce'
    BY <1>1 DEF CreditedOnce
<1>5. MinedAfterAsked'
    BY <1>1, <1>2 DEF MinedAfterAsked
<1>6. RowsAreDeep'
    BY <1>1 DEF RowsAreDeep, Confirmed
<1>7. NothingLeftBehind'
    BY <1>1, <1>2 DEF NothingLeftBehind, Closed
<1>8. (PassLooks /\ RangeIsDeep /\ ChunkIsKnown)'
    BY <1>1, <1>2 DEF PassLooks, ClosedBelow, RangeIsDeep, ChunkIsKnown
<1> QED
    BY <1>3, <1>4, <1>5, <1>6, <1>7, <1>8

LEMMA PasteSound == ASSUME IInv, NEW t \in Transfers, Paste(t) PROVE IInv'
<1> USE DEF IInv
<1>1. /\ t \in Pasted /\ pasting' = pasting \cup {t}
      /\ UNCHANGED <<head, mined, status, from, raced, paid, rows, cursor, pass, failures>>
    BY DEF Paste, chainVars, requestVars
<1>2. (TypeOK /\ PassFits)'
    BY <1>1 DEF TypeOK, PassFits, Inserted
<1>3. (CreditedOnce /\ MinedAfterAsked /\ RowsAreDeep /\ NothingLeftBehind)'
    BY <1>1 DEF CreditedOnce, MinedAfterAsked, RowsAreDeep, Confirmed, NothingLeftBehind, Inserted
<1>4. (PassLooks /\ RangeIsDeep /\ ChunkIsKnown)'
    BY <1>1 DEF PassLooks, ClosedBelow, Closed, RangeIsDeep, ChunkIsKnown, Inserted, Unpaid, Fresh
<1> QED
    BY <1>2, <1>3, <1>4

\* A step that may credit a request, and otherwise only ends what looked for it.
LEMMA CreditStep ==
    ASSUME IInv, NEW t \in Transfers,
           (Confirmed(t) /\ Credit(Pays[t], t)) \/ UNCHANGED <<rows, paid>>,
           UNCHANGED <<head, mined, status, from, raced, cursor, failures>>
    PROVE  /\ paid' \in [Invoices -> Transfers \cup {NoTx}]
           /\ rows' \subseteq [invoice : Invoices, tx : Transfers]
           /\ (CreditedOnce /\ MinedAfterAsked /\ RowsAreDeep /\ NothingLeftBehind)'
           /\ Inserted' = Inserted /\ Fresh' \subseteq Fresh
           /\ \A u \in Transfers : Closed(u) => Closed(u)'
<1> USE Constants
<1>1. /\ paid' \in [Invoices -> Transfers \cup {NoTx}]
      /\ rows' \subseteq [invoice : Invoices, tx : Transfers]
      /\ CreditedOnce'
      /\ \A r \in rows' : r.invoice = Pays[r.tx] /\ Confirmed(r.tx)
      /\ \A i \in Invoices : paid[i] # NoTx => paid'[i] # NoTx
    <2>1. CASE Confirmed(t) /\ Credit(Pays[t], t)
        BY <2>1, CreditSound
    <2>2. CASE UNCHANGED <<rows, paid>>
        BY <2>2 DEF IInv, TypeOK, CreditedOnce, RowsAreDeep
    <2> QED
        BY <2>1, <2>2
<1>2. /\ Inserted' = Inserted /\ Fresh' \subseteq Fresh
      /\ \A u \in Transfers : Closed(u) => Closed(u)'
    BY <1>1 DEF Inserted, Unpaid, Fresh, Closed
<1>3. MinedAfterAsked'
    BY <1>2 DEF IInv, MinedAfterAsked
<1>4. RowsAreDeep'
    BY <1>1 DEF RowsAreDeep, Confirmed
<1>5. NothingLeftBehind'
    BY <1>1 DEF IInv, NothingLeftBehind
<1> QED
    BY <1>1, <1>2, <1>3, <1>4, <1>5

LEMMA VerifiedSound == ASSUME IInv, NEW t \in Transfers, Verified(t) PROVE IInv'
<1>1. /\ pasting' = pasting \ {t}
      /\ (Confirmed(t) /\ Credit(Pays[t], t)) \/ UNCHANGED <<rows, paid>>
      /\ UNCHANGED <<head, mined, status, from, raced, cursor, pass, failures>>
    BY DEF Verified, chainVars, requestVars
<1>2. /\ paid' \in [Invoices -> Transfers \cup {NoTx}]
      /\ rows' \subseteq [invoice : Invoices, tx : Transfers]
      /\ (CreditedOnce /\ MinedAfterAsked /\ RowsAreDeep /\ NothingLeftBehind)'
      /\ Inserted' = Inserted /\ Fresh' \subseteq Fresh
      /\ \A u \in Transfers : Closed(u) => Closed(u)'
    BY <1>1, CreditStep
<1>3. (TypeOK /\ PassFits)'
    BY <1>1, <1>2 DEF IInv, TypeOK, PassFits
<1>4. (PassLooks /\ RangeIsDeep /\ ChunkIsKnown)'
    BY <1>1, <1>2 DEF IInv, PassLooks, ClosedBelow, RangeIsDeep, ChunkIsKnown
<1> QED
    BY <1>2, <1>3, <1>4 DEF IInv

-----------------------------------------------------------------------------
(* The scan. *)

\* What a step that touches only the scan leaves as it was.
LEMMA LedgerKept ==
    ASSUME IInv, UNCHANGED <<head, mined, status, from, raced, paid, rows, cursor>>
    PROVE  /\ (CreditedOnce /\ MinedAfterAsked /\ RowsAreDeep /\ NothingLeftBehind)'
           /\ Inserted' = Inserted /\ Fresh' = Fresh
           /\ \A t \in Transfers : Closed(t)' = Closed(t)
<1>1. /\ Inserted' = Inserted /\ Fresh' = Fresh
      /\ \A t \in Transfers : Closed(t)' = Closed(t)
    BY DEF Inserted, Unpaid, Fresh, Closed
<1>2. (CreditedOnce /\ MinedAfterAsked /\ RowsAreDeep /\ NothingLeftBehind)'
    BY <1>1 DEF IInv, CreditedOnce, MinedAfterAsked, RowsAreDeep, Confirmed, NothingLeftBehind
<1> QED
    BY <1>1, <1>2

\* A transfer below the oldest fresh request is of a request that is closed.
LEMMA BeginPassSound == ASSUME IInv, BeginPass PROVE IInv'
<1> USE Constants
<1> DEFINE oldest == Min({from[i] : i \in Fresh})
<1>1. /\ pass.phase = "idle" /\ Fresh # {}
      /\ pass' = [Idle EXCEPT !.phase = "begun", !.open = Unpaid, !.start = oldest]
      /\ UNCHANGED <<head, mined, status, from, raced, paid, rows, cursor, pasting, failures>>
    BY DEF BeginPass, chainVars, requestVars
<1>2. Fresh \subseteq Unpaid /\ Unpaid \subseteq Inserted /\ Inserted \subseteq Invoices
    BY DEF Fresh, Unpaid, Inserted
<1>3. /\ head \in Blocks /\ from \in [Invoices -> 0..head]
      /\ mined \in [Transfers -> 0..head]
    BY DEF IInv, TypeOK
<1>4. /\ {from[i] : i \in Fresh} \subseteq Nat /\ {from[i] : i \in Fresh} # {}
    BY <1>1, <1>2, <1>3 DEF Blocks
<1>5. oldest \in {from[i] : i \in Fresh} /\ \A n \in {from[i] : i \in Fresh} : oldest <= n
    BY <1>4, MinOfBlocks
<1>6. oldest \in 0..head /\ \A i \in Fresh : oldest <= from[i]
    BY <1>2, <1>3, <1>5
<1> HIDE DEF oldest
<1>7. pass' \in Passes /\ pass'.phase = "begun" /\ pass'.open = Unpaid /\ pass'.start = oldest
    <2>1. pass' = [phase |-> "begun", open |-> Unpaid, start |-> oldest, end |-> 0, to |-> 0,
                   left |-> {}, chunks |-> 0]
        BY <1>1 DEF Idle
    <2>2. oldest \in Blocks /\ 0 \in Blocks /\ 0 \in 0..ChunksPerPass /\ Unpaid \subseteq Invoices
        BY <1>2, <1>3, <1>6 DEF Blocks
    <2> QED
        BY <2>1, <2>2 DEF Passes
<1>8. /\ (CreditedOnce /\ MinedAfterAsked /\ RowsAreDeep /\ NothingLeftBehind)'
      /\ Inserted' = Inserted /\ Fresh' = Fresh
      /\ \A t \in Transfers : Closed(t)' = Closed(t)
    BY <1>1, LedgerKept
<1>9. (TypeOK /\ PassFits)'
    BY <1>1, <1>2, <1>7, <1>8 DEF IInv, TypeOK, PassFits, Passes
<1>10. ASSUME NEW t \in Transfers, mined[t] # 0, mined[t] < oldest
       PROVE  Closed(t)
    <2>1. Pays[t] \in Inserted /\ from[Pays[t]] < mined[t]
        BY <1>10 DEF IInv, MinedAfterAsked
    <2>2. Pays[t] \notin Fresh
        BY <2>1, <1>2, <1>3, <1>6, <1>10
    <2> QED
        BY <2>1, <2>2 DEF Closed, Fresh, Unpaid, Inserted
<1>11. PassLooks'
    BY <1>1, <1>2, <1>7, <1>8, <1>10 DEF PassLooks, ClosedBelow
<1>12. (RangeIsDeep /\ ChunkIsKnown)'
    BY <1>1, <1>3, <1>6, <1>7 DEF RangeIsDeep, ChunkIsKnown
<1> QED
    BY <1>8, <1>9, <1>11, <1>12 DEF IInv

\* A scan that ends, whatever became of it, leaves nothing to hold of it.
LEMMA IdleSound ==
    ASSUME pass' = Idle
    PROVE  (PassFits /\ PassLooks /\ RangeIsDeep /\ ChunkIsKnown)'
<1>1. Idle \in Passes
    BY Constants DEF Idle, Passes, Blocks
<1>2. pass'.phase = "idle"
    BY DEF Idle
<1> QED
    BY <1>1, <1>2 DEF PassFits, PassLooks, RangeIsDeep, ChunkIsKnown

LEMMA IdleKeepsTypes ==
    ASSUME IInv, pass' = Idle, UNCHANGED <<head, mined, status, from, raced, paid, rows, cursor>>,
           pasting' \subseteq Pasted, failures' \in 0..MaxFailures
    PROVE  (TypeOK /\ PassFits)'
<1>1. pass'.phase = "idle" /\ pass'.open = {} /\ pass'.left = {} /\ pass'.start = 0 /\ pass'.end = 0
      /\ pass'.to = 0 /\ pass'.chunks = 0
    BY DEF Idle
<1>2. 0 \in Blocks /\ 0 \in 0..ChunksPerPass
    BY Constants DEF Blocks
<1>3. TypeOK'
    BY <1>1, <1>2 DEF IInv, TypeOK, Inserted
<1> QED
    BY <1>3, IdleSound

\* Below the cursor nothing is left behind either.
LEMMA HeadReadSound == ASSUME IInv, HeadRead PROVE IInv'
<1> USE Constants
<1> DEFINE first == RangeStart(pass.start)
<1>1. /\ pass.phase = "begun"
      /\ pass' = IF first + Confirmations <= head + 1
                 THEN [pass EXCEPT !.phase = "chunk", !.start = first, !.end = (head + 1) - Confirmations,
                                   !.chunks = ChunksPerPass]
                 ELSE Idle
      /\ UNCHANGED <<head, mined, status, from, raced, paid, rows, cursor, pasting, failures>>
    BY DEF HeadRead, chainVars, requestVars
<1>2. /\ head \in Nat /\ head <= MaxBlock /\ mined \in [Transfers -> 0..head] /\ cursor \in Nat
      /\ pass \in Passes /\ pass.start \in Nat /\ pass.open \subseteq Inserted
    BY DEF IInv, TypeOK, PassFits, Passes, Blocks
<1>3. first \in Nat /\ (first = pass.start \/ first = cursor + 1)
    BY <1>2 DEF RangeStart, Larger
<1>4. /\ (CreditedOnce /\ MinedAfterAsked /\ RowsAreDeep /\ NothingLeftBehind)'
      /\ Inserted' = Inserted /\ Fresh' = Fresh
      /\ \A t \in Transfers : Closed(t)' = Closed(t)
    BY <1>1, LedgerKept
<1>5. ASSUME NEW t \in Transfers, mined[t] # 0, mined[t] < first
      PROVE  Closed(t)
    <2>1. mined[t] <= cursor \/ mined[t] < pass.start
        BY <1>2, <1>3, <1>5
    <2> QED
        BY <2>1, <1>1, <1>5 DEF IInv, NothingLeftBehind, PassLooks, ClosedBelow, Closed
<1> HIDE DEF first
<1>6. CASE first + Confirmations <= head + 1
    <2>1. /\ pass'.phase = "chunk" /\ pass'.open = pass.open /\ pass'.start = first
          /\ pass'.end = (head + 1) - Confirmations /\ pass'.chunks = ChunksPerPass
          /\ pass'.left = pass.left /\ pass'.to = pass.to
          /\ first \in Blocks /\ (head + 1) - Confirmations \in Blocks
          /\ ChunksPerPass \in 0..ChunksPerPass
        BY <1>1, <1>2, <1>3, <1>6 DEF Passes, Blocks
    <2>2. pass' \in Passes
        <3>1. pass' = [pass EXCEPT !.phase = "chunk", !.start = first, !.end = (head + 1) - Confirmations,
                                   !.chunks = ChunksPerPass]
            BY <1>1, <1>6
        <3> QED
            BY <3>1, <2>1, <1>2 DEF Passes
    <2>3. (TypeOK /\ PassFits)'
        BY <1>1, <1>2, <1>3, <1>4, <1>6, <2>1, <2>2 DEF IInv, TypeOK, PassFits, Passes
    <2>4. PassLooks'
        BY <1>1, <1>4, <1>5, <2>1 DEF IInv, PassLooks, ClosedBelow
    <2>5. (RangeIsDeep /\ ChunkIsKnown)'
        BY <1>1, <1>2, <1>3, <1>6, <2>1 DEF RangeIsDeep, ChunkIsKnown
    <2> QED
        BY <1>4, <2>3, <2>4, <2>5 DEF IInv
<1>7. CASE ~(first + Confirmations <= head + 1)
    <2>1. pass' = Idle
        BY <1>1, <1>7
    <2>2. (TypeOK /\ PassFits)'
        BY <1>1, <2>1, IdleKeepsTypes DEF IInv, TypeOK
    <2>3. (PassLooks /\ RangeIsDeep /\ ChunkIsKnown)'
        BY <2>1, IdleSound
    <2> QED
        BY <1>4, <2>2, <2>3 DEF IInv
<1> QED
    BY <1>6, <1>7

LEMMA LogsReadSound == ASSUME IInv, LogsRead PROVE IInv'
<1> USE Constants
<1> DEFINE last == ChunkEnd
           found == {t \in Transfers : mined[t] \in pass.start..last}
<1>1. /\ pass.phase = "chunk"
      /\ pass' = [pass EXCEPT !.phase = "logs", !.to = last, !.left = found]
      /\ UNCHANGED <<head, mined, status, from, raced, paid, rows, cursor, pasting, failures>>
    BY DEF LogsRead, chainVars, requestVars
<1>2. /\ pass \in Passes /\ pass.start \in Nat /\ pass.end \in Blocks
      /\ pass.start <= pass.end
    BY <1>1 DEF IInv, PassFits, Passes, RangeIsDeep, Blocks
<1>3. last \in Blocks /\ pass.start <= last /\ last <= pass.end
    BY <1>2 DEF ChunkEnd, Smaller, Blocks
<1>4. /\ (CreditedOnce /\ MinedAfterAsked /\ RowsAreDeep /\ NothingLeftBehind)'
      /\ Inserted' = Inserted /\ Fresh' = Fresh
      /\ \A t \in Transfers : Closed(t)' = Closed(t)
    BY <1>1, LedgerKept
<1> HIDE DEF last
<1>5. /\ pass' \in Passes /\ pass'.phase = "logs" /\ pass'.open = pass.open /\ pass'.start = pass.start
      /\ pass'.end = pass.end /\ pass'.to = last /\ pass'.left = found /\ pass'.chunks = pass.chunks
    BY <1>1, <1>2, <1>3 DEF Passes
<1>6. (TypeOK /\ PassFits)'
    BY <1>1, <1>4, <1>5 DEF IInv, TypeOK, PassFits, Passes
<1>7. (PassLooks /\ RangeIsDeep)'
    BY <1>1, <1>4, <1>5 DEF IInv, PassLooks, ClosedBelow, RangeIsDeep
<1>8. ChunkIsKnown'
    BY <1>1, <1>3, <1>5 DEF ChunkIsKnown
<1> QED
    BY <1>4, <1>6, <1>7, <1>8 DEF IInv

\* A transfer that is looked at closes its request, or it was closed before.
LEMMA ProcessSound == ASSUME IInv, NEW t \in Transfers, Process(t) PROVE IInv'
<1> USE Constants
<1>1. /\ pass.phase = "logs" /\ t \in pass.left
      /\ \/ Pays[t] \in pass.open /\ Confirmed(t) /\ Credit(Pays[t], t)
         \/ Pays[t] \notin pass.open /\ UNCHANGED <<rows, paid>>
      /\ pass' = [pass EXCEPT !.left = @ \ {t}, !.open = @ \ {Pays[t]}]
      /\ UNCHANGED <<head, mined, status, from, raced, cursor, pasting, failures>>
    BY DEF Process, chainVars, requestVars
<1>2. /\ paid' \in [Invoices -> Transfers \cup {NoTx}]
      /\ rows' \subseteq [invoice : Invoices, tx : Transfers]
      /\ (CreditedOnce /\ MinedAfterAsked /\ RowsAreDeep /\ NothingLeftBehind)'
      /\ Inserted' = Inserted /\ Fresh' \subseteq Fresh
      /\ \A u \in Transfers : Closed(u) => Closed(u)'
    BY <1>1, CreditStep
<1>3. /\ pass' \in Passes /\ pass'.phase = "logs" /\ pass'.start = pass.start /\ pass'.end = pass.end
      /\ pass'.to = pass.to /\ pass'.chunks = pass.chunks
      /\ pass'.left = pass.left \ {t} /\ pass'.open = pass.open \ {Pays[t]}
    BY <1>1 DEF IInv, PassFits, Passes
<1>4. (TypeOK /\ PassFits)'
    BY <1>1, <1>2, <1>3 DEF IInv, TypeOK, PassFits, Passes
<1>5. Pays[t] \notin Fresh' \ raced /\ (mined[t] # 0 => Closed(t)')
    <2>1. CASE Pays[t] \in pass.open
        <3>1. paid'[Pays[t]] # NoTx
            BY <2>1, <1>1, CreditSound
        <3> QED
            BY <3>1 DEF Fresh, Unpaid, Closed
    <2>2. CASE Pays[t] \notin pass.open
        <3>1. Pays[t] \notin Fresh \ raced
            BY <2>2, <1>1 DEF IInv, PassLooks
        <3> QED
            BY <3>1, <1>1, <1>2 DEF IInv, MinedAfterAsked, Closed, Fresh, Unpaid, Inserted
    <2> QED
        BY <2>1, <2>2
<1>6. PassLooks'
    BY <1>1, <1>2, <1>3, <1>5 DEF IInv, PassLooks, ClosedBelow
<1>7. (RangeIsDeep /\ ChunkIsKnown)'
    BY <1>1, <1>2, <1>3, <1>5 DEF IInv, RangeIsDeep, ChunkIsKnown
<1> QED
    BY <1>2, <1>4, <1>6, <1>7 DEF IInv

\* The cursor moves over what the chunk has settled.
LEMMA ChunkDoneSound == ASSUME IInv, ChunkDone PROVE IInv'
<1> USE Constants
<1>1. /\ pass.phase = "logs" /\ pass.left = {} /\ cursor' = pass.to
      /\ pass' = IF pass.to = pass.end \/ pass.chunks = 1 THEN Idle
                 ELSE [pass EXCEPT !.phase = "chunk", !.start = pass.to + 1, !.to = 0, !.chunks = @ - 1]
      /\ UNCHANGED <<head, mined, status, from, raced, paid, rows, pasting, failures>>
    BY DEF ChunkDone, Saved, chainVars, requestVars
<1>2. /\ pass \in Passes /\ head \in Nat /\ mined \in [Transfers -> 0..head]
      /\ pass.start \in Nat /\ pass.to \in Nat /\ pass.end \in Nat /\ pass.end <= MaxBlock
      /\ pass.chunks \in 0..ChunksPerPass
    BY DEF IInv, TypeOK, PassFits, Passes, Blocks
<1>3. /\ pass.to <= pass.end /\ pass.end + Confirmations <= head + 1 /\ pass.chunks >= 1
    BY <1>1 DEF IInv, RangeIsDeep, ChunkIsKnown
<1>4. /\ Inserted' = Inserted /\ Fresh' = Fresh
      /\ \A t \in Transfers : Closed(t)' = Closed(t)
    BY <1>1 DEF Inserted, Unpaid, Fresh, Closed
<1>5. ASSUME NEW t \in Transfers, mined[t] # 0, mined[t] <= pass.to
      PROVE  Closed(t)
    <2>1. mined[t] < pass.start \/ mined[t] \in pass.start..pass.to
        BY <1>2, <1>5
    <2> QED
        BY <2>1, <1>1, <1>5 DEF IInv, PassLooks, ClosedBelow, ChunkIsKnown
<1>6. NothingLeftBehind'
    BY <1>1, <1>5 DEF NothingLeftBehind, Closed
<1>7. (CreditedOnce /\ MinedAfterAsked /\ RowsAreDeep)'
    BY <1>1, <1>4 DEF IInv, CreditedOnce, MinedAfterAsked, RowsAreDeep, Confirmed
<1>8. cursor' \in Nat /\ cursor' + Confirmations <= head' + 1
    BY <1>1, <1>2, <1>3
<1>9. CASE pass.to = pass.end \/ pass.chunks = 1
    <2>1. pass' = Idle
        BY <1>1, <1>9
    <2>2. pass'.phase = "idle" /\ pass'.open = {} /\ pass'.left = {} /\ pass'.start = 0 /\ pass'.end = 0
          /\ pass'.to = 0 /\ pass'.chunks = 0 /\ 0 \in Blocks /\ 0 \in 0..ChunksPerPass
        BY <2>1 DEF Idle, Blocks
    <2>3. TypeOK'
        BY <1>1, <1>4, <1>8, <2>2 DEF IInv, TypeOK
    <2> QED
        BY <1>6, <1>7, <2>1, <2>3, IdleSound DEF IInv
<1>10. CASE ~(pass.to = pass.end \/ pass.chunks = 1)
    <2>1. /\ pass' = [pass EXCEPT !.phase = "chunk", !.start = pass.to + 1, !.to = 0, !.chunks = @ - 1]
          /\ pass.to + 1 <= pass.end /\ pass.to + 1 \in Blocks /\ 0 \in Blocks
          /\ pass.chunks - 1 \in 0..ChunksPerPass /\ pass.chunks - 1 >= 1
        BY <1>1, <1>2, <1>3, <1>10 DEF Blocks
    <2>2. /\ pass' \in Passes /\ pass'.phase = "chunk" /\ pass'.open = pass.open
          /\ pass'.start = pass.to + 1 /\ pass'.end = pass.end /\ pass'.to = 0
          /\ pass'.left = pass.left /\ pass'.chunks = pass.chunks - 1
        BY <1>2, <2>1 DEF Passes
    <2>3. (TypeOK /\ PassFits)'
        BY <1>1, <1>4, <1>8, <2>1, <2>2 DEF IInv, TypeOK, PassFits
    <2>4. PassLooks'
        BY <1>1, <1>2, <1>4, <1>5, <2>2 DEF IInv, PassLooks, ClosedBelow
    <2>5. (RangeIsDeep /\ ChunkIsKnown)'
        BY <1>1, <1>3, <2>1, <2>2 DEF RangeIsDeep, ChunkIsKnown
    <2> QED
        BY <1>6, <1>7, <2>3, <2>4, <2>5 DEF IInv
<1> QED
    BY <1>9, <1>10

LEMMA PassFailsSound == IInv /\ PassFails => IInv'
<1> SUFFICES ASSUME IInv, PassFails PROVE IInv'
    OBVIOUS
<1>1. /\ pass' = Idle /\ failures < MaxFailures /\ failures' = failures + 1
      /\ UNCHANGED <<head, mined, status, from, raced, paid, rows, cursor, pasting>>
    BY DEF PassFails, chainVars, requestVars
<1>2. failures' \in 0..MaxFailures /\ pasting' \subseteq Pasted
    BY <1>1, Constants DEF IInv, TypeOK
<1> QED
    BY <1>1, <1>2, LedgerKept, IdleSound, IdleKeepsTypes DEF IInv

\* A request that was still being answered when the process died was not made.
LEMMA CrashSound == IInv /\ Crash => IInv'
<1> SUFFICES ASSUME IInv, Crash PROVE IInv'
    OBVIOUS
<1> USE Constants
<1>1. /\ pass' = Idle /\ pasting' = {} /\ failures < MaxFailures /\ failures' = failures + 1
      /\ status' = [i \in Invoices |-> IF status[i] = "asked" THEN "none" ELSE status[i]]
      /\ UNCHANGED <<head, mined, from, raced, paid, rows, cursor>>
    BY DEF Crash, chainVars
<1>2. /\ Inserted' = Inserted /\ Fresh' = Fresh
      /\ \A t \in Transfers : Closed(t)' = Closed(t)
    BY <1>1 DEF Inserted, Unpaid, Fresh, Closed
<1>3. pass'.phase = "idle" /\ pass'.open = {} /\ pass'.left = {} /\ pass'.start = 0 /\ pass'.end = 0
      /\ pass'.to = 0 /\ pass'.chunks = 0 /\ 0 \in Blocks /\ 0 \in 0..ChunksPerPass
    BY <1>1 DEF Idle, Blocks
<1>4. TypeOK'
    BY <1>1, <1>2, <1>3 DEF IInv, TypeOK
<1>5. (CreditedOnce /\ MinedAfterAsked /\ RowsAreDeep)'
    BY <1>1, <1>2 DEF IInv, CreditedOnce, MinedAfterAsked, RowsAreDeep, Confirmed
<1>6. NothingLeftBehind'
    BY <1>1 DEF IInv, NothingLeftBehind
<1> QED
    BY <1>1, <1>4, <1>5, <1>6, IdleSound DEF IInv

-----------------------------------------------------------------------------
LEMMA StutterSound == IInv /\ UNCHANGED vars => IInv'
<1> SUFFICES ASSUME IInv, UNCHANGED vars PROVE IInv'
    OBVIOUS
<1> USE DEF vars
<1>1. (TypeOK /\ PassFits)'
    BY DEF IInv, TypeOK, PassFits, Inserted
<1>2. (PassLooks /\ RangeIsDeep /\ ChunkIsKnown)'
    BY DEF IInv, PassLooks, ClosedBelow, Closed, RangeIsDeep, ChunkIsKnown, Inserted, Unpaid, Fresh
<1> QED
    BY <1>1, <1>2, LedgerKept DEF IInv

LEMMA StepSound == IInv /\ [Next]_vars => IInv'
<1> SUFFICES ASSUME IInv, [Next]_vars PROVE IInv'
    OBVIOUS
<1>1. ASSUME NEW i \in Invoices, Ask(i) \/ Insert(i) \/ Stale(i) PROVE IInv'
    BY <1>1, AskSound, InsertSound, StaleSound
<1>2. ASSUME NEW t \in Transfers, Paste(t) \/ Verified(t) \/ Process(t) PROVE IInv'
    BY <1>2, PasteSound, VerifiedSound, ProcessSound
<1>3. CASE Block \/ Reorg
    BY <1>3, BlockSound, ReorgSound
<1>4. CASE BeginPass \/ HeadRead \/ LogsRead \/ ChunkDone
    BY <1>4, BeginPassSound, HeadReadSound, LogsReadSound, ChunkDoneSound
<1>5. CASE PassFails \/ Crash
    BY <1>5, PassFailsSound, CrashSound
<1>6. CASE UNCHANGED vars
    BY <1>6, StutterSound
<1> QED
    BY <1>1, <1>2, <1>3, <1>4, <1>5, <1>6 DEF Next

THEOREM Inductive == Spec => []IInv
<1> QED
    BY InitSound, StepSound, PTL DEF Spec

\* The state of the ledger, the requests, the chain and the scan is always of
\* its type.
THEOREM TypeCorrect == Spec => []TypeOK
<1>1. IInv => TypeOK
    BY DEF IInv
<1> QED
    BY <1>1, Inductive, PTL

\* A payment is credited once, for its own request, stays on the chain for
\* good, and none that the cursor has passed is missed (scanToken and
\* CreditLedger.paid), whatever the scans, the people who paste hashes, the
\* reorganisations, the failures and the crashes.
THEOREM CreditsSound == Spec => []CreditsAreSound
<1>1. IInv => CreditIsFinal
    BY DEF IInv, RowsAreDeep, Confirmed, CreditIsFinal
<1>2. IInv => CreditsAreSound
    BY <1>1 DEF IInv, CreditsAreSound
<1> QED
    BY <1>2, Inductive, PTL
=============================================================================
