---------------------------- MODULE ImportBatch ----------------------------
(***************************************************************************)
(* The transactions behind the claims of ScanImport, one step per SQL      *)
(* statement, under PostgreSQL's default READ COMMITTED isolation.         *)
(*                                                                         *)
(* A claim is  UPDATE scan_result_cache; upsert import_batch; COMMIT.      *)
(* A compensation is  UPDATE; decrement; reset if idle; COMMIT.            *)
(* A terminal write (complete, fail, either reclaim) is                    *)
(* UPDATE; reset if idle; COMMIT.                                          *)
(*                                                                         *)
(* A statement sees what was committed when it began, and its own          *)
(* transaction's writes.  An UPDATE of a row that another transaction has  *)
(* written waits for that transaction to end and then re-evaluates its     *)
(* condition on the new version of that row, while a sub-query on another  *)
(* table keeps the statement's snapshot.                                   *)
(***************************************************************************)
EXTENDS Naturals, FiniteSets

CONSTANTS
    Dirs,       \* rows of scan_result_cache
    Txns,       \* concurrent sessions
    None,       \* no lock holder
    MaxClaims   \* bound on claims, that is on claim tokens

ASSUME ImportBatchAssumption == None \notin Txns /\ MaxClaims \in Nat

VARIABLES
    row,        \* committed rows: status and claim token
    rowLock,    \* the transaction that has written, and not committed, the row
    total,      \* committed import_batch.total
    batchLock,  \* the transaction that has written, and not committed, it
    newTotal,   \* the value that transaction wrote
    txn,        \* the open transactions
    tokens,     \* claim tokens drawn so far
    ended       \* history: how often each claim was ended by a committed write

vars == <<row, rowLock, total, batchLock, newTotal, txn, tokens, ended>>

NoTok == 0

Idle == [pc |-> "idle", kind |-> "none", dir |-> None, tok |-> NoTok]

\* The row a transaction leaves behind when it commits.
After(x) == IF txn[x].kind = "claim"
            THEN [status |-> "queued", tok |-> txn[x].tok]
            ELSE [status |-> "finished", tok |-> NoTok]

-----------------------------------------------------------------------------
(* Transactions begin *)

\* claim_scan_cache_row draws a token.
BeginClaim(x, d) ==
    /\ txn[x].pc = "idle"
    /\ tokens < MaxClaims
    /\ tokens' = tokens + 1
    /\ txn' = [txn EXCEPT ![x] = [pc |-> "row", kind |-> "claim", dir |-> d, tok |-> tokens + 1]]
    /\ UNCHANGED <<row, rowLock, total, batchLock, newTotal, ended>>

\* A worker, a reclaimer or a failed dispatch sets out to end the row's claim.
BeginEnd(x, d, kind) ==
    /\ txn[x].pc = "idle"
    /\ row[d].status = "queued"
    /\ txn' = [txn EXCEPT ![x] = [pc |-> "row", kind |-> kind, dir |-> d, tok |-> row[d].tok]]
    /\ UNCHANGED <<row, rowLock, total, batchLock, newTotal, tokens, ended>>

\* Mutant: the terminal write does not repeat the claim's token and status.
MatchesDirectory(x) == TRUE

\* The UPDATE's condition, on the newest committed version of the row.
Matches(x) ==
    LET r == row[txn[x].dir]
    IN  IF txn[x].kind = "claim" THEN r.status = "finished"
        ELSE r.status = "queued" /\ r.tok = txn[x].tok

-----------------------------------------------------------------------------
(* Statements *)

Step(x, pc) == txn' = [txn EXCEPT ![x].pc = pc]

\* Mutant: a terminal write takes the batch row first and the scan row second.
RowUpdateLast(x) ==
    LET d == txn[x].dir
    IN  /\ txn[x].pc = "row"
        /\ IF txn[x].kind = "end" /\ batchLock # x
           THEN /\ batchLock = None /\ batchLock' = x /\ newTotal' = total
                /\ UNCHANGED <<rowLock, txn>>
           ELSE /\ rowLock[d] = None
                /\ rowLock' = [rowLock EXCEPT ![d] = IF Matches(x) THEN x ELSE None]
                /\ batchLock' = IF batchLock = x /\ ~Matches(x) THEN None ELSE batchLock
                /\ txn' = [txn EXCEPT ![x] =
                             IF Matches(x)
                             THEN [@ EXCEPT !.pc = IF txn[x].kind = "end" THEN "reset" ELSE "batch"]
                             ELSE Idle]
                /\ UNCHANGED newTotal
        /\ UNCHANGED <<row, total, tokens, ended>>

\* UPDATE scan_result_cache ... RETURNING directory; no row: ROLLBACK.
RowUpdate(x) ==
    /\ txn[x].pc = "row"
    /\ rowLock[txn[x].dir] = None
    /\ IF Matches(x)
       THEN /\ rowLock' = [rowLock EXCEPT ![txn[x].dir] = x]
            /\ Step(x, IF txn[x].kind = "end" THEN "reset" ELSE "batch")
       ELSE /\ txn' = [txn EXCEPT ![x] = Idle]
            /\ UNCHANGED rowLock
    /\ UNCHANGED <<row, total, batchLock, newTotal, tokens, ended>>

\* The newest version of total that x can build on once it has the lock.
Current(x) == IF batchLock = x THEN newTotal ELSE total

WriteTotal(x, n) ==
    /\ batchLock \in {None, x}
    /\ batchLock' = x
    /\ newTotal' = n
    /\ UNCHANGED <<row, rowLock, total, tokens, ended>>

\* _bump_import_batch_total_in_tx
Bump(x) ==
    /\ txn[x].pc = "batch" /\ txn[x].kind = "claim"
    /\ WriteTotal(x, Current(x) + 1)
    /\ Step(x, "commit")

\* Mutant: no GREATEST(..., 0).
DecrementUnfloored(x) ==
    /\ txn[x].pc = "batch" /\ txn[x].kind = "compensate"
    /\ WriteTotal(x, Current(x) - 1)
    /\ Step(x, "reset")

\* _decrement_import_batch_total_in_tx
Decrement(x) ==
    /\ txn[x].pc = "batch" /\ txn[x].kind = "compensate"
    /\ WriteTotal(x, IF Current(x) > 0 THEN Current(x) - 1 ELSE 0)
    /\ Step(x, "reset")

\* RESET_IMPORT_BATCH_IF_IDLE_SQL begins: NOT EXISTS on its snapshot.
ResetBegin(x) ==
    /\ txn[x].pc = "reset"
    /\ Step(x, IF /\ Current(x) # 0
                  /\ \A d \in Dirs \ {txn[x].dir} : row[d].status # "queued"
               THEN "zero" ELSE "commit")
    /\ UNCHANGED <<row, rowLock, total, batchLock, newTotal, tokens, ended>>

\* It gets the lock on import_batch; total <> 0 is evaluated again.
ResetWrite(x) ==
    /\ txn[x].pc = "zero"
    /\ WriteTotal(x, 0)
    /\ Step(x, "commit")

\* COMMIT publishes both writes and releases the locks.
Commit(x) ==
    LET d == txn[x].dir
    IN  /\ txn[x].pc = "commit"
        /\ row' = [row EXCEPT ![d] = After(x)]
        /\ rowLock' = [rowLock EXCEPT ![d] = None]
        /\ total' = Current(x)
        /\ batchLock' = IF batchLock = x THEN None ELSE batchLock
        /\ txn' = [txn EXCEPT ![x] = Idle]
        /\ ended' = IF txn[x].kind = "claim" THEN ended
                    ELSE [ended EXCEPT ![txn[x].tok] = @ + 1]
        /\ UNCHANGED <<newTotal, tokens>>

\* A statement raises, or the session dies, also while it waits: ROLLBACK.
Rollback(x) ==
    LET d == txn[x].dir
    IN  /\ txn[x].pc # "idle"
        /\ rowLock' = IF rowLock[d] = x THEN [rowLock EXCEPT ![d] = None] ELSE rowLock
        /\ batchLock' = IF batchLock = x THEN None ELSE batchLock
        /\ txn' = [txn EXCEPT ![x] = Idle]
        /\ UNCHANGED <<row, total, newTotal, tokens, ended>>

-----------------------------------------------------------------------------
\* Finished stands for every status that can be claimed.
Init ==
    /\ row = [d \in Dirs |-> [status |-> "finished", tok |-> NoTok]]
    /\ rowLock = [d \in Dirs |-> None]
    /\ total = 0
    /\ batchLock = None
    /\ newTotal = 0
    /\ txn = [x \in Txns |-> Idle]
    /\ tokens = 0
    /\ ended = [n \in 1 .. MaxClaims |-> 0]

TxnStep(x) ==
    \/ RowUpdate(x)
    \/ Bump(x)
    \/ Decrement(x)
    \/ ResetBegin(x)
    \/ ResetWrite(x)
    \/ Commit(x)

Next ==
    \E x \in Txns :
        \/ \E d \in Dirs : BeginClaim(x, d)
        \/ \E d \in Dirs, kind \in {"end", "compensate"} : BeginEnd(x, d, kind)
        \/ TxnStep(x)
        \/ Rollback(x)

\* A session goes on, and one that waits for a row lock gets it in its turn:
\* PostgreSQL serves the waiters of a lock in order.
FairSpec == Init /\ [][Next]_vars /\ \A x \in Txns : SF_vars(TxnStep(x))

-----------------------------------------------------------------------------
\* Every variable has its type.
TypeOK ==
    /\ row \in [Dirs -> [status : {"queued", "finished"}, tok : 0 .. MaxClaims]]
    /\ rowLock \in [Dirs -> Txns \cup {None}]
    /\ total \in 0 .. MaxClaims
    /\ batchLock \in Txns \cup {None}
    /\ newTotal \in 0 .. MaxClaims
    /\ txn \in [Txns -> [pc   : {"idle", "row", "batch", "reset", "zero", "commit"},
                         kind : {"none", "claim", "end", "compensate"},
                         dir  : Dirs \cup {None},
                         tok  : 0 .. MaxClaims]]
    /\ tokens \in 0 .. MaxClaims
    /\ ended \in [1 .. MaxClaims -> Nat]

\* The race of a worker, a reclaimer and a compensation for one claim has one
\* winner: the loser waits for the row, finds it changed and rolls back.
EndedOnce == \A n \in 1 .. MaxClaims : ended[n] <= 1

\* No statement waits for ever: every transaction locks its scan row before the
\* batch row, so no two of them wait for each other.
TransactionsEnd == \A x \in Txns : (txn[x].pc # "idle") ~> (txn[x].pc = "idle")

Queued == {d \in Dirs : row[d].status = "queued"}

\* A mid-flight dispatch keeps the batch alive: total is never reset below the
\* number of rows that are still queued.
NoPrematureReset == Cardinality(Queued) <= total

\* The batch is over when no row is queued: with no transaction open, total is 0
\* then, however the completions interleaved.
IdleBatchIsReset ==
    (\A x \in Txns : txn[x].pc = "idle") /\ Queued = {} => total = 0

=============================================================================
