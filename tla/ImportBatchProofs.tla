--------------------------- MODULE ImportBatchProofs ---------------------------
(***************************************************************************)
(* A claim is ended by one committed transaction, proved for any rows,     *)
(* sessions and number of claims.  Whoever ends a claim has found its      *)
(* token on the newest version of the row, and keeps the row locked until  *)
(* the commit takes the token off it.                                      *)
(***************************************************************************)
EXTENDS ImportBatch, FiniteSetTheorems, TLAPS

Toks == 1 .. MaxClaims
Written == {"batch", "reset", "zero", "commit"}

TxnType == [pc : {"idle", "row"} \cup Written, kind : {"none", "claim", "end", "compensate"},
            dir : Dirs \cup {None}, tok : 0 .. MaxClaims]

\* The counter has no part in it, so nothing is said of total and newTotal.
Typed ==
    /\ row \in [Dirs -> [status : {"queued", "finished"}, tok : 0 .. MaxClaims]]
    /\ rowLock \in [Dirs -> Txns \cup {None}]
    /\ txn \in [Txns -> TxnType]
    /\ tokens \in 0 .. MaxClaims
    /\ ended \in [Toks -> Nat]

Claiming(x) == txn[x].pc # "idle" /\ txn[x].kind = "claim"
Holding(d, n) == row[d].status = "queued" /\ row[d].tok = n
Live(n) == n \in 1 .. tokens /\ ended[n] = 0

\* A transaction past its first statement has the row, as it found it.
RowsLocked ==
    \A x \in Txns : txn[x].pc # "idle" =>
        /\ txn[x].dir \in Dirs /\ txn[x].kind # "none"
        /\ txn[x].pc \in Written =>
              /\ rowLock[txn[x].dir] = x
              /\ txn[x].kind # "claim" => Holding(txn[x].dir, txn[x].tok)

\* A token that is drawn or in a row has not been ended.
TokensLive ==
    /\ \A x \in Txns : Claiming(x) => Live(txn[x].tok)
    /\ \A d \in Dirs : row[d].status = "queued" => Live(row[d].tok)

\* It is in one place.
TokensApart ==
    /\ \A x, y \in Txns : Claiming(x) /\ Claiming(y) /\ txn[x].tok = txn[y].tok => x = y
    /\ \A x \in Txns, d \in Dirs : Claiming(x) => ~Holding(d, txn[x].tok)
    /\ \A d, e \in Dirs : row[d].status = "queued" /\ Holding(e, row[d].tok) => d = e

NotDrawn == \A n \in Toks : n > tokens => ended[n] = 0

EndInv == Typed /\ RowsLocked /\ TokensLive /\ TokensApart /\ NotDrawn /\ EndedOnce

LEMMA EndInit == Init => EndInv
BY ImportBatchAssumption
   DEF Init, EndInv, Typed, RowsLocked, TokensLive, TokensApart, NotDrawn, EndedOnce, Toks, TxnType, Idle,
       Written, Claiming, Holding, Live, NoTok

(***************************************************************************)
(* Every step preserves the invariant: one step of the proof per action.   *)
(***************************************************************************)
LEMMA EndNext == EndInv /\ [Next]_vars => EndInv'
<1>. SUFFICES ASSUME EndInv, [Next]_vars PROVE EndInv'
  OBVIOUS
<1>. USE ImportBatchAssumption DEF EndInv, Typed, RowsLocked, TokensLive, TokensApart, NotDrawn,
         EndedOnce, Toks, TxnType, Written, Claiming, Holding, Live
<1>1. ASSUME NEW x \in Txns, NEW d \in Dirs, BeginClaim(x, d) PROVE EndInv'
  BY <1>1 DEF BeginClaim
<1>2. ASSUME NEW x \in Txns, NEW d \in Dirs, NEW kind \in {"end", "compensate"}, BeginEnd(x, d, kind)
      PROVE  EndInv'
  BY <1>2 DEF BeginEnd
<1>3. ASSUME NEW x \in Txns, RowUpdate(x) PROVE EndInv'
  <2>1. CASE Matches(x)
    <3>1. PICK pc \in {"reset", "batch"} : txn' = [txn EXCEPT ![x].pc = pc]
      BY <1>3, <2>1 DEF RowUpdate, Step
    <3>2. rowLock' = [rowLock EXCEPT ![txn[x].dir] = x] /\ UNCHANGED <<row, tokens, ended>>
      BY <1>3, <2>1 DEF RowUpdate
    <3>3. txn[x].kind # "claim" => Holding(txn[x].dir, txn[x].tok)
      BY <2>1 DEF Matches
    <3>4. txn[x].pc = "row" /\ rowLock[txn[x].dir] = None
      BY <1>3 DEF RowUpdate
    <3>5. \A y \in Txns : /\ txn'[y].kind = txn[y].kind /\ txn'[y].dir = txn[y].dir
                          /\ txn'[y].tok = txn[y].tok /\ (txn'[y].pc # "idle" <=> txn[y].pc # "idle")
                          /\ y # x => txn'[y].pc = txn[y].pc
      BY <3>1, <3>4
    <3>6. Typed'
      <4>1. rowLock' \in [Dirs -> Txns \cup {None}]
        BY <3>2
      <4>2. pc \in Written
        BY <3>1
      <4>3. txn' \in [Txns -> TxnType]
        <5>1. txn \in [Txns -> TxnType]
          OBVIOUS
        <5>. HIDE DEF EndInv, Written
        <5>2. \A t \in TxnType : [t EXCEPT !.pc = pc] \in TxnType
          BY <4>2
        <5>. HIDE DEF TxnType
        <5>. QED  BY <3>1, <5>1, <5>2
      <4>. QED  BY <3>2, <4>1, <4>3
    <3>7. RowsLocked'
      <4>1. ASSUME NEW y \in Txns, y # x, txn[y].pc \in Written PROVE txn[y].dir # txn[x].dir
        BY <3>4, <4>1
      <4>2. txn[x].dir \in Dirs /\ rowLock'[txn[x].dir] = x
        BY <3>2, <3>4
      <4>3. \A d \in Dirs \ {txn[x].dir} : rowLock'[d] = rowLock[d]
        BY <3>2
      <4>4. \A y \in Txns \ {x} : txn[y].pc \in Written /\ txn[y].dir \in Dirs
                                    => rowLock'[txn[y].dir] = rowLock[txn[y].dir]
        BY <4>1, <4>3
      <4>5. txn[x].kind # "claim" => Holding(txn[x].dir, txn[x].tok)'
        BY <3>2, <3>3, <3>5
      <4>6. \A y \in Txns \ {x} : Holding(txn[y].dir, txn[y].tok)' <=> Holding(txn[y].dir, txn[y].tok)
        BY <3>2, <3>5
      <4>7. \A y \in Txns \ {x} : txn[y].pc # "idle" =>
              /\ txn'[y].dir \in Dirs /\ txn'[y].kind # "none"
              /\ txn'[y].pc \in Written =>
                    /\ rowLock'[txn'[y].dir] = y
                    /\ txn'[y].kind # "claim" => Holding(txn[y].dir, txn[y].tok)'
        BY <3>5, <4>4, <4>6
      <4>. QED  BY <3>4, <3>5, <4>2, <4>5, <4>7
    <3>8. TokensLive' /\ TokensApart' /\ NotDrawn' /\ EndedOnce'
      BY <3>2, <3>5
    <3>. QED  BY <3>6, <3>7, <3>8
  <2>2. CASE ~Matches(x)
    <3>1. txn' = [txn EXCEPT ![x] = Idle] /\ UNCHANGED <<row, rowLock, tokens, ended>>
      BY <1>3, <2>2 DEF RowUpdate
    <3>2. Idle \in TxnType
      BY DEF Idle, NoTok
    <3>3. Typed'
      <4>. HIDE DEF Idle
      <4>. QED  BY <3>1, <3>2
    <3>. QED  BY <3>1, <3>3 DEF Idle
  <2>. QED  BY <2>1, <2>2
<1>4. ASSUME NEW x \in Txns, Bump(x) \/ Decrement(x) \/ ResetBegin(x) \/ ResetWrite(x) PROVE EndInv'
  <2>1. txn[x].pc \in Written /\ UNCHANGED <<row, rowLock, tokens, ended>>
    BY <1>4 DEF Bump, Decrement, ResetBegin, ResetWrite, WriteTotal
  <2>2. PICK pc \in Written : txn' = [txn EXCEPT ![x].pc = pc]
    BY <1>4 DEF Bump, Decrement, ResetBegin, ResetWrite, Step
  <2>. QED  BY <2>1, <2>2
<1>5. ASSUME NEW x \in Txns, Commit(x) PROVE EndInv'
  BY <1>5 DEF Commit, After, Idle, NoTok
<1>6. ASSUME NEW x \in Txns, Rollback(x) PROVE EndInv'
  BY <1>6 DEF Rollback, Idle, NoTok
<1>7. CASE UNCHANGED vars
  BY <1>7 DEF vars
<1>. QED
  <2>. HIDE DEF EndInv
  <2>. QED  BY <1>1, <1>2, <1>3, <1>4, <1>5, <1>6, <1>7 DEF Next, TxnStep

\* What every reachable state satisfies: where a claim token is, and that it is live there.
THEOREM EndInvariant == Init /\ [][Next]_vars => []EndInv
BY EndInit, EndNext, PTL

\* A worker, a reclaimer and a compensation race for one claim: one of them commits its end
\* (the UPDATEs of imports/repository.py repeat the token and the status).
THEOREM ClaimEndedOnce == FairSpec => []EndedOnce
<1>1. EndInv => EndedOnce
  BY DEF EndInv
<1>. QED  BY <1>1, EndInvariant, PTL DEF FairSpec

(***************************************************************************)
(* The counter.  Every claim that is open or counted has drawn a token of  *)
(* its own: the total of the batch, with the claims that have yet to count *)
(* themselves, is at most the number of tokens, in the committed row and   *)
(* in the version that a transaction has written.                          *)
(***************************************************************************)
Open == {n \in 1 .. tokens : \E x \in Txns : Claiming(x) /\ txn[x].tok = n}
Uncounted == {n \in 1 .. tokens : \E x \in Txns : Claiming(x) /\ txn[x].pc # "commit" /\ txn[x].tok = n}

\* Who has written the counter; a claim has done so exactly when it is to commit.
Writer ==
    /\ batchLock \in Txns \cup {None}
    /\ batchLock \in Txns => txn[batchLock].pc \notin {"idle", "row"}
    /\ \A x \in Txns : Claiming(x) => /\ txn[x].pc \in {"row", "batch", "commit"}
                                      /\ txn[x].pc = "commit" <=> batchLock = x

CounterInv ==
    /\ EndInv /\ Writer
    /\ total \in Nat /\ total + Cardinality(Open) <= tokens
    /\ newTotal \in 0 .. MaxClaims
    /\ batchLock # None => newTotal + Cardinality(Uncounted) <= tokens

LEMMA Counts ==
    ASSUME CounterInv
    PROVE  /\ IsFiniteSet(Open) /\ IsFiniteSet(Uncounted) /\ Uncounted \subseteq Open
           /\ Cardinality(Open) \in Nat /\ Cardinality(Uncounted) \in Nat
           /\ Cardinality(Uncounted) <= Cardinality(Open)
           /\ tokens \in 0 .. MaxClaims
<1>1. tokens \in Nat /\ tokens \in 0 .. MaxClaims
    BY ImportBatchAssumption DEF CounterInv, EndInv, Typed
<1>2. IsFiniteSet(1 .. tokens)
    BY <1>1, FS_Interval
<1>3. Open \subseteq 1 .. tokens /\ Uncounted \subseteq Open
    BY DEF Open, Uncounted
<1>4. IsFiniteSet(Open) /\ IsFiniteSet(Uncounted)
    BY <1>2, <1>3, FS_Subset
<1>. QED  BY <1>1, <1>3, <1>4, FS_Subset, FS_CardinalityType

\* A step that lets no claim begin and counts none, and writes the counter only downwards.
LEMMA CountsStand ==
    ASSUME CounterInv, EndInv', Writer', tokens' = tokens, Open' \subseteq Open,
           total' = total,
           newTotal' \in 0 .. MaxClaims,
           batchLock' # None => newTotal' + Cardinality(Uncounted') <= tokens
    PROVE  CounterInv'
<1>1. Cardinality(Open') <= Cardinality(Open) /\ Cardinality(Open') \in Nat
    BY Counts, FS_Subset, FS_CardinalityType
<1>. QED  BY <1>1, Counts DEF CounterInv

\* Each step, and who has the lock of the counter after it.
LEMMA WriterNext == CounterInv /\ EndInv' /\ [Next]_vars => Writer'
<1>. SUFFICES ASSUME CounterInv, EndInv', [Next]_vars PROVE Writer'
    OBVIOUS
<1>. USE ImportBatchAssumption DEF CounterInv, EndInv, Typed, Writer, Claiming
<1>0. Idle.pc = "idle"
    BY DEF Idle
<1>t. \A x \in Txns : txn[x] \in TxnType
    OBVIOUS
<1>1. ASSUME NEW x \in Txns, NEW r, txn' = [txn EXCEPT ![x] = r], r.pc = "row", txn[x].pc = "idle", batchLock' = batchLock
      PROVE  Writer'
    BY <1>1
<1>2. ASSUME NEW x \in Txns, NEW d \in Dirs, BeginClaim(x, d) PROVE Writer'
    BY <1>2, <1>1 DEF BeginClaim
<1>3. ASSUME NEW x \in Txns, NEW d \in Dirs, NEW kind \in {"end", "compensate"}, BeginEnd(x, d, kind) PROVE Writer'
    BY <1>3, <1>1 DEF BeginEnd
<1>4. ASSUME NEW x \in Txns, txn' = [txn EXCEPT ![x] = Idle],
             \/ batchLock' = batchLock /\ batchLock # x
             \/ batchLock' = IF batchLock = x THEN None ELSE batchLock
      PROVE  Writer'
    <2>. HIDE DEF Idle
    <2>. QED  BY <1>0, <1>4
<1>5. ASSUME NEW x \in Txns, RowUpdate(x) PROVE Writer'
    <2>1. CASE Matches(x)
        <3>1. txn[x].pc = "row" /\ batchLock' = batchLock
            BY <1>5 DEF RowUpdate
        <3>2. /\ \A y \in Txns \ {x} : txn'[y] = txn[y]
              /\ txn'[x].kind = txn[x].kind /\ txn'[x].pc = IF txn[x].kind = "end" THEN "reset" ELSE "batch"
            BY <1>5, <2>1, <1>t DEF RowUpdate, Step, TxnType
        <3>3. batchLock # x
            BY <3>1
        <3>. QED  BY <3>1, <3>2, <3>3
    <2>2. CASE ~Matches(x)
        BY <1>4, <1>5, <2>2 DEF RowUpdate
    <2>. QED  BY <2>1, <2>2
<1>6. ASSUME NEW x \in Txns, Bump(x) \/ Decrement(x) \/ ResetBegin(x) \/ ResetWrite(x) PROVE Writer'
    <2>1. PICK pc \in {"commit", "reset", "zero"} : txn' = [txn EXCEPT ![x].pc = pc]
        BY <1>6 DEF Bump, Decrement, ResetBegin, ResetWrite, Step
    <2>2. batchLock' = x \/ (ResetBegin(x) /\ batchLock' = batchLock)
        BY <1>6 DEF Bump, Decrement, ResetBegin, ResetWrite, WriteTotal
    <2>3. batchLock' # batchLock => batchLock = None
        BY <1>6 DEF Bump, Decrement, ResetBegin, ResetWrite, WriteTotal
    <2>4. txn[x].kind = "claim" => pc = "commit" /\ batchLock' = x
        <3>1. ASSUME txn[x].kind = "claim" PROVE Bump(x)
            BY <1>6, <3>1 DEF Decrement, ResetBegin, ResetWrite
        <3>2. ASSUME Bump(x) PROVE txn'[x].pc = "commit" /\ batchLock' = x
            BY <3>2, <1>t DEF Bump, WriteTotal, Step, TxnType
        <3>3. txn'[x].pc = pc
            BY <1>t, <2>1 DEF TxnType
        <3>. QED  BY <3>1, <3>2, <3>3
    <2>5. /\ \A y \in Txns \ {x} : txn'[y] = txn[y]
          /\ txn'[x].pc = pc /\ txn'[x].kind = txn[x].kind
        BY <1>t, <2>1 DEF TxnType
    <2>. QED  BY <2>1, <2>2, <2>3, <2>4, <2>5
<1>7. ASSUME NEW x \in Txns, Commit(x) PROVE Writer'
    BY <1>4, <1>7 DEF Commit
<1>8. ASSUME NEW x \in Txns, Rollback(x) PROVE Writer'
    BY <1>4, <1>8 DEF Rollback
<1>9. CASE UNCHANGED vars
    BY <1>9 DEF vars
<1>. QED  BY <1>2, <1>3, <1>5, <1>6, <1>7, <1>8, <1>9 DEF Next, TxnStep

LEMMA CounterInvNext == CounterInv /\ [Next]_vars => CounterInv'
<1>. SUFFICES ASSUME CounterInv, [Next]_vars PROVE CounterInv'
    OBVIOUS
<1>i. EndInv' /\ Writer'
    BY EndNext, WriterNext DEF CounterInv
<1>c. /\ IsFiniteSet(Open) /\ IsFiniteSet(Uncounted) /\ Uncounted \subseteq Open
      /\ Cardinality(Open) \in Nat /\ Cardinality(Uncounted) \in Nat
      /\ Cardinality(Uncounted) <= Cardinality(Open) /\ tokens \in 0 .. MaxClaims /\ MaxClaims \in Nat
    BY Counts, ImportBatchAssumption
<1>k. /\ total \in Nat /\ total + Cardinality(Open) <= tokens /\ newTotal \in 0 .. MaxClaims
      /\ batchLock # None => newTotal + Cardinality(Uncounted) <= tokens
    BY DEF CounterInv
<1>t. /\ \A x \in Txns : txn[x] \in TxnType
      /\ txn \in [Txns -> TxnType]
    BY DEF CounterInv, EndInv, Typed
<1>1. ASSUME NEW x \in Txns, NEW d \in Dirs, BeginClaim(x, d) PROVE CounterInv'
    <2>1. tokens' = tokens + 1 /\ UNCHANGED <<total, newTotal, batchLock>>
        BY <1>1 DEF BeginClaim
    <2>2. /\ txn'[x].pc = "row" /\ txn'[x].kind = "claim" /\ txn'[x].tok = tokens + 1 /\ txn[x].pc = "idle"
          /\ \A y \in Txns \ {x} : txn'[y] = txn[y]
        BY <1>1, <1>t DEF BeginClaim
    <2>3. \A n \in 1 .. tokens' : n # tokens + 1 => n \in 1 .. tokens
        BY <1>c, <2>1
    <2>4. Open' \subseteq Open \cup {tokens + 1} /\ Uncounted' \subseteq Uncounted \cup {tokens + 1}
        BY <2>2, <2>3 DEF Open, Uncounted, Claiming
    <2>5. /\ Cardinality(Open \cup {tokens + 1}) <= Cardinality(Open) + 1
          /\ Cardinality(Uncounted \cup {tokens + 1}) <= Cardinality(Uncounted) + 1
          /\ IsFiniteSet(Open \cup {tokens + 1}) /\ IsFiniteSet(Uncounted \cup {tokens + 1})
          /\ Cardinality(Open \cup {tokens + 1}) \in Nat /\ Cardinality(Uncounted \cup {tokens + 1}) \in Nat
        <3>1. ASSUME NEW S, IsFiniteSet(S)
              PROVE  /\ Cardinality(S \cup {tokens + 1}) <= Cardinality(S) + 1 /\ IsFiniteSet(S \cup {tokens + 1})
                     /\ Cardinality(S \cup {tokens + 1}) \in Nat
            <4>1. Cardinality(S) \in Nat /\ IsFiniteSet(S \cup {tokens + 1})
                  /\ Cardinality(S \cup {tokens + 1}) \in {Cardinality(S), Cardinality(S) + 1}
                BY <3>1, FS_AddElement, FS_CardinalityType
            <4>. QED  BY <4>1
        <3>. QED  BY <1>c, <3>1
    <2>6. /\ Cardinality(Open') <= Cardinality(Open) + 1 /\ Cardinality(Open') \in Nat
          /\ Cardinality(Uncounted') <= Cardinality(Uncounted) + 1 /\ Cardinality(Uncounted') \in Nat
        BY <1>c, <2>4, <2>5, FS_Subset, FS_CardinalityType
    <2>. QED  BY <1>i, <1>c, <1>k, <2>1, <2>6 DEF CounterInv
<1>2. ASSUME NEW x \in Txns, UNCHANGED <<total, newTotal, batchLock, tokens>>,
             \A y \in Txns : \/ txn'[y] = txn[y]
                             \/ txn'[y].kind # "claim" \/ txn'[y].pc = "idle"
                             \/ /\ txn'[y].kind = txn[y].kind /\ txn'[y].tok = txn[y].tok
                                /\ txn[y].pc \notin {"idle", "commit"}
      PROVE  CounterInv'
    <2>1. Open' \subseteq Open /\ Uncounted' \subseteq Uncounted
        BY <1>2 DEF Open, Uncounted, Claiming
    <2>2. Cardinality(Uncounted') <= Cardinality(Uncounted) /\ Cardinality(Uncounted') \in Nat
        BY <1>c, <2>1, FS_Subset, FS_CardinalityType
    <2>3. batchLock' # None => newTotal' + Cardinality(Uncounted') <= tokens
        BY <1>2, <1>c, <1>k, <2>2
    <2>. QED  BY <1>i, <1>2, <1>k, <2>1, <2>3, CountsStand
<1>3. ASSUME NEW x \in Txns, NEW d \in Dirs, NEW kind \in {"end", "compensate"}, BeginEnd(x, d, kind) PROVE CounterInv'
    <2>1. txn'[x].kind # "claim" /\ \A y \in Txns \ {x} : txn'[y] = txn[y]
        BY <1>3, <1>t DEF BeginEnd
    <2>. QED  BY <1>2, <1>3, <2>1 DEF BeginEnd
<1>4. ASSUME NEW x \in Txns, RowUpdate(x) PROVE CounterInv'
    <2>1. /\ \A y \in Txns \ {x} : txn'[y] = txn[y]
          /\ \/ txn'[x].pc = "idle"
             \/ txn'[x].kind = txn[x].kind /\ txn'[x].tok = txn[x].tok /\ txn[x].pc = "row"
        BY <1>4, <1>t DEF RowUpdate, Step, Idle, TxnType
    <2>. QED  BY <1>2, <1>4, <2>1 DEF RowUpdate
<1>5. ASSUME NEW x \in Txns, ResetBegin(x) PROVE CounterInv'
    <2>1. /\ \A y \in Txns \ {x} : txn'[y] = txn[y]
          /\ txn'[x].kind = txn[x].kind /\ txn'[x].tok = txn[x].tok /\ txn[x].pc = "reset"
        BY <1>5, <1>t DEF ResetBegin, Step, TxnType
    <2>. QED  BY <1>2, <1>5, <2>1 DEF ResetBegin
<1>6. ASSUME NEW x \in Txns, Decrement(x) \/ ResetWrite(x) PROVE CounterInv'
    <2>1. /\ \A y \in Txns \ {x} : txn'[y] = txn[y]
          /\ txn'[x].kind = txn[x].kind /\ txn'[x].tok = txn[x].tok
          /\ txn[x].pc \notin {"idle", "commit"} /\ txn[x].kind # "claim"
        <3>1. txn[x].pc \in {"batch", "zero"} /\ \E pc \in {"reset", "commit"} : txn' = [txn EXCEPT ![x].pc = pc]
            BY <1>6 DEF Decrement, ResetWrite, Step
        <3>2. txn[x].kind # "claim"
            BY <1>6 DEF Decrement, ResetWrite, CounterInv, Writer, Claiming
        <3>. QED  BY <1>t, <3>1, <3>2 DEF TxnType
    <2>2. Open' \subseteq Open /\ Uncounted' \subseteq Uncounted /\ tokens' = tokens
        BY <1>6, <2>1 DEF Open, Uncounted, Claiming, Decrement, ResetWrite, WriteTotal
    <2>3. Cardinality(Uncounted') <= Cardinality(Uncounted) /\ Cardinality(Uncounted') \in Nat
        BY <1>c, <2>2, FS_Subset, FS_CardinalityType
    <2>4. total' = total /\ newTotal' \in Nat /\ newTotal' <= Current(x)
        BY <1>6, <1>k, <1>c DEF Decrement, ResetWrite, WriteTotal, Current
    <2>5. batchLock \in {None, x} /\ Current(x) \in Nat /\ Current(x) + Cardinality(Uncounted) <= tokens
        BY <1>6, <1>c, <1>k, ImportBatchAssumption DEF Decrement, ResetWrite, WriteTotal, Current
    <2>6. newTotal' \in 0 .. MaxClaims /\ newTotal' + Cardinality(Uncounted') <= tokens
        BY <1>c, <2>3, <2>4, <2>5
    <2>. QED  BY <1>i, <2>2, <2>4, <2>6, CountsStand
<1>7. ASSUME NEW x \in Txns, Bump(x) PROVE CounterInv'
    <2>1. /\ \A y \in Txns \ {x} : txn'[y] = txn[y]
          /\ txn'[x].kind = "claim" /\ txn'[x].tok = txn[x].tok /\ txn[x].kind = "claim"
          /\ txn[x].pc = "batch" /\ txn'[x].pc = "commit" /\ tokens' = tokens
        BY <1>7, <1>t DEF Bump, Step, WriteTotal, TxnType
    <2>2. batchLock = None /\ newTotal' = total + 1 /\ total' = total
        BY <1>7, <2>1, ImportBatchAssumption DEF Bump, WriteTotal, Current, CounterInv, Writer, Claiming
    <2>3. txn[x].tok \in Open
        BY <2>1 DEF CounterInv, EndInv, TokensLive, Live, Claiming, Open
    <2>4. Open' \subseteq Open /\ Uncounted' \subseteq Open \ {txn[x].tok}
        BY <2>1 DEF Open, Uncounted, CounterInv, EndInv, TokensApart, Claiming
    <2>5. /\ IsFiniteSet(Open \ {txn[x].tok}) /\ Cardinality(Open \ {txn[x].tok}) = Cardinality(Open) - 1
        BY <1>c, <2>3, FS_RemoveElement
    <2>6. Cardinality(Uncounted') <= Cardinality(Open) - 1 /\ Cardinality(Uncounted') \in Nat
        BY <2>4, <2>5, FS_Subset, FS_CardinalityType
    <2>7. newTotal' \in 0 .. MaxClaims /\ newTotal' + Cardinality(Uncounted') <= tokens
        BY <1>c, <1>k, <2>2, <2>6
    <2>. QED  BY <1>i, <2>1, <2>2, <2>4, <2>7, CountsStand
<1>8. ASSUME NEW x \in Txns, Commit(x) PROVE CounterInv'
    <2>1. /\ \A y \in Txns \ {x} : txn'[y] = txn[y]
          /\ txn'[x].pc = "idle" /\ txn[x].pc = "commit" /\ tokens' = tokens /\ newTotal' = newTotal
          /\ total' = Current(x) /\ batchLock' = IF batchLock = x THEN None ELSE batchLock
        BY <1>8, <1>t DEF Commit, Idle
    <2>2. Open' \subseteq Open /\ Uncounted' \subseteq Uncounted
        BY <2>1 DEF Open, Uncounted, Claiming
    <2>3. /\ Cardinality(Open') <= Cardinality(Open) /\ Cardinality(Open') \in Nat
          /\ Cardinality(Uncounted') <= Cardinality(Uncounted) /\ Cardinality(Uncounted') \in Nat
        BY <1>c, <2>2, FS_Subset, FS_CardinalityType
    <2>4. CASE batchLock # x
        BY <1>i, <1>c, <1>k, <2>1, <2>3, <2>4 DEF Current, CounterInv
    <2>5. CASE batchLock = x
        <3>1. Open' \subseteq Uncounted
            BY <2>1, <2>5 DEF Open, Uncounted, Claiming, CounterInv, Writer
        <3>2. Cardinality(Open') <= Cardinality(Uncounted)
            BY <1>c, <3>1, FS_Subset
        <3>3. total' = newTotal /\ batchLock' = None /\ batchLock # None
            BY <2>1, <2>5, ImportBatchAssumption DEF Current
        <3>. QED  BY <1>i, <1>c, <1>k, <2>1, <2>3, <3>2, <3>3 DEF CounterInv
    <2>. QED  BY <2>4, <2>5
<1>9. ASSUME NEW x \in Txns, Rollback(x) PROVE CounterInv'
    <2>1. /\ \A y \in Txns \ {x} : txn'[y] = txn[y]
          /\ txn'[x].pc = "idle" /\ UNCHANGED <<tokens, total, newTotal>>
          /\ batchLock' = IF batchLock = x THEN None ELSE batchLock
        BY <1>9, <1>t DEF Rollback, Idle
    <2>2. Open' \subseteq Open /\ Uncounted' \subseteq Uncounted
        BY <2>1 DEF Open, Uncounted, Claiming
    <2>3. Cardinality(Uncounted') <= Cardinality(Uncounted) /\ Cardinality(Uncounted') \in Nat
        BY <1>c, <2>2, FS_Subset, FS_CardinalityType
    <2>4. batchLock' # None => newTotal' + Cardinality(Uncounted') <= tokens
        BY <1>c, <1>k, <2>1, <2>3
    <2>. QED  BY <1>i, <1>k, <2>1, <2>2, <2>4, CountsStand
<1>10. CASE UNCHANGED vars
    <2>1. Open' = Open /\ Uncounted' = Uncounted
        BY <1>10 DEF vars, Open, Uncounted, Claiming
    <2>. QED  BY <1>i, <1>k, <1>10, <2>1 DEF vars, CounterInv
<1>. QED  BY <1>1, <1>3, <1>4, <1>5, <1>6, <1>7, <1>8, <1>9, <1>10 DEF Next, TxnStep

\* Every reachable state is well typed; the counter is never over the number of claims drawn
\* so far, and so within its type, and never negative: each claim counts itself once, under
\* the lock of the batch row (the bump and the floored decrement of imports/repository.py).
THEOREM CounterTyped == FairSpec => []TypeOK
<1>1. Init => CounterInv
    <2>. SUFFICES ASSUME Init PROVE CounterInv
        OBVIOUS
    <2>1. Open = {} /\ Uncounted = {}
        BY DEF Init, Open, Uncounted
    <2>. QED  BY <2>1, EndInit, FS_EmptySet, ImportBatchAssumption DEF Init, CounterInv, Writer, Claiming, Idle
<1>2. CounterInv => TypeOK
    BY Counts, ImportBatchAssumption DEF CounterInv, EndInv, Typed, Writer, TypeOK, TxnType, Written, Toks
<1>. QED  BY <1>1, <1>2, CounterInvNext, PTL DEF FairSpec

================================================================================
