-------------------------- MODULE ScanImportProofs --------------------------
(***************************************************************************)
(* TLAPS proofs about ScanImport, for any number of directories, claims    *)
(* and workers.                                                            *)
(***************************************************************************)
EXTENDS ScanImport, TLAPS

\* A claim is known: drawn, and made on directory d.
ClaimOn(t, d) == handler[t].pc # "unused" /\ handler[t].dir = d

\* A token in a row is a known claim on that row, and the row is queued.
RowTokens ==
    \A d \in Dirs : cache[d].tok # None
        => cache[d].status = "queued" /\ ClaimOn(cache[d].tok, d)

\* Messages carry known claims.
MessageTokens == \A m \in msgs : ClaimOn(m.tok, m.dir)

\* A claim that has passed begin_manual_scan_worker has left its mark on the
\* row, for as long as the row carries it.
WorkerTokens ==
    \A w \in Workers : worker[w].pc # "idle"
        => /\ ClaimOn(worker[w].tok, worker[w].dir)
           /\ cache[worker[w].dir].tok = worker[w].tok
                => cache[worker[w].dir].started # "null"

\* So has a claim whose import succeeded.
CopiedTokens ==
    \A d \in Dirs, t \in Tokens : <<d, t>> \in copied
        => /\ ClaimOn(t, d)
           /\ cache[d].tok = t => cache[d].started # "null"

\* What a worker's position says about its import.
WorkerCopies ==
    \A w \in Workers :
        /\ worker[w].pc \in {"began", "copying"} => <<worker[w].dir, worker[w].tok>> \notin copied
        /\ worker[w].pc = "copied" => <<worker[w].dir, worker[w].tok>> \in copied

\* The rows a scan will write carry no claim; an imported one of a user's claim
\* is real, and its directory cannot have been claimed since the scan read it.
PairRows ==
    \A d \in Dirs :
        /\ scan.pairs[d].tok = None
        /\ scan.pairs[d].status = "imported" /\ scan.pairs[d].media # ByScan
            => /\ <<d, scan.pairs[d].media>> \in copied
               /\ cache[d].status \in {"imported", "absent"}

\* The inductive invariant.
Inv ==
    /\ TypeOK
    /\ RowTokens
    /\ MessageTokens
    /\ WorkerTokens
    /\ CopiedTokens
    /\ WorkerCopies
    /\ PairRows
    /\ SingleWorkerPerClaim
    /\ ImportedRowsAreReal

-----------------------------------------------------------------------------
(* Types *)

\* What the rows the code writes look like.
LEMMA PlainRow ==
    ASSUME NEW s \in Status, NEW m \in Tokens \cup {None, ByScan}
    PROVE  /\ Plain(s, m) \in Row
           /\ Plain(s, m).status = s
           /\ Plain(s, m).tok = None
           /\ Plain(s, m).media = m
BY DEF Plain, Row, Stamp

\* The deleted and the failed row carry no claim.
LEMMA FixedRows ==
    /\ Absent \in Row /\ Absent.status = "absent" /\ Absent.tok = None
    /\ Failed \in Row /\ Failed.status = "failed" /\ Failed.tok = None
BY PlainRow DEF Absent, Failed, Status

\* A legacy row is queued without a claim.
LEMMA LegacyRow ==
    ASSUME NEW r \in LegacyRows
    PROVE  r \in Row /\ r.status = "queued" /\ r.tok = None
BY DEF LegacyRows, Row, Status, Stamp

\* A claimed row is queued under its claim.
LEMMA ClaimedRow ==
    ASSUME NEW t \in Tokens
    PROVE  /\ Claimed(t) \in Row
           /\ Claimed(t).status = "queued"
           /\ Claimed(t).tok = t
BY DEF Claimed, Row, Status, Stamp

\* Renewing a stamp changes that stamp only.
LEMMA StampedRow ==
    ASSUME NEW r \in Row, NEW at \in Stamp
    PROVE  /\ WithQueuedAt(r, at) \in Row
           /\ WithQueuedAt(r, at).status = r.status
           /\ WithQueuedAt(r, at).tok = r.tok
           /\ WithQueuedAt(r, at).media = r.media
           /\ WithQueuedAt(r, at).started = r.started
           /\ WithStarted(r, at) \in Row
           /\ WithStarted(r, at).status = r.status
           /\ WithStarted(r, at).tok = r.tok
           /\ WithStarted(r, at).media = r.media
           /\ WithStarted(r, at).started = at
BY DEF WithQueuedAt, WithStarted, Row

\* Initially every variable has its type.
LEMMA InitType == Init => TypeOK
<1> SUFFICES ASSUME Init PROVE TypeOK
  OBVIOUS
<1>1. cache \in [Dirs -> Row]
  BY PlainRow, LegacyRow DEF Init, Status
<1>2. NoRows \in [Dirs -> Row]
  BY FixedRows DEF NoRows
<1> QED
  BY <1>1, <1>2 DEF Init, TypeOK, Idle, NoSweep, NoScan

\* The claim and dispatch steps of a request keep the types.
LEMMA ApiType ==
    ASSUME TypeOK, NEW t \in Tokens, ApiStep(t)
    PROVE  TypeOK'
<1>1. ASSUME NEW d \in Dirs, Claim(d, t) PROVE TypeOK'
  BY <1>1, ClaimedRow DEF TypeOK, Claim, ignoreVars
<1>2. CASE Dispatch(t)
  BY <1>2 DEF TypeOK, Dispatch, ignoreVars, Message
<1>3. CASE DispatchFails(t)
  BY <1>3 DEF TypeOK, DispatchFails, ignoreVars, Message
<1>4. CASE Compensate(t)
  BY <1>4, FixedRows DEF TypeOK, Compensate, ignoreVars
<1>5. CASE HandlerAbort(t)
  BY <1>5 DEF TypeOK, HandlerAbort, ignoreVars
<1> QED
  BY <1>1, <1>2, <1>3, <1>4, <1>5 DEF ApiStep

\* So do the steps of a worker.
LEMMA WorkerType ==
    ASSUME TypeOK, NEW w \in Workers, WorkerStep(w)
    PROVE  TypeOK'
<1>1. ASSUME NEW m \in msgs, Deliver(w, m) PROVE TypeOK'
  <2> m.dir \in Dirs /\ m.tok \in Tokens
    BY DEF TypeOK, Message
  <2>1. cache' \in [Dirs -> Row]
    BY <1>1, StampedRow DEF TypeOK, Deliver, Stamp
  <2>2. \/ worker' = worker
        \/ worker' = [worker EXCEPT ![w] = [pc |-> "began", dir |-> m.dir, tok |-> m.tok]]
    BY <1>1 DEF Deliver
  <2>3. msgs' \subseteq msgs /\ UNCHANGED <<ignored, ignoring, handler, sweep, scan, copied>>
    BY <1>1 DEF Deliver, ignoreVars
  <2> QED
    BY <2>1, <2>2, <2>3 DEF TypeOK
<1>2. CASE Validate(w)
  BY <1>2 DEF TypeOK, Validate, Goto, ignoreVars
<1>3. CASE CopyOk(w)
  BY <1>3 DEF TypeOK, CopyOk, Goto, ignoreVars
<1>4. CASE CopyNotOk(w)
  BY <1>4, FixedRows DEF TypeOK, CopyNotOk, FailManual, Goto, ignoreVars
<1>5. CASE ResolveRaises(w)
  BY <1>5 DEF TypeOK, ResolveRaises, Goto, ignoreVars
<1>6. CASE Complete(w)
  <2> worker[w].dir \in Dirs /\ worker[w].tok \in Tokens
    BY <1>6 DEF TypeOK, Complete
  <2>1. cache' \in [Dirs -> Row]
    BY <1>6, PlainRow DEF TypeOK, Complete, Status
  <2>2. PICK pc \in {"followup", "except"} : Goto(w, pc)
    BY <1>6 DEF Complete
  <2> QED
    BY <1>6, <2>1, <2>2 DEF TypeOK, Complete, Goto, ignoreVars
<1>7. CASE Followup(w)
  <2>1. \/ worker' = [worker EXCEPT ![w] = Idle]
        \/ worker' = [worker EXCEPT ![w].pc = "except"]
    BY <1>7 DEF Followup, Goto
  <2>2. worker[w].pc # "idle" /\ UNCHANGED <<cache, ignored, ignoring, handler, msgs, sweep, scan, copied>>
    BY <1>7 DEF Followup, ignoreVars
  <2>3. CASE worker' = [worker EXCEPT ![w] = Idle]
    BY <2>2, <2>3 DEF TypeOK, Idle
  <2>4. CASE worker' = [worker EXCEPT ![w].pc = "except"]
    BY <2>2, <2>4 DEF TypeOK
  <2> QED
    BY <2>1, <2>3, <2>4
<1>8. CASE TaskExcept(w)
  BY <1>8, FixedRows DEF TypeOK, TaskExcept, FailManual, Idle, ignoreVars
<1>9. CASE WorkerAbort(w)
  BY <1>9 DEF TypeOK, WorkerAbort, Idle, ignoreVars
<1> QED
  BY <1>1, <1>2, <1>3, <1>4, <1>5, <1>6, <1>7, <1>8, <1>9 DEF WorkerStep

\* So does a reclaim pass.
LEMMA SweepType ==
    ASSUME TypeOK, NEW p \in Sweepers, SweepStep(p) \/ SweepAbort(p)
    PROVE  TypeOK'
<1>0. NoSweep \in [pc : {"idle"}, rows : SUBSET SnapRow]
      /\ [NoSweep EXCEPT !.pc = "between"] \in [pc : {"between"}, rows : SUBSET SnapRow]
  BY DEF NoSweep
<1>1. CASE SweepQueuedSelect(p)
  <2> DEFINE rows == {[dir |-> d, tok |-> cache[d].tok, at |-> cache[d].queuedAt] :
                        d \in {e \in QueuedIn(cache) : cache[e].started = "null" /\ cache[e].queuedAt # "fresh"}}
  <2>1. rows \subseteq SnapRow
    BY DEF TypeOK, QueuedIn, SnapRow, Row
  <2>2. sweep' = [sweep EXCEPT ![p] = [pc   |-> IF rows = {} THEN "between" ELSE "queued",
                                          rows |-> rows]]
    BY <1>1 DEF SweepQueuedSelect
  <2> HIDE DEF rows
  <2> QED
    BY <1>1, <2>1, <2>2 DEF TypeOK, SweepQueuedSelect, jobVars, ignoreVars
<1>2. CASE SweepQueuedUpdate(p)
  <2>1. cache' \in [Dirs -> Row]
    BY <1>2, FixedRows, StampedRow DEF TypeOK, SweepQueuedUpdate, Stamp
  <2> QED
    BY <1>0, <1>2, <2>1 DEF TypeOK, SweepQueuedUpdate, jobVars, ignoreVars
<1>3. CASE SweepStartedSelect(p)
  <2> DEFINE rows == {[dir |-> d, tok |-> cache[d].tok, at |-> cache[d].started] :
                        d \in {e \in QueuedIn(cache) : cache[e].started \in {"bad", "stale"}}}
  <2>1. rows \subseteq SnapRow
    BY DEF TypeOK, QueuedIn, SnapRow, Row
  <2>2. sweep' = [sweep EXCEPT ![p] = [pc   |-> IF rows = {} THEN "idle" ELSE "started",
                                          rows |-> rows]]
    BY <1>3 DEF SweepStartedSelect
  <2> HIDE DEF rows
  <2> QED
    BY <1>3, <2>1, <2>2 DEF TypeOK, SweepStartedSelect, jobVars, ignoreVars
<1>4. CASE SweepStartedUpdate(p)
  <2>1. cache' \in [Dirs -> Row]
    BY <1>4, FixedRows, StampedRow DEF TypeOK, SweepStartedUpdate, Stamp
  <2> QED
    BY <1>0, <1>4, <2>1 DEF TypeOK, SweepStartedUpdate, jobVars, ignoreVars
<1>5. CASE SweepAbort(p)
  BY <1>0, <1>5 DEF TypeOK, SweepAbort, jobVars, ignoreVars
<1> QED
  BY <1>1, <1>2, <1>3, <1>4, <1>5 DEF SweepStep

\* So does a library scan.
LEMMA ScanType ==
    ASSUME TypeOK, ScanStep
    PROVE  TypeOK'
<1>0. NoRows \in [Dirs -> Row]
  BY FixedRows DEF NoRows
<1>1. CASE ScanBegin
  BY <1>0, <1>1 DEF TypeOK, ScanBegin, NoScan, jobVars, ignoreVars
<1>2. CASE ScanReadTerminal
  <2>1. PICK active \in SUBSET Dirs :
           scan' = [NoScan EXCEPT !.pc = "import", !.todo = active, !.pairs = Carried(active)]
    BY <1>2 DEF ScanReadTerminal
  <2>2. Carried(active) \in [Dirs -> Row]
    BY FixedRows DEF Carried, TypeOK
  <2> QED
    BY <1>2, <2>1, <2>2 DEF TypeOK, ScanReadTerminal, NoScan, jobVars, ignoreVars
<1>3. ASSUME NEW d \in Dirs, ScanItem(d) PROVE TypeOK'
  <2>1. {Plain("pending", None), Failed, Plain("imported", ByScan)} \subseteq Row
    BY PlainRow, FixedRows DEF Status
  <2>2. PICK r \in Row : scan' = [scan EXCEPT !.todo = @ \ {d}, !.pairs = [@ EXCEPT ![d] = r]]
    BY <1>3, <2>1 DEF ScanItem
  <2>3. scan' = [pc |-> scan.pc, ignored |-> scan.ignored, todo |-> scan.todo \ {d},
                 pairs |-> [scan.pairs EXCEPT ![d] = r]]
    BY <2>2 DEF TypeOK
  <2> QED
    BY <1>3, <2>3 DEF TypeOK, ScanItem, jobVars, ignoreVars
<1>4. CASE ScanWriteback
  BY <1>0, <1>4 DEF TypeOK, ScanWriteback, NoScan, jobVars, ignoreVars
<1>5. CASE ScanAbort
  BY <1>0, <1>5 DEF TypeOK, ScanAbort, NoScan, jobVars, ignoreVars
<1> QED
  BY <1>1, <1>2, <1>3, <1>4, <1>5 DEF ScanStep

\* So do the passing of time and an ignore request.
LEMMA RowType ==
    ASSUME TypeOK, NEW d \in Dirs, RowStep(d)
    PROVE  TypeOK'
<1>1. CASE AgeQueued(d)
  BY <1>1, StampedRow DEF TypeOK, AgeQueued, Stamp, jobVars, ignoreVars
<1>2. CASE AgeStarted(d)
  BY <1>2, StampedRow DEF TypeOK, AgeStarted, Stamp, jobVars, ignoreVars
<1>3. CASE IgnoreAdd(d)
  BY <1>3 DEF TypeOK, IgnoreAdd, jobVars
<1>4. CASE IgnoreDelete(d)
  BY <1>4, FixedRows DEF TypeOK, IgnoreDelete, jobVars
<1>5. CASE IgnoreAbort(d)
  BY <1>5 DEF TypeOK, IgnoreAbort, jobVars
<1> QED
  BY <1>1, <1>2, <1>3, <1>4, <1>5 DEF RowStep

\* Every step keeps the types.
LEMMA NextType == TypeOK /\ [Next]_vars => TypeOK'
<1> SUFFICES ASSUME TypeOK, [Next]_vars PROVE TypeOK'
  OBVIOUS
<1>1. ASSUME NEW m \in msgs, LoseMessage(m) PROVE TypeOK'
  BY <1>1 DEF TypeOK, LoseMessage, ignoreVars
<1>2. CASE ClearCache
  BY <1>2, FixedRows DEF TypeOK, ClearCache, jobVars, ignoreVars
<1>3. CASE UNCHANGED vars
  BY <1>3 DEF TypeOK, vars
<1> QED
  BY <1>1, <1>2, <1>3, ApiType, WorkerType, SweepType, ScanType, RowType DEF Next

\* Every variable keeps its type in every behaviour.
THEOREM TypeCorrect == Spec => []TypeOK
BY InitType, NextType, PTL DEF Spec

-----------------------------------------------------------------------------
(* The inductive invariant *)

\* Initially there is no claim and nothing was imported.
LEMMA InitInv == Init => Inv
<1> SUFFICES ASSUME Init PROVE Inv
  OBVIOUS
<1>1. TypeOK
  BY InitType
<1>2. \A d \in Dirs : cache[d].tok = None /\ cache[d].status \in {"pending", "queued"}
  BY PlainRow, LegacyRow DEF Init, Status
<1>3. \A d \in Dirs : scan.pairs[d].tok = None /\ scan.pairs[d].status = "absent"
  BY FixedRows DEF Init, NoScan, NoRows
<1>4. \A w \in Workers : worker[w].pc = "idle"
  BY DEF Init, Idle
<1> QED
  BY <1>1, <1>2, <1>3, <1>4 DEF Init, Inv, RowTokens, MessageTokens, WorkerTokens,
     CopiedTokens, WorkerCopies, PairRows, SingleWorkerPerClaim, ImportedRowsAreReal

\* How a row changes in the steps that neither claim nor import: not at all; a
\* queued row fails; the row is deleted; a stamp is renewed.
RowMoves(d) ==
    \/ cache'[d] = cache[d]
    \/ cache[d].status = "queued" /\ cache'[d] = Failed
    \/ cache'[d] = Absent
    \/ /\ cache'[d].status = cache[d].status
       /\ cache'[d].tok = cache[d].tok
       /\ cache'[d].media = cache[d].media
       /\ cache[d].started # "null" => cache'[d].started # "null"

\* How a worker changes in those steps: it ends, or goes on under its claim
\* without coming closer to having imported.
WorkerMoves(w) ==
    \/ worker'[w] = worker[w]
    \/ worker'[w].pc = "idle"
    \/ /\ worker[w].pc # "idle"
       /\ worker'[w].dir = worker[w].dir
       /\ worker'[w].tok = worker[w].tok
       /\ worker'[w].pc \in {"began", "copying"} => worker[w].pc \in {"began", "copying"}
       /\ worker'[w].pc # "copied"

\* How a row a scan will write changes.
PairMoves(d) ==
    \/ scan'.pairs[d] = scan.pairs[d]
    \/ /\ scan'.pairs[d].tok = None
       /\ scan'.pairs[d].status = "imported" => scan'.pairs[d].media = ByScan

\* A step made of such moves, in which no claim is forgotten and only known
\* claims are sent, keeps the invariant.
LEMMA QuietStep ==
    ASSUME Inv, TypeOK',
           \A d \in Dirs : RowMoves(d) /\ PairMoves(d),
           \A w \in Workers : WorkerMoves(w),
           \A t \in Tokens, d \in Dirs : ClaimOn(t, d) => ClaimOn(t, d)',
           \A m \in msgs' : ClaimOn(m.tok, m.dir),
           copied' = copied
    PROVE  Inv'
<1> USE DEF Inv, ClaimOn
<1>0. \A d \in Dirs : cache[d] \in Row /\ cache'[d] \in Row
  BY DEF TypeOK
<1>1. RowTokens'
  <2> SUFFICES ASSUME NEW d \in Dirs, cache'[d].tok # None
               PROVE  (cache[d].status = "queued" /\ ClaimOn(cache[d].tok, d))'
    BY DEF RowTokens
  <2>1. cache'[d].tok = cache[d].tok /\ cache'[d].status = cache[d].status
    BY FixedRows DEF RowMoves
  <2>2. cache[d].tok \in Tokens
    BY <1>0, <2>1 DEF Row
  <2> QED
    BY <2>1, <2>2 DEF RowTokens
<1>2. MessageTokens'
  BY DEF MessageTokens, TypeOK, Message
<1>3. ASSUME NEW d \in Dirs, NEW t \in Tokens, cache'[d].tok = t
      PROVE  /\ cache[d].tok = t
             /\ cache[d].started # "null" => cache'[d].started # "null"
  BY <1>3, FixedRows, ScanImportAssumption DEF RowMoves
<1>4. WorkerTokens'
  <2> SUFFICES ASSUME NEW w \in Workers, worker'[w].pc # "idle"
               PROVE  (/\ ClaimOn(worker[w].tok, worker[w].dir)
                       /\ cache[worker[w].dir].tok = worker[w].tok
                            => cache[worker[w].dir].started # "null")'
    BY DEF WorkerTokens
  <2>1. worker[w].pc # "idle" /\ worker'[w].dir = worker[w].dir /\ worker'[w].tok = worker[w].tok
    BY DEF WorkerMoves
  <2>2. worker[w].dir \in Dirs /\ worker[w].tok \in Tokens
    BY <2>1 DEF TypeOK
  <2>3. ClaimOn(worker[w].tok, worker[w].dir)'
    BY <2>1, <2>2 DEF WorkerTokens
  <2>4. cache[worker[w].dir].tok = worker[w].tok => cache[worker[w].dir].started # "null"
    BY <2>1 DEF WorkerTokens
  <2> QED
    BY <1>3, <2>1, <2>2, <2>3, <2>4
<1>5. CopiedTokens'
  <2> SUFFICES ASSUME NEW d \in Dirs, NEW t \in Tokens, <<d, t>> \in copied
               PROVE  (ClaimOn(t, d) /\ (cache[d].tok = t => cache[d].started # "null"))'
    BY DEF CopiedTokens
  <2>1. ClaimOn(t, d)'
    BY DEF CopiedTokens
  <2> QED
    BY <1>3, <2>1 DEF CopiedTokens
<1>6. WorkerCopies'
  BY DEF WorkerCopies, WorkerMoves
<1>7. PairRows'
  <2> SUFFICES ASSUME NEW d \in Dirs
               PROVE  /\ scan'.pairs[d].tok = None
                      /\ scan'.pairs[d].status = "imported" /\ scan'.pairs[d].media # ByScan
                           => /\ <<d, scan'.pairs[d].media>> \in copied'
                              /\ cache'[d].status \in {"imported", "absent"}
    BY DEF PairRows
  <2>1. cache[d].status \in {"imported", "absent"} => cache'[d].status \in {"imported", "absent"}
    BY FixedRows DEF RowMoves
  <2> QED
    BY <2>1 DEF PairRows, PairMoves
<1>8. SingleWorkerPerClaim'
  BY DEF SingleWorkerPerClaim, WorkerMoves
<1>9. ImportedRowsAreReal'
  BY FixedRows DEF ImportedRowsAreReal, RowMoves
<1> QED
  BY <1>1, <1>2, <1>4, <1>5, <1>6, <1>7, <1>8, <1>9

\* A claim takes a token nobody has and a row no scan carries as imported.
LEMMA ClaimInv ==
    ASSUME Inv, NEW t \in Tokens, NEW d \in Dirs, Claim(d, t), TypeOK'
    PROVE  Inv'
<1> USE DEF Inv, ClaimOn
<1>1. /\ cache' = [cache EXCEPT ![d] = Claimed(t)]
      /\ handler' = [handler EXCEPT ![t] = [pc |-> "claimed", dir |-> d]]
      /\ handler[t].pc = "unused"
      /\ cache[d].status \in {"pending", "failed"}
      /\ UNCHANGED <<msgs, worker, scan, copied>>
  BY DEF Claim, Claimable
<1>2. \A e \in Dirs, u \in Tokens : ClaimOn(u, e) => u # t /\ ClaimOn(u, e)'
  BY <1>1 DEF TypeOK
<1>3. \A e \in Dirs : e # d => cache'[e] = cache[e]
  BY <1>1 DEF TypeOK
<1>4. cache'[d].status = "queued" /\ cache'[d].tok = t /\ ClaimOn(t, d)'
  BY <1>1, ClaimedRow DEF TypeOK
<1>5. RowTokens'
  <2> SUFFICES ASSUME NEW e \in Dirs, cache'[e].tok # None, e # d
               PROVE  (cache[e].status = "queued" /\ ClaimOn(cache[e].tok, e))'
    BY <1>4 DEF RowTokens
  <2>1. cache[e].tok \in Tokens /\ cache'[e] = cache[e]
    BY <1>3 DEF TypeOK, Row
  <2> QED
    BY <1>2, <2>1 DEF RowTokens
<1>6. MessageTokens'
  BY <1>1, <1>2 DEF MessageTokens, TypeOK, Message
<1>7. WorkerTokens'
  <2> SUFFICES ASSUME NEW w \in Workers, worker[w].pc # "idle"
               PROVE  (/\ ClaimOn(worker[w].tok, worker[w].dir)
                       /\ cache[worker[w].dir].tok = worker[w].tok
                            => cache[worker[w].dir].started # "null")'
    BY <1>1 DEF WorkerTokens
  <2>1. worker[w].dir \in Dirs /\ worker[w].tok \in Tokens /\ ClaimOn(worker[w].tok, worker[w].dir)
    BY DEF TypeOK, WorkerTokens
  <2>2. worker[w].tok # t /\ ClaimOn(worker[w].tok, worker[w].dir)'
    BY <1>1, <1>2, <2>1
  <2> QED
    BY <1>1, <1>3, <1>4, <2>1, <2>2 DEF WorkerTokens
<1>8. CopiedTokens'
  <2> SUFFICES ASSUME NEW e \in Dirs, NEW u \in Tokens, <<e, u>> \in copied
               PROVE  (ClaimOn(u, e) /\ (cache[e].tok = u => cache[e].started # "null"))'
    BY <1>1 DEF CopiedTokens
  <2>1. u # t /\ ClaimOn(u, e)'
    BY <1>2 DEF CopiedTokens
  <2> QED
    BY <1>3, <1>4, <2>1 DEF CopiedTokens
<1>9. PairRows'
  BY <1>1, <1>3 DEF PairRows
<1>10. ImportedRowsAreReal'
  BY <1>1, <1>3, <1>4 DEF ImportedRowsAreReal
<1>11. WorkerCopies' /\ SingleWorkerPerClaim'
  BY <1>1 DEF WorkerCopies, SingleWorkerPerClaim
<1> QED
  BY <1>5, <1>6, <1>7, <1>8, <1>9, <1>10, <1>11

\* The steps of a request keep the invariant.
LEMMA ApiInv ==
    ASSUME Inv, NEW t \in Tokens, ApiStep(t), TypeOK'
    PROVE  Inv'
<1>1. ASSUME NEW d \in Dirs, Claim(d, t) PROVE Inv'
  BY <1>1, ClaimInv
<1>2. CASE Dispatch(t) \/ DispatchFails(t) \/ HandlerAbort(t)
  <2>1. UNCHANGED <<cache, worker, scan, copied>>
    BY <1>2 DEF Dispatch, DispatchFails, HandlerAbort
  <2>2. \A u \in Tokens, d \in Dirs : ClaimOn(u, d) => ClaimOn(u, d)'
    BY <1>2 DEF Inv, TypeOK, ClaimOn, Dispatch, DispatchFails, HandlerAbort
  <2>3. \A m \in msgs' : ClaimOn(m.tok, m.dir)
    BY <1>2 DEF Inv, MessageTokens, ClaimOn, Dispatch, DispatchFails, HandlerAbort
  <2> QED
    BY <2>1, <2>2, <2>3, QuietStep DEF RowMoves, PairMoves, WorkerMoves
<1>3. CASE Compensate(t)
  <2>1. UNCHANGED <<msgs, worker, scan, copied>>
    BY <1>3 DEF Compensate
  <2>2. \A d \in Dirs : RowMoves(d)
    BY <1>3 DEF Inv, TypeOK, Compensate, Compensable, RowMoves
  <2>3. \A u \in Tokens, d \in Dirs : ClaimOn(u, d) => ClaimOn(u, d)'
    BY <1>3 DEF Inv, TypeOK, ClaimOn, Compensate
  <2>4. \A m \in msgs' : ClaimOn(m.tok, m.dir)
    BY <2>1 DEF Inv, MessageTokens
  <2> QED
    BY <2>1, <2>2, <2>3, <2>4, QuietStep DEF PairMoves, WorkerMoves
<1> QED
  BY <1>1, <1>2, <1>3 DEF ApiStep

\* Begin: the row says that nobody has begun under this claim, so no worker runs
\* under it and nothing was imported under it.
LEMMA DeliverInv ==
    ASSUME Inv, NEW w \in Workers, NEW m \in msgs, Deliver(w, m), TypeOK'
    PROVE  Inv'
<1> USE DEF ClaimOn
<1>0. m.dir \in Dirs /\ m.tok \in Tokens /\ msgs' \subseteq msgs /\ UNCHANGED <<handler, scan, copied>>
  BY DEF Inv, TypeOK, Message, Deliver
<1>1. CASE ~Beginnable(cache[m.dir], m.tok)
  <2>1. UNCHANGED <<cache, worker>>
    BY <1>1 DEF Deliver
  <2>2. \A n \in msgs' : ClaimOn(n.tok, n.dir)
    BY <1>0 DEF Inv, MessageTokens
  <2> QED
    BY <1>0, <2>1, <2>2, QuietStep DEF RowMoves, PairMoves, WorkerMoves
<1>2. CASE Beginnable(cache[m.dir], m.tok)
  <2>1. /\ cache[m.dir].tok = m.tok /\ cache[m.dir].started = "null"
        /\ cache' = [cache EXCEPT ![m.dir] = WithStarted(@, "fresh")]
        /\ worker' = [worker EXCEPT ![w] = [pc |-> "began", dir |-> m.dir, tok |-> m.tok]]
    BY <1>2 DEF Deliver, Beginnable
  <2>2. \A d \in Dirs : /\ cache'[d].status = cache[d].status
                        /\ cache'[d].tok = cache[d].tok
                        /\ cache'[d].media = cache[d].media
                        /\ cache'[d].started # "null" \/ (d # m.dir /\ cache'[d] = cache[d])
    BY <1>0, <2>1, StampedRow DEF Inv, TypeOK, Stamp
  <2>3. ClaimOn(m.tok, m.dir)
    BY DEF Inv, MessageTokens
  <2>4. \A v \in Workers : worker[v].pc # "idle" => worker[v].tok # m.tok
    BY <2>1, <2>3 DEF Inv, WorkerTokens
  <2>5. <<m.dir, m.tok>> \notin copied
    BY <1>0, <2>1 DEF Inv, CopiedTokens
  <2>6. \A v \in Workers : \/ worker'[v] = worker[v]
                           \/ v = w /\ worker'[v].pc = "began" /\ worker'[v].dir = m.dir
                                    /\ worker'[v].tok = m.tok
    BY <2>1 DEF Inv, TypeOK
  <2>7. RowTokens'
    BY <1>0, <2>2 DEF Inv, RowTokens
  <2>8. MessageTokens'
    BY <1>0 DEF Inv, MessageTokens
  <2>9. WorkerTokens'
    BY <1>0, <2>2, <2>3, <2>6 DEF Inv, WorkerTokens, TypeOK
  <2>10. CopiedTokens'
    BY <1>0, <2>2 DEF Inv, CopiedTokens
  <2>11. WorkerCopies'
    BY <1>0, <2>5, <2>6 DEF Inv, WorkerCopies
  <2>12. PairRows' /\ ImportedRowsAreReal'
    BY <1>0, <2>2 DEF Inv, PairRows, ImportedRowsAreReal
  <2>13. SingleWorkerPerClaim'
    BY <2>4, <2>6 DEF Inv, SingleWorkerPerClaim
  <2> QED
    BY <2>7, <2>8, <2>9, <2>10, <2>11, <2>12, <2>13 DEF Inv
<1> QED
  BY <1>1, <1>2

\* The import succeeds: the claim, which only this worker holds, is now copied.
LEMMA CopyOkInv ==
    ASSUME Inv, NEW w \in Workers, CopyOk(w), TypeOK'
    PROVE  Inv'
<1> DEFINE d == worker[w].dir
           t == worker[w].tok
<1>1. /\ worker[w].pc = "copying"
      /\ copied' = copied \cup {<<d, t>>}
      /\ worker' = [worker EXCEPT ![w].pc = "copied"]
      /\ UNCHANGED <<cache, handler, msgs, scan>>
  BY DEF CopyOk, Goto
<1>2. d \in Dirs /\ t \in Tokens
  BY <1>1 DEF Inv, TypeOK
<1>3. \A v \in Workers : /\ worker'[v].dir = worker[v].dir
                         /\ worker'[v].tok = worker[v].tok
                         /\ v # w => worker'[v] = worker[v]
                         /\ worker'[w].pc = "copied"
  BY <1>1 DEF Inv, TypeOK
<1>4. \A v \in Workers : v # w /\ worker[v].pc # "idle" => worker[v].tok # t
  BY <1>1 DEF Inv, SingleWorkerPerClaim
<1> HIDE DEF d, t
<1>5. RowTokens' /\ MessageTokens' /\ PairRows' /\ ImportedRowsAreReal'
  BY <1>1 DEF Inv, RowTokens, MessageTokens, PairRows, ImportedRowsAreReal, ClaimOn
<1>6. WorkerTokens'
  BY <1>1, <1>3 DEF Inv, WorkerTokens, ClaimOn
<1>7. CopiedTokens'
  BY <1>1, <1>2 DEF Inv, CopiedTokens, WorkerTokens, ClaimOn, d, t
<1>8. WorkerCopies'
  BY <1>1, <1>3, <1>4 DEF Inv, WorkerCopies, d, t
<1>9. SingleWorkerPerClaim'
  BY <1>1, <1>3 DEF Inv, SingleWorkerPerClaim
<1> QED
  BY <1>5, <1>6, <1>7, <1>8, <1>9 DEF Inv

\* The row becomes imported only under the claim it carries, which was copied.
LEMMA CompleteInv ==
    ASSUME Inv, NEW w \in Workers, Complete(w), TypeOK'
    PROVE  Inv'
<1> DEFINE d == worker[w].dir
           t == worker[w].tok
<1>1. /\ worker[w].pc = "copied" /\ <<d, t>> \in copied
      /\ UNCHANGED <<handler, msgs, scan, copied>>
      /\ d \in Dirs /\ t \in Tokens
  BY DEF Complete, Inv, WorkerCopies, TypeOK
<1>2. \A v \in Workers : /\ worker'[v].dir = worker[v].dir
                         /\ worker'[v].tok = worker[v].tok
                         /\ v # w => worker'[v] = worker[v]
                         /\ worker'[w].pc \in {"followup", "except"}
  BY DEF Complete, Goto, Inv, TypeOK
<1>3. \A v \in Workers : WorkerMoves(v)
  BY <1>1, <1>2 DEF WorkerMoves
<1>4. \A m \in msgs' : ClaimOn(m.tok, m.dir)
  BY <1>1 DEF Inv, MessageTokens
<1>5. CASE ~Finishable(cache[d], t)
  BY <1>1, <1>3, <1>4, <1>5, QuietStep DEF Complete, RowMoves, PairMoves, ClaimOn
<1>6. CASE Finishable(cache[d], t)
  <2>1. cache' = [cache EXCEPT ![d] = Plain("imported", t)]
    BY <1>6 DEF Complete
  <2>2. /\ cache'[d].status = "imported" /\ cache'[d].tok = None /\ cache'[d].media = t
        /\ \A e \in Dirs : e # d => cache'[e] = cache[e]
    BY <1>1, <2>1, PlainRow DEF Inv, TypeOK, Status
  <2> HIDE DEF d, t
  <2>3. RowTokens' /\ MessageTokens'
    BY <1>1, <2>2 DEF Inv, RowTokens, MessageTokens, ClaimOn
  <2>4. WorkerTokens'
    <3> SUFFICES ASSUME NEW v \in Workers, worker'[v].pc # "idle"
                 PROVE  (/\ ClaimOn(worker[v].tok, worker[v].dir)
                         /\ cache[worker[v].dir].tok = worker[v].tok
                              => cache[worker[v].dir].started # "null")'
      BY DEF WorkerTokens
    <3>1. worker[v].pc # "idle" /\ worker[v].dir \in Dirs /\ worker[v].tok \in Tokens
      BY <1>1, <1>2 DEF Inv, TypeOK
    <3> QED
      BY <1>1, <1>2, <2>2, <3>1, ScanImportAssumption DEF Inv, WorkerTokens, ClaimOn
  <2>5. CopiedTokens'
    BY <1>1, <2>2, ScanImportAssumption DEF Inv, CopiedTokens, ClaimOn
  <2>6. WorkerCopies' /\ SingleWorkerPerClaim'
    BY <1>1, <1>2 DEF Inv, WorkerCopies, SingleWorkerPerClaim
  <2>7. PairRows' /\ ImportedRowsAreReal'
    BY <1>1, <2>2 DEF Inv, PairRows, ImportedRowsAreReal
  <2> QED
    BY <2>3, <2>4, <2>5, <2>6, <2>7 DEF Inv
<1> QED
  BY <1>5, <1>6

\* The steps of a worker keep the invariant.
LEMMA WorkerInv ==
    ASSUME Inv, NEW w \in Workers, WorkerStep(w), TypeOK'
    PROVE  Inv'
<1>1. ASSUME NEW m \in msgs, Deliver(w, m) PROVE Inv'
  BY <1>1, DeliverInv
<1>2. CASE CopyOk(w)
  BY <1>2, CopyOkInv
<1>3. CASE Complete(w)
  BY <1>3, CompleteInv
<1>4. CASE Validate(w) \/ CopyNotOk(w) \/ ResolveRaises(w) \/ Followup(w) \/ TaskExcept(w) \/ WorkerAbort(w)
  <2>1. UNCHANGED <<handler, msgs, scan, copied>>
    BY <1>4 DEF Validate, CopyNotOk, ResolveRaises, Followup, TaskExcept, WorkerAbort
  <2>2. \A d \in Dirs : RowMoves(d)
    BY <1>4 DEF Validate, CopyNotOk, ResolveRaises, Followup, TaskExcept, WorkerAbort,
       FailManual, Finishable, RowMoves, Inv, TypeOK
  <2>3. \A v \in Workers : WorkerMoves(v)
    <3>1. CASE Validate(w)
      BY <3>1 DEF Validate, Goto, WorkerMoves, Inv, TypeOK
    <3>2. CASE CopyNotOk(w)
      BY <3>2 DEF CopyNotOk, Goto, WorkerMoves, Inv, TypeOK
    <3>3. CASE ResolveRaises(w)
      BY <3>3 DEF ResolveRaises, Goto, WorkerMoves, Inv, TypeOK
    <3>4. CASE Followup(w)
      BY <3>4 DEF Followup, Goto, Idle, WorkerMoves, Inv, TypeOK
    <3>5. CASE TaskExcept(w) \/ WorkerAbort(w)
      BY <3>5 DEF TaskExcept, WorkerAbort, Idle, WorkerMoves, Inv, TypeOK
    <3> QED
      BY <1>4, <3>1, <3>2, <3>3, <3>4, <3>5
  <2>4. \A m \in msgs' : ClaimOn(m.tok, m.dir)
    BY <2>1 DEF Inv, MessageTokens
  <2> QED
    BY <2>1, <2>2, <2>3, <2>4, QuietStep DEF PairMoves, ClaimOn
<1> QED
  BY <1>1, <1>2, <1>3, <1>4 DEF WorkerStep

\* A reclaim pass fails queued rows and renews stamps.
LEMMA SweepInv ==
    ASSUME Inv, NEW p \in Sweepers, SweepStep(p) \/ SweepAbort(p), TypeOK'
    PROVE  Inv'
<1>1. UNCHANGED <<handler, msgs, worker, scan, copied>>
  BY DEF SweepStep, SweepQueuedSelect, SweepQueuedUpdate, SweepStartedSelect, SweepStartedUpdate,
     SweepAbort, jobVars
<1>2. \A d \in Dirs : RowMoves(d)
  <2>1. CASE SweepQueuedSelect(p) \/ SweepStartedSelect(p) \/ SweepAbort(p)
    BY <2>1 DEF SweepQueuedSelect, SweepStartedSelect, SweepAbort, RowMoves
  <2>2. CASE SweepQueuedUpdate(p)
    <3> SUFFICES ASSUME NEW d \in Dirs PROVE RowMoves(d)
      OBVIOUS
    <3>1. \/ cache'[d] = cache[d]
          \/ cache'[d] = Failed /\ cache[d].status = "queued"
          \/ cache'[d] = WithQueuedAt(cache[d], "fresh")
      BY <2>2 DEF SweepQueuedUpdate, QueuedMatch
    <3> QED
      BY <3>1, StampedRow DEF RowMoves, Inv, TypeOK, Stamp
  <2>3. CASE SweepStartedUpdate(p)
    <3> SUFFICES ASSUME NEW d \in Dirs PROVE RowMoves(d)
      OBVIOUS
    <3>1. \/ cache'[d] = cache[d]
          \/ cache'[d] = Failed /\ cache[d].status = "queued"
          \/ cache'[d] = WithStarted(cache[d], "fresh")
      BY <2>3 DEF SweepStartedUpdate, StartedMatch
    <3> QED
      BY <3>1, StampedRow DEF RowMoves, Inv, TypeOK, Stamp
  <2> QED
    BY <2>1, <2>2, <2>3 DEF SweepStep
<1>3. \A m \in msgs' : ClaimOn(m.tok, m.dir)
  BY <1>1 DEF Inv, MessageTokens
<1> QED
  BY <1>1, <1>2, <1>3, QuietStep DEF PairMoves, WorkerMoves, ClaimOn

\* The write-back replaces the whole table by rows without a claim, the imported
\* ones of which are real.
LEMMA WritebackInv ==
    ASSUME Inv, ScanWriteback, TypeOK'
    PROVE  Inv'
<1>1. /\ cache' = scan.pairs
      /\ scan' = NoScan
      /\ UNCHANGED <<handler, msgs, worker, copied>>
  BY DEF ScanWriteback, jobVars
<1>2. \A d \in Dirs : cache'[d].tok = None
  BY <1>1 DEF Inv, PairRows
<1>3. \A d \in Dirs : scan'.pairs[d].tok = None /\ scan'.pairs[d].status = "absent"
  BY <1>1, FixedRows DEF NoScan, NoRows
<1>4. RowTokens' /\ MessageTokens'
  BY <1>1, <1>2 DEF Inv, RowTokens, MessageTokens, ClaimOn
<1>5. WorkerTokens'
  <2> SUFFICES ASSUME NEW w \in Workers, worker[w].pc # "idle"
               PROVE  (/\ ClaimOn(worker[w].tok, worker[w].dir)
                       /\ cache[worker[w].dir].tok = worker[w].tok
                            => cache[worker[w].dir].started # "null")'
    BY <1>1 DEF WorkerTokens
  <2>1. worker[w].dir \in Dirs /\ worker[w].tok \in Tokens
    BY DEF Inv, TypeOK
  <2> QED
    BY <1>1, <1>2, <2>1, ScanImportAssumption DEF Inv, WorkerTokens, ClaimOn
<1>6. CopiedTokens'
  BY <1>1, <1>2, ScanImportAssumption DEF Inv, CopiedTokens, ClaimOn
<1>7. WorkerCopies' /\ SingleWorkerPerClaim'
  BY <1>1 DEF Inv, WorkerCopies, SingleWorkerPerClaim
<1>8. PairRows'
  BY <1>3 DEF PairRows
<1>9. ImportedRowsAreReal'
  BY <1>1 DEF Inv, PairRows, ImportedRowsAreReal
<1> QED
  BY <1>4, <1>5, <1>6, <1>7, <1>8, <1>9 DEF Inv

\* A scan that reads the table carries over rows that are imported right now.
LEMMA ReadTerminalInv ==
    ASSUME Inv, ScanReadTerminal, TypeOK'
    PROVE  Inv'
<1>1. UNCHANGED <<cache, handler, msgs, worker, copied>>
  BY DEF ScanReadTerminal, jobVars
<1>2. PICK active \in SUBSET Dirs :
         scan' = [NoScan EXCEPT !.pc = "import", !.todo = active, !.pairs = Carried(active)]
  BY DEF ScanReadTerminal
<1>3. scan'.pairs = Carried(active)
  BY <1>2 DEF NoScan
<1>4. \A d \in Dirs : \/ scan'.pairs[d] = cache[d] /\ cache[d].status \in Terminal
                      \/ scan'.pairs[d] = Absent
  BY <1>3 DEF Carried
<1>5. \A d \in Dirs : cache[d].status \in Terminal => cache[d].tok = None
  BY DEF Inv, RowTokens, Terminal
<1>6. PairRows'
  BY <1>1, <1>4, <1>5, FixedRows DEF PairRows, Inv, ImportedRowsAreReal
<1> QED
  BY <1>1, <1>6 DEF Inv, RowTokens, MessageTokens, WorkerTokens, CopiedTokens, WorkerCopies,
     SingleWorkerPerClaim, ImportedRowsAreReal, ClaimOn

\* The steps of a scan keep the invariant.
LEMMA ScanInv ==
    ASSUME Inv, ScanStep, TypeOK'
    PROVE  Inv'
<1>1. CASE ScanWriteback
  BY <1>1, WritebackInv
<1>2. CASE ScanReadTerminal
  BY <1>2, ReadTerminalInv
<1>3. CASE ScanBegin \/ ScanAbort \/ \E d \in Dirs : ScanItem(d)
  <2>1. UNCHANGED <<cache, handler, msgs, worker, copied>>
    BY <1>3 DEF ScanBegin, ScanAbort, ScanItem, jobVars
  <2>2. \A d \in Dirs : PairMoves(d)
    <3>1. CASE ScanBegin \/ ScanAbort
      <4>1. scan' = [NoScan EXCEPT !.pc = "walk", !.ignored = ignored] \/ scan' = NoScan
        BY <3>1 DEF ScanBegin, ScanAbort
      <4>2. NoScan.pairs = NoRows /\ [NoScan EXCEPT !.pc = "walk", !.ignored = ignored].pairs = NoRows
        BY DEF NoScan
      <4> QED
        BY <4>1, <4>2, FixedRows DEF NoRows, PairMoves
    <3>2. ASSUME NEW e \in Dirs, ScanItem(e) PROVE \A d \in Dirs : PairMoves(d)
      <4>1. PICK r \in {Plain("pending", None), Failed, Plain("imported", ByScan)} :
               scan' = [scan EXCEPT !.todo = @ \ {e}, !.pairs = [@ EXCEPT ![e] = r]]
        BY <3>2 DEF ScanItem
      <4>2. scan'.pairs = [scan.pairs EXCEPT ![e] = r]
        BY <4>1 DEF Inv, TypeOK
      <4>3. r.tok = None /\ (r.status = "imported" => r.media = ByScan)
        BY PlainRow, FixedRows DEF Status
      <4> QED
        BY <4>2, <4>3 DEF PairMoves, Inv, TypeOK
    <3> QED
      BY <1>3, <3>1, <3>2
  <2>3. \A m \in msgs' : ClaimOn(m.tok, m.dir)
    BY <2>1 DEF Inv, MessageTokens
  <2> QED
    BY <2>1, <2>2, <2>3, QuietStep DEF RowMoves, WorkerMoves, ClaimOn
<1> QED
  BY <1>1, <1>2, <1>3 DEF ScanStep

\* The passing of time and an ignore request keep the invariant.
LEMMA RowInv ==
    ASSUME Inv, NEW d \in Dirs, RowStep(d), TypeOK'
    PROVE  Inv'
<1>1. UNCHANGED <<handler, msgs, worker, scan, copied>>
  BY DEF RowStep, AgeQueued, AgeStarted, IgnoreAdd, IgnoreDelete, IgnoreAbort, jobVars
<1>2. \A e \in Dirs : RowMoves(e)
  <2> SUFFICES ASSUME NEW e \in Dirs PROVE RowMoves(e)
    OBVIOUS
  <2>1. \/ cache'[e] = cache[e]
        \/ cache'[e] = WithQueuedAt(cache[e], "stale")
        \/ cache'[e] = WithStarted(cache[e], "stale")
        \/ cache'[e] = Absent
    BY DEF RowStep, AgeQueued, AgeStarted, IgnoreAdd, IgnoreDelete, IgnoreAbort, Inv, TypeOK
  <2> QED
    BY <2>1, StampedRow DEF RowMoves, Inv, TypeOK, Stamp
<1>3. \A m \in msgs' : ClaimOn(m.tok, m.dir)
  BY <1>1 DEF Inv, MessageTokens
<1> QED
  BY <1>1, <1>2, <1>3, QuietStep DEF PairMoves, WorkerMoves, ClaimOn

\* Every step keeps the invariant.
LEMMA NextInv == Inv /\ [Next]_vars => Inv'
<1> SUFFICES ASSUME Inv, [Next]_vars PROVE Inv'
  OBVIOUS
<1>1. TypeOK'
  BY NextType DEF Inv
<1>2. ASSUME \/ \E m \in msgs : LoseMessage(m)
             \/ ClearCache
             \/ UNCHANGED vars
      PROVE  Inv'
  <2>1. UNCHANGED <<handler, worker, scan, copied>> /\ msgs' \subseteq msgs
    BY <1>2 DEF LoseMessage, ClearCache, vars, jobVars
  <2>2. \A d \in Dirs : RowMoves(d)
    BY <1>2 DEF LoseMessage, ClearCache, vars, RowMoves
  <2>3. \A m \in msgs' : ClaimOn(m.tok, m.dir)
    BY <2>1 DEF Inv, MessageTokens
  <2> QED
    BY <1>1, <2>1, <2>2, <2>3, QuietStep DEF PairMoves, WorkerMoves, ClaimOn
<1> QED
  BY <1>1, <1>2, ApiInv, WorkerInv, SweepInv, ScanInv, RowInv DEF Next

\* The invariant holds in every behaviour.
THEOREM Invariance == Spec => []Inv
BY InitInv, NextInv, PTL DEF Spec

\* However often its message is delivered, a claim has at most one worker.
THEOREM OneWorker == Spec => []SingleWorkerPerClaim
<1>1. Inv => SingleWorkerPerClaim
  BY DEF Inv
<1> QED
  BY <1>1, Invariance, PTL

\* A row imported by a claim stands for an import that succeeded on disk.
THEOREM RealImports == Spec => []ImportedRowsAreReal
<1>1. Inv => ImportedRowsAreReal
  BY DEF Inv
<1> QED
  BY <1>1, Invariance, PTL

-----------------------------------------------------------------------------
(* Action properties *)

\* No claim imports its directory twice.
THEOREM ImportedOnce == Spec => ImportedOncePerClaim
<1>1. Inv /\ [Next]_vars =>
        [\A w \in Workers : worker[w].pc = "copying" /\ worker'[w].pc = "copied"
            => <<worker[w].dir, worker[w].tok>> \notin copied]_vars
  BY DEF Inv, WorkerCopies
<1> QED
  BY <1>1, Invariance, PTL DEF Spec, ImportedOncePerClaim

\* How one step changes one row: it leaves or stamps it, claims it, deletes it,
\* fails a queued one, completes it under its claim, or is a write-back.
RowChange(d) ==
    \/ cache'[d].status = cache[d].status
    \/ cache'[d].status \in {"absent", "queued"}
    \/ cache[d].status = "queued" /\ cache'[d] = Failed
    \/ cache[d].status = "queued" /\ cache'[d] = Plain("imported", cache[d].tok)
    \/ cache' = scan.pairs /\ scan' # scan

\* Every step changes every row in one of these ways.
LEMMA RowChanges ==
    ASSUME Inv, [Next]_vars, NEW d \in Dirs
    PROVE  RowChange(d)
<1> USE DEF RowChange, Inv, TypeOK
<1>1. ASSUME NEW t \in Tokens, ApiStep(t) PROVE RowChange(d)
  BY <1>1, ClaimedRow DEF ApiStep, Claim, Dispatch, DispatchFails, Compensate, HandlerAbort, Compensable
<1>2. ASSUME NEW w \in Workers, WorkerStep(w) PROVE RowChange(d)
  <2>1. ASSUME NEW m \in msgs, Deliver(w, m) PROVE RowChange(d)
    BY <2>1, StampedRow DEF Deliver, Stamp
  <2>2. CASE Complete(w)
    BY <2>2 DEF Complete, Finishable
  <2> QED
    BY <1>2, <2>1, <2>2 DEF WorkerStep, Validate, CopyOk, CopyNotOk, ResolveRaises, Followup,
       TaskExcept, WorkerAbort, FailManual, Finishable
<1>3. ASSUME NEW e \in Dirs, RowStep(e) PROVE RowChange(d)
  BY <1>3, StampedRow, FixedRows DEF RowStep, AgeQueued, AgeStarted, IgnoreAdd, IgnoreDelete,
     IgnoreAbort, Stamp
<1>4. ASSUME NEW p \in Sweepers, SweepStep(p) \/ SweepAbort(p) PROVE RowChange(d)
  <2>1. CASE SweepQueuedUpdate(p)
    BY <2>1, StampedRow DEF SweepQueuedUpdate, QueuedMatch, Stamp
  <2>2. CASE SweepStartedUpdate(p)
    BY <2>2, StampedRow DEF SweepStartedUpdate, StartedMatch, Stamp
  <2> QED
    BY <1>4, <2>1, <2>2 DEF SweepStep, SweepQueuedSelect, SweepStartedSelect, SweepAbort
<1>5. CASE ScanStep
  <2>1. CASE ScanWriteback
    <3>1. scan.pc = "import" /\ scan'.pc = "idle" /\ cache' = scan.pairs
      BY <2>1 DEF ScanWriteback, NoScan
    <3> QED
      BY <3>1
  <2> QED
    BY <1>5, <2>1 DEF ScanStep, ScanBegin, ScanReadTerminal, ScanItem, ScanAbort
<1>6. ASSUME (\E m \in msgs : LoseMessage(m)) \/ ClearCache \/ UNCHANGED vars PROVE RowChange(d)
  BY <1>6, FixedRows DEF LoseMessage, ClearCache, vars
<1> QED
  BY <1>1, <1>2, <1>3, <1>4, <1>5, <1>6 DEF Next

\* A queued row becomes imported only under the claim it carries.
THEOREM OwnerImports == Spec => OnlyOwnerImports
<1>1. Inv /\ [Next]_vars =>
        [\A d \in Dirs : cache[d].status = "queued" /\ cache'[d].status = "imported"
                              /\ cache'[d].media # ByScan
            => cache'[d].media = cache[d].tok]_vars
  <2> SUFFICES ASSUME Inv, [Next]_vars, NEW d \in Dirs,
                      cache[d].status = "queued", cache'[d].status = "imported",
                      cache'[d].media # ByScan
               PROVE  cache'[d].media = cache[d].tok
    OBVIOUS
  <2>1. RowChange(d)
    BY RowChanges
  <2>2. cache' # scan.pairs
    BY DEF Inv, PairRows
  <2>3. cache[d].tok \in Tokens \cup {None}
    BY DEF Inv, TypeOK, Row
  <2> QED
    BY <2>1, <2>2, <2>3, PlainRow, FixedRows DEF RowChange, Status
<1> QED
  BY <1>1, Invariance, PTL DEF Spec, OnlyOwnerImports

\* Only a rescan turns imported back into failed.
THEOREM ImportedStays == Spec => ImportedNotFailedLater
<1>1. Inv /\ [Next]_vars =>
        [\A d \in Dirs : cache[d].status = "imported" /\ scan' = scan
            => cache'[d].status # "failed"]_vars
  BY RowChanges, FixedRows DEF RowChange
<1> QED
  BY <1>1, Invariance, PTL DEF Spec, ImportedNotFailedLater

\* Nobody but the worker itself fails the row of an import that began within
\* the grace.
THEOREM LiveImportSafe == Spec => LiveImportNotFailed
<1>1. Inv /\ [Next]_vars =>
        [\A d \in Dirs, w \in Workers :
            /\ Holding(w, d, cache[d].tok)
            /\ cache[d].status = "queued"
            /\ cache[d].started = "fresh"
            /\ cache'[d].status = "failed"
            /\ scan' = scan
            => worker'[w] # worker[w]]_vars
  <2> SUFFICES ASSUME Inv, Next, NEW d \in Dirs, NEW w \in Workers,
                      Holding(w, d, cache[d].tok), cache[d].status = "queued",
                      cache[d].started = "fresh", cache'[d].status = "failed", scan' = scan
               PROVE  worker'[w] # worker[w]
    BY DEF vars
  <2> USE DEF Inv, TypeOK
  <2>0. cache'[d] # cache[d] /\ cache'[d].status # cache[d].status
    OBVIOUS
  <2>1. ASSUME NEW t \in Tokens, ApiStep(t) PROVE FALSE
    BY <2>0, <2>1, ClaimedRow DEF ApiStep, Claim, Dispatch, DispatchFails, Compensate, HandlerAbort,
       Compensable
  <2>2. ASSUME NEW v \in Workers, WorkerStep(v) PROVE worker'[w] # worker[w]
    <3>1. ASSUME NEW m \in msgs, Deliver(v, m) PROVE FALSE
      BY <2>0, <3>1, StampedRow DEF Deliver, Stamp
    <3>2. CASE Complete(v)
      BY <2>0, <3>2, PlainRow DEF Complete, Status
    <3>3. CASE CopyNotOk(v) \/ TaskExcept(v)
      <4>1. worker[v].pc \in {"copying", "except"} /\ worker[v].tok = cache[d].tok
        BY <2>0, <3>3 DEF CopyNotOk, TaskExcept, FailManual, Finishable
      <4>2. v = w
        BY <4>1 DEF Holding, SingleWorkerPerClaim
      <4> QED
        BY <3>3, <4>1, <4>2 DEF CopyNotOk, TaskExcept, Goto, Idle
    <3> QED
      BY <2>0, <2>2, <3>1, <3>2, <3>3 DEF WorkerStep, Validate, CopyOk, ResolveRaises, Followup, WorkerAbort
  <2>3. ASSUME NEW e \in Dirs, RowStep(e) PROVE FALSE
    BY <2>0, <2>3, StampedRow, FixedRows DEF RowStep, AgeQueued, AgeStarted, IgnoreAdd, IgnoreDelete,
       IgnoreAbort, Stamp
  <2>4. ASSUME NEW p \in Sweepers, SweepStep(p) \/ SweepAbort(p) PROVE FALSE
    <3>1. CASE SweepQueuedUpdate(p)
      BY <2>0, <3>1, StampedRow DEF SweepQueuedUpdate, QueuedMatch, Stamp
    <3>2. CASE SweepStartedUpdate(p)
      BY <2>0, <3>2, StampedRow DEF SweepStartedUpdate, StartedMatch, Stamp
    <3> QED
      BY <2>0, <2>4, <3>1, <3>2 DEF SweepStep, SweepQueuedSelect, SweepStartedSelect, SweepAbort
  <2>5. CASE ScanStep
    <3>1. CASE ScanWriteback
      <4>1. scan.pc = "import" /\ scan'.pc = "idle"
        BY <3>1 DEF ScanWriteback, NoScan
      <4> QED
        BY <4>1
    <3> QED
      BY <2>0, <2>5, <3>1 DEF ScanStep, ScanBegin, ScanReadTerminal, ScanItem, ScanAbort
  <2>6. CASE (\E m \in msgs : LoseMessage(m)) \/ ClearCache
    BY <2>0, <2>6, FixedRows DEF LoseMessage, ClearCache
  <2> QED
    BY <2>1, <2>2, <2>3, <2>4, <2>5, <2>6 DEF Next
<1> QED
  BY <1>1, Invariance, PTL DEF Spec, LiveImportNotFailed

=============================================================================
