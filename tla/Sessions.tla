------------------------------ MODULE Sessions ------------------------------
(***************************************************************************)
(* Sessions: signed session tokens with a per-process cache of the user    *)
(* they name, API tokens looked up on every request, the administration of *)
(* users, and logins at an OpenID provider that settings may change.       *)
(*                                                                         *)
(* A change of password takes several commits: the password, the stamp     *)
(* that ends older sessions, the deletion of the API tokens.  A session    *)
(* issued within the leeway before the stamp survives it.                  *)
(***************************************************************************)
EXTENDS Integers, FiniteSets

CONSTANTS HProcs,      \* processes that serve requests
          HUsers,      \* users
          HToks,       \* sessions
          HKeys,       \* API tokens
          HReqs,       \* requests in flight
          HLogins,     \* OpenID logins of one subject
          HProviders,  \* OpenID providers, "off" for none
          HMail,       \* the user with the subject's verified e-mail address
          HMaxAdmin    \* bound on what users and administrators change

ASSUME SessionsAssumption == HMail \in HUsers /\ "off" \in HProviders /\ HMaxAdmin \in Nat

VARIABLES hUser,    \* rows of users: active, and the number of the credentials stamp
          hTok,     \* sessions: their user, and the stamp that ended them
          hKey,     \* rows of API tokens: their user
          hCache,   \* per process and session: the cached user, or none
          hReq,     \* requests
          hChange,  \* per user: where a change of password is
          hProv,    \* per process: the active provider
          hLogin,   \* logins
          hAcct,    \* accounts of the subject: <<name, user>>
          hAdmin

hVars == <<hUser, hTok, hKey, hCache, hReq, hChange, hProv, hLogin, hAcct, hAdmin>>
loginVars == <<hProv, hLogin, hAcct>>

Nobody == "nobody"
Stamps == 0..HMaxAdmin
NotCached == [stamp |-> -1, active |-> FALSE]
NewTok == [user |-> Nobody, ended |-> 0, expired |-> FALSE]
IdleReq == [pc |-> "idle", p |-> "none", tok |-> "none", seen |-> NotCached]
NoSignIn == [pc |-> "none", prov |-> "off", by |-> "off"]

\* Users, tokens, the cache of each process and the sign-ins (auth/users.py).
SessionsTypeOK ==
  /\ \A u \in HUsers : hUser[u].active \in BOOLEAN /\ hUser[u].stamp \in Stamps
  /\ \A t \in HToks : hTok[t].user \in HUsers \cup {Nobody} /\ hTok[t].ended \in Stamps /\ hTok[t].expired \in BOOLEAN
  /\ hKey \in [HKeys -> HUsers \cup {Nobody}]
  /\ \A p \in HProcs, t \in HToks : hCache[p][t] = NotCached \/ hCache[p][t].stamp \in Stamps
  /\ \A r \in HReqs : hReq[r].pc \in {"idle", "load", "served"}
  /\ hChange \in [HUsers -> {"idle", "saved", "stamped"}]
  /\ hProv \in [HProcs -> HProviders] /\ hAcct \subseteq {"issuer", "display"} \X HUsers
  /\ \A l \in HLogins : hLogin[l].pc \in {"none", "authorized", "reconciled", "done", "refused"}
  /\ hAdmin \in 0..HMaxAdmin

SessionsInit ==
  /\ hUser = [u \in HUsers |-> [active |-> TRUE, stamp |-> 0]]
  /\ hTok = [t \in HToks |-> NewTok] /\ hKey = [k \in HKeys |-> Nobody]
  /\ hCache = [p \in HProcs |-> [t \in HToks |-> NotCached]]
  /\ hReq = [r \in HReqs |-> IdleReq] /\ hChange = [u \in HUsers |-> "idle"]
  /\ hProv \in [HProcs -> HProviders] /\ hLogin = [l \in HLogins |-> NoSignIn]
  /\ hAcct \in {{}, {<<"display", HMail>>}, {<<"display", HMail>>, <<"issuer", HMail>>}} /\ hAdmin = 0

Administer == hAdmin < HMaxAdmin /\ hAdmin' = hAdmin + 1
IssuedBefore(t, stamp) == hTok[t].ended # 0 /\ hTok[t].ended <= stamp
InvalidateCache(p, u) ==
  hCache' = [hCache EXCEPT ![p] = [t \in HToks |-> IF hTok[t].user = u THEN NotCached ELSE @[t]]]

(***************************************************************************)
(* Issuing and reading a session.                                          *)
(***************************************************************************)
WriteToken(t, u) == hTok' = [hTok EXCEPT ![t] = [NewTok EXCEPT !.user = u]]

Login(t, u) ==
  /\ hTok[t] = NewTok /\ hUser[u].active /\ WriteToken(t, u)
  /\ UNCHANGED <<hUser, hKey, hCache, hReq, hChange, loginVars, hAdmin>>

Usable(t) == hTok[t].user # Nobody /\ ~hTok[t].expired

\* A cached user that the session may still name: no look at the database.
ReadHit(r, p, t) ==
  /\ hReq[r] = IdleReq /\ Usable(t)
  /\ hCache[p][t] # NotCached /\ ~IssuedBefore(t, hCache[p][t].stamp) /\ hCache[p][t].active
  /\ hReq' = [hReq EXCEPT ![r] = [IdleReq EXCEPT !.pc = "served", !.p = p, !.tok = t]]
  /\ UNCHANGED <<hUser, hTok, hKey, hCache, hChange, loginVars, hAdmin>>

\* A miss: the user is loaded, and the request waits for the answer.
ReadLoad(r, p, t) ==
  /\ hReq[r] = IdleReq /\ Usable(t)
  /\ hCache[p][t] = NotCached \/ IssuedBefore(t, hCache[p][t].stamp)
  /\ hCache' = [hCache EXCEPT ![p][t] = NotCached]
  /\ hReq' = [hReq EXCEPT ![r] = [pc |-> "load", p |-> p, tok |-> t, seen |-> hUser[hTok[t].user]]]
  /\ UNCHANGED <<hUser, hTok, hKey, hChange, loginVars, hAdmin>>

RefusedNever(t, seen) == FALSE
Refused(t, seen) == IssuedBefore(t, seen.stamp)

ReadStore(r) ==
  LET t == hReq[r].tok  seen == hReq[r].seen IN
  /\ hReq[r].pc = "load"
  /\ IF Refused(t, seen)
     THEN hReq' = [hReq EXCEPT ![r] = IdleReq] /\ UNCHANGED hCache
     ELSE /\ hCache' = [hCache EXCEPT ![hReq[r].p][t] = seen]
          /\ hReq' = [hReq EXCEPT ![r] = IF seen.active THEN [@ EXCEPT !.pc = "served", !.seen = NotCached] ELSE IdleReq]
  /\ UNCHANGED <<hUser, hTok, hKey, hChange, loginVars, hAdmin>>

ServeEnds(r) ==
  /\ hReq[r].pc = "served" /\ hReq' = [hReq EXCEPT ![r] = IdleReq]
  /\ UNCHANGED <<hUser, hTok, hKey, hCache, hChange, loginVars, hAdmin>>

CacheExpires(p, t) ==
  /\ hCache[p][t] # NotCached /\ hCache' = [hCache EXCEPT ![p][t] = NotCached]
  /\ UNCHANGED <<hUser, hTok, hKey, hReq, hChange, loginVars, hAdmin>>

SessionExpires(t) ==
  /\ Usable(t) /\ hTok' = [hTok EXCEPT ![t].expired = TRUE]
  /\ UNCHANGED <<hUser, hKey, hCache, hReq, hChange, loginVars, hAdmin>>

(***************************************************************************)
(* API tokens: created in an interactive session, read from the database.  *)
(***************************************************************************)
CreateMyToken(k, r) ==
  /\ Administer /\ hReq[r].pc = "served" /\ hReq[r].tok \in HToks /\ hKey[k] = Nobody
  /\ hKey' = [hKey EXCEPT ![k] = hTok[hReq[r].tok].user]
  /\ UNCHANGED <<hUser, hTok, hCache, hReq, hChange, loginVars>>

RevokeMyToken(k) ==
  /\ Administer /\ hKey[k] # Nobody /\ hKey' = [hKey EXCEPT ![k] = Nobody]
  /\ UNCHANGED <<hUser, hTok, hCache, hReq, hChange, loginVars>>

ReadApiToken(r, p, k) ==
  /\ hReq[r] = IdleReq /\ hKey[k] # Nobody /\ hUser[hKey[k]].active
  /\ hReq' = [hReq EXCEPT ![r] = [IdleReq EXCEPT !.pc = "served", !.p = p, !.tok = k]]
  /\ UNCHANGED <<hUser, hTok, hKey, hCache, hChange, loginVars, hAdmin>>

(***************************************************************************)
(* Users.                                                                  *)
(***************************************************************************)
SavePassword(u, p) ==
  /\ Administer /\ hChange[u] = "idle"
  /\ hChange' = [hChange EXCEPT ![u] = "saved"] /\ InvalidateCache(p, u)
  /\ UNCHANGED <<hUser, hTok, hKey, hReq, loginVars>>

\* Sessions issued within the leeway are spared.
StampCredentials(u, spared) ==
  LET n == hUser[u].stamp + 1 IN
  /\ hChange[u] = "saved" /\ hChange' = [hChange EXCEPT ![u] = "stamped"]
  /\ hUser' = [hUser EXCEPT ![u].stamp = n]
  /\ hTok' = [t \in HToks |-> IF hTok[t].user = u /\ t \notin spared /\ hTok[t].ended = 0
                              THEN [hTok[t] EXCEPT !.ended = n] ELSE hTok[t]]
  /\ UNCHANGED <<hKey, hCache, hReq, loginVars, hAdmin>>

DeleteApiTokens(u, p) ==
  /\ hChange[u] = "stamped" /\ hChange' = [hChange EXCEPT ![u] = "idle"]
  /\ hKey' = [k \in HKeys |-> IF hKey[k] = u THEN Nobody ELSE hKey[k]]
  /\ InvalidateCache(p, u)
  /\ UNCHANGED <<hUser, hTok, hReq, loginVars, hAdmin>>

\* The request dies between two of its commits.
ChangeInterrupted(u) ==
  /\ Administer /\ hChange[u] # "idle" /\ hChange' = [hChange EXCEPT ![u] = "idle"]
  /\ UNCHANGED <<hUser, hTok, hKey, hCache, hReq, loginVars>>

BulkUserUpdate(u, p, active) ==
  /\ Administer /\ hUser[u].active # active
  /\ hUser' = [hUser EXCEPT ![u].active = active] /\ InvalidateCache(p, u)
  /\ UNCHANGED <<hTok, hKey, hReq, hChange, loginVars>>

(***************************************************************************)
(* OpenID: authorize seals the active provider into the browser's cookie;  *)
(* the callback, on any process, works from that snapshot.                 *)
(***************************************************************************)
SwapRuntime(p, v) ==
  /\ Administer /\ hProv[p] # v /\ hProv' = [hProv EXCEPT ![p] = v]
  /\ UNCHANGED <<hUser, hTok, hKey, hCache, hReq, hChange, hLogin, hAcct>>

Snapshot(p) == [pc |-> "authorized", prov |-> hProv[p], by |-> "off"]
RestoredProvider(l) == hLogin[l].prov

Authorize(l, p) ==
  /\ hLogin[l].pc = "none" /\ hProv[p] # "off"
  /\ hLogin' = [hLogin EXCEPT ![l] = Snapshot(p)]
  /\ UNCHANGED <<hUser, hTok, hKey, hCache, hReq, hChange, hProv, hAcct, hAdmin>>

Owner(name) == {u \in HUsers : <<name, u>> \in hAcct}

MigrationPlan ==
  IF Owner("display") = {} THEN "noop"
  ELSE IF Owner("issuer") = {} THEN "rename"
  ELSE IF Owner("display") \subseteq Owner("issuer") THEN "dedupe" ELSE "conflict"

\* reconcile_legacy_oauth_account: an account under the display name moves to the key that
\* is derived from the issuer, or is dropped when that one exists.
Reconcile(l) ==
  /\ hLogin[l].pc = "authorized" /\ MigrationPlan # "conflict"
  /\ hAcct' = CASE MigrationPlan = "rename" -> {<<"issuer", u>> : u \in Owner("display")}
                [] MigrationPlan = "dedupe" -> {a \in hAcct : a[1] = "issuer"}
                [] OTHER -> hAcct
  /\ hLogin' = [hLogin EXCEPT ![l].pc = "reconciled", ![l].by = RestoredProvider(l)]
  /\ UNCHANGED <<hUser, hTok, hKey, hCache, hReq, hChange, hProv, hAdmin>>

CallbackUser == IF Owner("issuer") # {} THEN CHOOSE u \in Owner("issuer") : TRUE ELSE HMail

\* The account of the key, or the user of the verified address; an inactive user is refused.
Callback(l, t) ==
  /\ hLogin[l].pc = "reconciled" /\ hTok[t] = NewTok
  /\ hAcct' = IF Owner("issuer") = {} THEN hAcct \cup {<<"issuer", HMail>>} ELSE hAcct
  /\ IF hUser[CallbackUser].active
     THEN WriteToken(t, CallbackUser) /\ hLogin' = [hLogin EXCEPT ![l].pc = "done"]
     ELSE UNCHANGED hTok /\ hLogin' = [hLogin EXCEPT ![l].pc = "refused"]
  /\ UNCHANGED <<hUser, hKey, hCache, hReq, hChange, hProv, hAdmin>>

\* The snapshot is malformed or too old, or its provider is gone or is another one.
SnapshotRefused(l) ==
  /\ hLogin[l].pc = "authorized" /\ hLogin' = [hLogin EXCEPT ![l].pc = "refused"]
  /\ UNCHANGED <<hUser, hTok, hKey, hCache, hReq, hChange, hProv, hAcct, hAdmin>>

\* The code is not exchanged, there is no address, or the subject is bound to two users.
CallbackRefused(l) ==
  /\ hLogin[l].pc \in {"authorized", "reconciled"} /\ hLogin' = [hLogin EXCEPT ![l].pc = "refused"]
  /\ UNCHANGED <<hUser, hTok, hKey, hCache, hReq, hChange, hProv, hAcct, hAdmin>>

SessionsNext ==
  \/ \E t \in HToks : \/ SessionExpires(t)
                      \/ \E u \in HUsers : Login(t, u)
                      \/ \E l \in HLogins : Callback(l, t)
                      \/ \E p \in HProcs : \/ CacheExpires(p, t)
                                           \/ \E r \in HReqs : ReadHit(r, p, t) \/ ReadLoad(r, p, t)
  \/ \E r \in HReqs : \/ ReadStore(r) \/ ServeEnds(r)
                      \/ \E k \in HKeys : CreateMyToken(k, r) \/ \E p \in HProcs : ReadApiToken(r, p, k)
  \/ \E k \in HKeys : RevokeMyToken(k)
  \/ \E u \in HUsers : \/ ChangeInterrupted(u)
                       \/ \E s \in SUBSET HToks : StampCredentials(u, s)
                       \/ \E p \in HProcs : \/ SavePassword(u, p) \/ DeleteApiTokens(u, p)
                                            \/ \E b \in BOOLEAN : BulkUserUpdate(u, p, b)
  \/ \E l \in HLogins : \/ Reconcile(l) \/ SnapshotRefused(l) \/ CallbackRefused(l)
                        \/ \E p \in HProcs : Authorize(l, p)
  \/ \E p \in HProcs, v \in HProviders : SwapRuntime(p, v)

SessionsSpec == SessionsInit /\ [][SessionsNext]_hVars
SessionsFair ==
  /\ SessionsSpec
  /\ \A r \in HReqs : WF_hVars(ReadStore(r)) /\ WF_hVars(ServeEnds(r))
  /\ \A p \in HProcs, t \in HToks : WF_hVars(CacheExpires(p, t))

(***************************************************************************)
(* Properties.                                                             *)
(***************************************************************************)
Barred(t) == hTok[t].user # Nobody /\ (~hUser[hTok[t].user].active \/ IssuedBefore(t, hUser[hTok[t].user].stamp))
Served(t) == \E r \in HReqs : hReq[r].pc = "served" /\ hReq[r].tok = t

\* A session that stays barred, by a newer credentials stamp or by the deactivation of its
\* user, is refused for good after a while, whatever the caches of the processes hold.
BarredIsRefused == \A t \in HToks : <>[]Barred(t) => <>[]~Served(t)

=============================================================================
