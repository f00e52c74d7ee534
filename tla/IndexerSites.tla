---------------------------- MODULE IndexerSites -----------------------------
(***************************************************************************)
(* The table of native indexer sites with their mirrors, its editors, and  *)
(* the NativeIndexer that a process builds from the table and keeps.       *)
(*                                                                         *)
(* An update reads the row, checks the mirror rules against what it read   *)
(* and writes the columns that it changed; a search reads the table and    *)
(* builds the indexer later, when none is kept.                            *)
(***************************************************************************)
EXTENDS Integers, FiniteSets, Sequences, SequencesExt, Functions, Sublists

CONSTANTS JSites, JUrls,
          JPreloaded,    \* sites that ship with the code
          JSeeded,       \* the addresses that ship with them
          JEditors,      \* requests that change a site
          JReaders,      \* searches that need the indexer
          JMaxEdits

ASSUME IndexerSitesAssumption ==
  /\ JPreloaded \subseteq JSites /\ JSeeded \in Seq(JUrls) /\ JSeeded # <<>> /\ IsInjective(JSeeded)
  /\ JMaxEdits \in Nat

VARIABLES jSites,    \* the table
          jCache,    \* what the kept indexer was built from
          jEdit,     \* per request: the row it read and the row it wants
          jRead,     \* per search: the table it read
          jEdits
jVars == <<jSites, jCache, jEdit, jRead, jEdits>>

Mirror(u, on, seeded) == [url |-> u, on |-> on, seeded |-> seeded]
Urls(mirrors) == {m.url : m \in Range(mirrors)}
EnabledUrls(mirrors) == {m.url : m \in {x \in Range(mirrors) : x.on}}

\* mirrors_from_urls: the active address first, the rest in order.
MirrorsFromUrls(urls, active, seeded) ==
  LET all == <<active>> \o Filtered(urls, LAMBDA u : u # active) IN [n \in DOMAIN all |-> Mirror(all[n], TRUE, seeded)]
NewSite(url, urls, preloaded) ==
  [on |-> TRUE, cloudflare |-> FALSE, preloaded |-> preloaded, active |-> url, mirrors |-> MirrorsFromUrls(urls, url, preloaded)]

NoSites == [s \in {} |-> NewSite(JSeeded[1], <<>>, TRUE)]
NoIndexerCache == [built |-> FALSE, of |-> NoSites]
IdleEdit == [site |-> "nosite", old |-> NewSite(JSeeded[1], <<>>, TRUE), new |-> NewSite(JSeeded[1], <<>>, TRUE)]

\* Sites and mirrors; no URL is twice among the mirrors of a site (indexers/mirror_state.py).
IndexerSitesTypeOK ==
  /\ DOMAIN jSites \subseteq JSites /\ DOMAIN jCache.of \subseteq JSites /\ jEdits \in 0..JMaxEdits
  /\ \A s \in DOMAIN jSites : /\ jSites[s].active \in JUrls /\ Urls(jSites[s].mirrors) \subseteq JUrls
                              /\ Cardinality(Urls(jSites[s].mirrors)) = Len(jSites[s].mirrors)

IndexerSitesInit ==
  /\ jSites = [s \in JPreloaded |-> NewSite(JSeeded[1], <<JSeeded[1]>>, TRUE)] /\ jCache = NoIndexerCache
  /\ jEdit = [e \in JEditors |-> IdleEdit] /\ jRead = [r \in JReaders |-> NoIndexerCache] /\ jEdits = 0

Counted == jEdits < JMaxEdits /\ jEdits' = jEdits + 1
InvalidateNativeIndexer == jCache' = NoIndexerCache
KeepIndexer == UNCHANGED jCache

(***************************************************************************)
(* Editors.                                                                *)
(***************************************************************************)

\* apply_user_update: sources as stored, no seeded mirror dropped, the active one enabled.
Reconciled(old, new) ==
  [n \in DOMAIN new |-> Mirror(new[n].url, new[n].on, \E m \in Range(old) : m.url = new[n].url /\ m.seeded)]
UserUpdateAllowed(old, new, active) ==
  /\ \A m \in Range(old) : m.seeded => m.url \in Urls(new)
  /\ active \in EnabledUrls(new)

Addresses == {<<u>> : u \in JUrls} \cup {p \in JUrls \X JUrls : p[1] # p[2]}
Proposals == {[n \in DOMAIN us |-> Mirror(us[n], on[n], FALSE)] : us \in Addresses, on \in [1..2 -> BOOLEAN]}

\* What one request may ask for: on or off, another address, another list of mirrors.
WantedMirrors(old) ==
  {[old EXCEPT !.on = ~@]}
  \cup {[old EXCEPT !.active = u,
                    !.mirrors = IF u \in EnabledUrls(old.mirrors) THEN @
                                ELSE Reconciled(@, <<Mirror(u, TRUE, FALSE)>> \o Filtered(@, LAMBDA m : m.url # u))] : u \in JUrls}
  \cup {[old EXCEPT !.mirrors = Reconciled(old.mirrors, new)] : new \in {p \in Proposals : UserUpdateAllowed(old.mirrors, p, old.active)}}

UpdateSite(e, s) ==
  /\ jEdit[e] = IdleEdit /\ s \in DOMAIN jSites /\ Counted
  /\ \E new \in WantedMirrors(jSites[s]) : jEdit' = [jEdit EXCEPT ![e] = [site |-> s, old |-> jSites[s], new |-> new]]
  /\ UNCHANGED <<jSites, jCache, jRead>>

\* The test of a site probes its mirrors and writes what it learns of the first one.
TestSite(e, s, challenged) ==
  /\ jEdit[e] = IdleEdit /\ s \in DOMAIN jSites /\ Counted /\ jSites[s].cloudflare # challenged
  /\ jEdit' = [jEdit EXCEPT ![e] = [site |-> s, old |-> jSites[s], new |-> [jSites[s] EXCEPT !.cloudflare = challenged]]]
  /\ UNCHANGED <<jSites, jCache, jRead>>

\* Only the columns that the request changed are written; the row may be gone.
Merged(row, e) == [c \in DOMAIN row |-> IF jEdit[e].new[c] # jEdit[e].old[c] THEN jEdit[e].new[c] ELSE row[c]]

CommitSite(e) ==
  /\ jEdit[e] # IdleEdit /\ jEdit' = [jEdit EXCEPT ![e] = IdleEdit]
  /\ IF jEdit[e].site \in DOMAIN jSites
     THEN jSites' = [jSites EXCEPT ![jEdit[e].site] = Merged(@, e)] /\ InvalidateNativeIndexer
     ELSE UNCHANGED jSites /\ KeepIndexer
  /\ UNCHANGED <<jRead, jEdits>>

CreateSite(s, u) ==
  /\ s \in JSites \ (DOMAIN jSites \cup JPreloaded) /\ Counted /\ InvalidateNativeIndexer
  /\ jSites' = [t \in DOMAIN jSites \cup {s} |-> IF t = s THEN NewSite(u, <<>>, FALSE) ELSE jSites[t]]
  /\ UNCHANGED <<jEdit, jRead>>

DeleteSite(s) ==
  /\ s \in DOMAIN jSites /\ ~jSites[s].preloaded /\ Counted /\ InvalidateNativeIndexer
  /\ jSites' = Restrict(jSites, DOMAIN jSites \ {s}) /\ UNCHANGED <<jEdit, jRead>>

\* At start: the mirrors of the preloaded sites are completed, a retired site goes.
Reseeded(old) ==
  LET fresh == Filtered(JSeeded, LAMBDA u : u \notin Urls(old)) IN
  [n \in DOMAIN old |-> Mirror(old[n].url, old[n].on, old[n].url \in Range(JSeeded))]
  \o [n \in DOMAIN fresh |-> Mirror(fresh[n], TRUE, TRUE)]

SeedPreloadedSites(retired) ==
  /\ Counted /\ InvalidateNativeIndexer
  /\ jSites' = [s \in {t \in DOMAIN jSites : ~(jSites[t].preloaded /\ t \in retired)} |->
                  IF jSites[s].preloaded THEN [jSites[s] EXCEPT !.mirrors = Reseeded(@)] ELSE jSites[s]]
  /\ UNCHANGED <<jEdit, jRead>>

(***************************************************************************)
(* Searches.                                                               *)
(***************************************************************************)
GetAllSites(r) ==
  /\ jRead[r] = NoIndexerCache /\ jRead' = [jRead EXCEPT ![r] = [built |-> TRUE, of |-> jSites]]
  /\ UNCHANGED <<jSites, jCache, jEdit, jEdits>>

GetNativeIndexer(r) ==
  /\ jRead[r].built /\ jRead' = [jRead EXCEPT ![r] = NoIndexerCache]
  /\ jCache' = IF jCache.built THEN jCache ELSE jRead[r]
  /\ UNCHANGED <<jSites, jEdit, jEdits>>

IndexerSitesNext ==
  \/ \E e \in JEditors : \/ CommitSite(e)
                         \/ \E s \in JSites : UpdateSite(e, s) \/ \E c \in BOOLEAN : TestSite(e, s, c)
  \/ \E s \in JSites : DeleteSite(s) \/ \E u \in JUrls : CreateSite(s, u)
  \/ \E retired \in SUBSET JPreloaded : SeedPreloadedSites(retired)
  \/ \E r \in JReaders : GetAllSites(r) \/ GetNativeIndexer(r)
IndexerSitesSpec == IndexerSitesInit /\ [][IndexerSitesNext]_jVars

(***************************************************************************)
(* Properties.                                                             *)
(***************************************************************************)

\* "Clear the cached NativeIndexer so it's rebuilt on next use": with no search between its read
\* and its build, the kept indexer was built from the table as it is.
KeptIndexerIsCurrent == (\A r \in JReaders : jRead[r] = NoIndexerCache) /\ jCache.built => jCache.of = jSites

\* "The active url must remain present and enabled", whatever requests overlap.
ActiveMirrorEnabled == \A s \in DOMAIN jSites : jSites[s].active \in EnabledUrls(jSites[s].mirrors)

=============================================================================
