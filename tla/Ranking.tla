------------------------------- MODULE Ranking -------------------------------
(***************************************************************************)
(* What a search keeps of the releases that the indexers answer, and in    *)
(* which order; and the preview of a score that the settings page shows.   *)
(*                                                                         *)
(* The title of a release is kept as what the code reads from it: the name *)
(* it leads with ("full", the part before the colon, "main", or "other"),  *)
(* what follows that name, the years, the season and episode tag, and the  *)
(* other words.                                                            *)
(***************************************************************************)
EXTENDS Integers, FiniteSets, Sequences, FiniteSetsExt, SequencesExt, Sublists

CONSTANTS KReleases,    \* releases an indexer may list
          KConfigs,     \* settings of the indexers section
          KWanted,      \* what is searched for
          KMaxAnswers

ReleaseTyped(r) == r.usenet \in BOOLEAN /\ {r.seeders, r.age, r.mb} \subseteq Int
OptionsTyped(o) == o \in Seq(Range(o)) /\ \A n \in DOMAIN o : o[n].mod \in Int
ConfigTyped(c) ==
  /\ {c.minSeeders, c.maxSeeders, c.minMb, c.maxMb, c.recency, c.decay} \subseteq Int
  /\ IsFiniteSet(c.sets) /\ IsFiniteSet(c.rules) /\ \A rule \in c.rules : rule.mod \in Int
  /\ OptionsTyped(c.qualities) /\ OptionsTyped(c.codecs)

ASSUME RankingAssumption ==
  KMaxAnswers \in Nat /\ (\A r \in KReleases : ReleaseTyped(r)) /\ (\A c \in KConfigs : ConfigTyped(c))

VARIABLES kCfg, kWant,
          kPool,     \* the answers, in the order they arrived
          kList,     \* the ranked list
          kShown     \* chunks that a streamed search has shown

kVars == <<kCfg, kWant, kPool, kList, kShown>>

\* The settings, what is wanted and the ranked answers (indexers/utils.py).
RankingTypeOK ==
  /\ kCfg \in KConfigs /\ kWant \in KWanted /\ kPool \in Seq(KReleases) /\ kList \in Seq(KReleases)
  /\ kShown \subseteq KReleases

RankingInit == kCfg \in KConfigs /\ kWant \in KWanted /\ kPool = <<>> /\ kList = <<>> /\ kShown = {}

(***************************************************************************)
(* What a title says.                                                      *)
(***************************************************************************)
Explicit == <<{"2160p"}, {"1080p"}, {"720p"}, {"480p"}>>
Descriptive == <<{"uhd"}, {"fhd"}, {"hd"}, {"dvdrip"}>>
Unknown == 5

\* A resolution wins over a description; 1 is the best quality.
Quality(r) ==
  LET said(table) == {q \in 1..4 : table[q] \cap r.words # {}} IN
  IF said(Explicit) # {} THEN Min(said(Explicit))
  ELSE IF said(Descriptive) # {} THEN Min(said(Descriptive)) ELSE Unknown

SeasonsOf(r) == CASE r.tag.form = "none" -> {} [] r.tag.form = "range" -> r.tag.s .. r.tag.s2 [] OTHER -> {r.tag.s}
EpisodesOf(r) ==
  IF r.tag.form # "episode" THEN {} ELSE IF r.tag.e2 = 0 THEN {r.tag.e} ELSE r.tag.e .. r.tag.e2
LooksLikeEpisode(r) == r.tag.form # "none"

\* Flags and numbers of a torznab item; an item without a size is skipped.
ProcessSearchResult(items) == Filtered(items, LAMBDA r : r.mb >= 0)

(***************************************************************************)
(* Gates.                                                                  *)
(***************************************************************************)
SeedersPass(r) ==
  \/ r.usenet
  \/ /\ kCfg.minSeeders > 0 => r.seeders >= kCfg.minSeeders
     /\ kCfg.maxSeeders > 0 => r.seeders <= kCfg.maxSeeders
SizePasses(r) == /\ kCfg.minMb > 0 => r.mb >= kCfg.minMb
                 /\ kCfg.maxMb > 0 => r.mb <= kCfg.maxMb

\* The part before the colon is good enough only with the year of the title right after it.
NameVariants(m) == {"full"} \cup (IF m.colon /\ ~m.franchise THEN {"main"} ELSE {})
IsTitleRelevant(r, m) ==
  \/ r.lead = "full" /\ r.follows # "word"
  \/ /\ r.lead = "main" /\ "main" \in NameVariants(m)
     /\ m.year # 0 /\ r.years = {m.year} /\ r.follows = "year"

IsSearchQueryRelevant(r, q) ==
  /\ q.words # {} \/ q.seasons # {}
  /\ q.words \subseteq r.words /\ q.seasons \subseteq SeasonsOf(r) /\ q.episodes \subseteq EpisodesOf(r)

IsYearRelevant(r, year) == year = 0 \/ r.years = {} \/ year \in r.years

MediaPasses(r, w) ==
  /\ IF w.query THEN IsSearchQueryRelevant(r, w) ELSE IsTitleRelevant(r, w)
  /\ w.query /\ w.tv => LooksLikeEpisode(r) \/ "special" \in w.words
  /\ ~w.tv => ~LooksLikeEpisode(r) /\ IsYearRelevant(r, w.year)

(***************************************************************************)
(* Scores.                                                                 *)
(***************************************************************************)
Applies(set, w) == w.library \in set.libs \/ (IF w.tv THEN "ALL_TV" ELSE "ALL_MOVIES") \in set.libs
RuleHits(rule, r) == rule.enabled /\ rule.match \cap (IF rule.kind = "title" THEN r.words ELSE r.flags) # {}

\* A rule counts once for each set of rules that applies and lists it.
RuleScore(r, w) ==
  LET pairs == kCfg.sets \X kCfg.rules IN
  SumFunctionOnSet([p \in pairs |-> p[2].mod], {p \in pairs : Applies(p[1], w) /\ p[2].name \in p[1].names /\ RuleHits(p[2], r)})

NoOverride == {"*"}
NoMatch == 0
MatchOption(r, options) ==
  LET hits == {n \in DOMAIN options : options[n].enabled /\ options[n].words \cap r.words # {}} IN
  IF hits = {} THEN NoMatch ELSE Min(hits)

OptionKeeps(r, options, allowed) ==
  /\ MatchOption(r, options) # NoMatch
  /\ allowed \notin {NoOverride, {}} => options[MatchOption(r, options)].name \in allowed
OptionScore(r, options, allowed) == IF allowed = {} THEN 0 ELSE options[MatchOption(r, options)].mod

RecencyBonus(r) ==
  IF kCfg.recency > 0 /\ kCfg.decay > 0 /\ r.age <= kCfg.decay THEN (kCfg.recency * (kCfg.decay - r.age)) \div kCfg.decay ELSE 0
LanguageScore(r) == (IF kCfg.rejected \cap r.words # {} THEN -10000 ELSE 0) + (IF kCfg.preferred \cap r.words # {} THEN 100 ELSE 0)

Score(r, w) == RuleScore(r, w) + OptionScore(r, kCfg.qualities, w.quality) + OptionScore(r, kCfg.codecs, w.codec)
               + LanguageScore(r) + RecencyBonus(r)

Keeps(r, w) ==
  /\ SeedersPass(r) /\ SizePasses(r) /\ MediaPasses(r, w)
  /\ OptionKeeps(r, kCfg.qualities, w.quality) /\ OptionKeeps(r, kCfg.codecs, w.codec)
  /\ Score(r, w) > 0

\* Quality, score, usenet first, then the age of a usenet post or the seeders of a torrent.
BetterUnscored(a, b, w) == Quality(a) < Quality(b)
Better(a, b, w) ==
  IF Quality(a) # Quality(b) THEN Quality(a) < Quality(b)
  ELSE IF Score(a, w) # Score(b, w) THEN Score(a, w) > Score(b, w)
  ELSE IF a.usenet # b.usenet THEN a.usenet
  ELSE IF a.usenet THEN a.age > b.age ELSE a.seeders > b.seeders

\* evaluate_indexer_query_results; the sort is stable.
Evaluate(answers, w) ==
  LET kept == Filtered(answers, LAMBDA r : Keeps(r, w))
      before(i, j) == Better(kept[i], kept[j], w) \/ (~Better(kept[j], kept[i], w) /\ i < j)
  IN  [n \in DOMAIN kept |-> kept[CHOOSE i \in DOMAIN kept : Cardinality({j \in DOMAIN kept : before(j, i)}) = n - 1]]

(***************************************************************************)
(* Searches.                                                               *)
(***************************************************************************)
FilterToSeason(answers, w) == Filtered(answers, LAMBDA r : w.season \in SeasonsOf(r))
FilterToEpisode(answers, w) ==
  Filtered(answers, LAMBDA r : w.season \in SeasonsOf(r) /\ (EpisodesOf(r) = {} \/ w.episode \in EpisodesOf(r)))

\* A special is found by the words of its own title: three in five of them.
FilterToSpecial(answers, w) ==
  Filtered(answers, LAMBDA r : IF w.title = {} THEN "special" \in r.words
                                ELSE 10 * Cardinality(w.title \cap r.words) >= 6 * Cardinality(w.title))

Available(answers, w) ==
  LET right == IF w.query \/ ~w.tv THEN answers
               ELSE IF w.season = 0 THEN FilterToSpecial(answers, w)
               ELSE IF w.episode = 0 THEN FilterToSeason(answers, w) ELSE FilterToEpisode(answers, w)
  IN  Evaluate(right, w)

\* The options chosen on the page, on top of the ranking.
KeywordsFor(options, names) == UNION {options[n].words : n \in {k \in DOMAIN options : options[k].name \in names}}
FilterByOptions(answers, w) ==
  Filtered(answers, LAMBDA r : \A f \in {KeywordsFor(kCfg.qualities, w.pageQuality), KeywordsFor(kCfg.codecs, w.pageCodec)} :
                                   f = {} \/ f \cap r.words # {})

Answered(r) ==
  /\ Len(kPool) < KMaxAnswers /\ r \notin Range(kPool)
  /\ kPool' = ProcessSearchResult(Append(kPool, r))
  /\ UNCHANGED <<kCfg, kWant, kList, kShown>>

Searched == FilterByOptions(Available(kPool, kWant), kWant)
SearchTorrents ==
  /\ kPool # <<>> /\ kList' = Searched
  /\ UNCHANGED <<kCfg, kWant, kPool, kShown>>

\* The streamed search scores each answer on arrival, with the options of the page.
Streamed(w) == IF w.query THEN w ELSE [w EXCEPT !.quality = IF w.pageQuality = {} THEN NoOverride ELSE w.pageQuality,
                                                !.codec = IF w.pageCodec = {} THEN NoOverride ELSE w.pageCodec]
StreamChunk(r) ==
  LET scored == FilterByOptions(Evaluate(<<r>>, Streamed(kWant)), kWant)
      fits == IF kWant.query \/ ~kWant.tv THEN scored
              ELSE IF kWant.episode # 0 THEN FilterToEpisode(scored, kWant) ELSE FilterToSeason(scored, kWant)
  IN  /\ r \in Range(kPool) \ kShown /\ fits # <<>> /\ kShown' = kShown \cup {r}
      /\ UNCHANGED <<kCfg, kWant, kPool, kList>>

RankingNext == \/ \E r \in KReleases : Answered(r) \/ StreamChunk(r)
               \/ SearchTorrents
RankingSpec == RankingInit /\ [][RankingNext]_kVars

(***************************************************************************)
(* The preview of a score.                                                 *)
(***************************************************************************)
Dropped == -10000000
Referenced(rule) == \E set \in kCfg.sets : rule.name \in set.names
PreviewRules(r) ==
  SumFunctionOnSet([rule \in kCfg.rules |-> rule.mod], {rule \in kCfg.rules : Referenced(rule) /\ RuleHits(rule, r)})

\* With no option enabled there is none to miss, and a negative limit is one here.
Enabled(options) == {n \in DOMAIN options : options[n].enabled}
PreviewOption(r, options) ==
  IF MatchOption(r, options) # NoMatch THEN options[MatchOption(r, options)].mod
  ELSE IF Enabled(options) # {} THEN Dropped ELSE 0
PreviewSeeders(r) ==
  (IF kCfg.minSeeders # 0 /\ r.seeders < kCfg.minSeeders THEN Dropped ELSE 0)
  + (IF kCfg.maxSeeders # 0 /\ r.seeders > kCfg.maxSeeders THEN Dropped ELSE 0)

PreviewScore(r) == PreviewRules(r) + PreviewOption(r, kCfg.qualities) + PreviewOption(r, kCfg.codecs)
                   + LanguageScore(r) + RecencyBonus(r) + PreviewSeeders(r)

(***************************************************************************)
(* Properties.                                                             *)
(***************************************************************************)

\* The preview knows no title, size, whitelist or usenet, and counts a rule that any set lists.
PreviewKnows ==
  /\ \A rule \in kCfg.rules : Cardinality({s \in kCfg.sets : rule.name \in s.names /\ Applies(s, kWant)}) =
                               (IF Referenced(rule) THEN 1 ELSE 0)
  /\ kWant.quality = NoOverride /\ kWant.codec = NoOverride /\ kWant.pageQuality = {} /\ kWant.pageCodec = {}

\* What the modifiers give a release never outweighs what the preview takes for a drop.
Matched(r, options) == IF MatchOption(r, options) = NoMatch THEN 0 ELSE options[MatchOption(r, options)].mod
Outweighs(r) == PreviewRules(r) + Matched(r, kCfg.qualities) + Matched(r, kCfg.codecs) + LanguageScore(r) + RecencyBonus(r) > -Dropped

Comparable ==
  /\ PreviewKnows /\ Enabled(kCfg.qualities) # {} /\ Enabled(kCfg.codecs) # {} /\ kCfg.minSeeders >= 0 /\ kCfg.maxSeeders >= 0
  /\ \A r \in KReleases : ~Outweighs(r)

Judged(r) == MediaPasses(r, kWant) /\ SizePasses(r) /\ ~r.usenet

\* Within what it can know, the preview tells the truth about a search: a movie search keeps
\* exactly the releases with a positive preview, whatever order the indexers answered in, and
\* of one quality it puts the release with the higher preview first (indexers/utils.py:
\* preview_score, evaluate_indexer_query_results).
PreviewRanks ==
  Comparable /\ ~kWant.tv =>
    /\ \A r \in Range(kPool) : Judged(r) => (r \in Range(Searched) <=> PreviewScore(r) > 0)
    /\ \A i, j \in DOMAIN Searched :
         i < j /\ Quality(Searched[i]) = Quality(Searched[j]) /\ ~Searched[i].usenet /\ ~Searched[j].usenet
           => PreviewScore(Searched[i]) >= PreviewScore(Searched[j])

\* The panel exists "so users can see exactly why a torrent ranked the way it did": a release
\* with nothing against it in the preview is not one that the search drops.
PreviewTells ==
  PreviewKnows /\ ~kWant.tv => \A r \in Range(kPool) : Judged(r) /\ PreviewScore(r) > 0 => r \in Range(Searched)

=============================================================================
