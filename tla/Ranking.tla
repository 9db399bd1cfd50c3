-------------------------------- MODULE Ranking --------------------------------
(***************************************************************************)
(* How the hits of a search are put in order: rag/retrieval/fusion and     *)
(* Retriever.retrieve_with_diagnostics with its _attach_authority and      *)
(* _rerank, as functions of what the two legs found and, for a question    *)
(* that was rewritten, of what its rewriting found.                        *)
(*                                                                         *)
(* A hit stands for its chunk_id.  Scores are whole numbers: 1 / (k + n)   *)
(* times the product of its denominators, which keeps order and equality.  *)
(***************************************************************************)
EXTENDS Integers, Sequences, FiniteSets, SequencesExt, Functions

CONSTANTS
  Hits,      \* chunks
  MaxFound,  \* BOUND: hits of a list
  RrfK,      \* rrf_k
  Levels     \* the values of SourceAuthority that occur

SourceAuthority == {"national_law", "company_policy", "vendor_template", "reference", "unknown"}

ASSUME RankingAssumption ==
  MaxFound \in Nat /\ RrfK \in Nat \ {0} /\ Levels \subseteq SourceAuthority

VARIABLES
  dense, sparse,  \* what each leg found of the question, best first
  variant,        \* what was found of its rewriting
  level           \* documents.authority of each hit's document, unknown without a row

rankingVars == <<dense, sparse, variant, level>>

Lists == {s \in BoundedSeq(Hits, MaxFound) : IsInjective(s)}

RankingInit ==
  /\ dense \in Lists /\ sparse \in Lists /\ variant \in Lists
  /\ level \in [Hits -> Levels]

\* _AUTHORITY_TIE_RANK
TieRank(l) == CASE l \in {"national_law", "company_policy"} -> 2
                [] l \in {"vendor_template", "reference"} -> 1
                [] OTHER -> 0

\* A list in the order of Ahead, and where that does not decide as it was: each hit
\* goes behind those that come before it.
StableSort(s, Ahead(_, _)) ==
  LET Before(i) == {j \in DOMAIN s : Ahead(s[j], s[i]) \/ (~Ahead(s[i], s[j]) /\ j < i)}
      place == [i \in DOMAIN s |-> Cardinality(Before(i)) + 1]
  IN [k \in DOMAIN s |-> s[CHOOSE i \in DOMAIN s : place[i] = k]]

Ranked(s, score) == StableSort(s, LAMBDA g, h : score[g] > score[h])

\* A retriever that fills in the authority after it has fused finds it unknown here.
TieBroken_AuthorityUnknown(s, score) == s

\* apply_authority_tie_break, of a list in the order of its scores: equal ones
\* go by authority.
TieBroken(s, score) ==
  StableSort(s, LAMBDA g, h :
    score[g] > score[h] \/ (score[g] = score[h] /\ TieRank(level[g]) > TieRank(level[h])))

Denominators ==
  LET product[n \in 0..MaxFound] == IF n = 0 THEN 1 ELSE product[n - 1] * (RrfK + n - 1)
  IN product[MaxFound]

\* A list that does not have a hit ranks it last.
Rank(s, h) == IF Contains(s, h) THEN SelectInSeq(s, LAMBDA g : g = h) ELSE Len(s) + 1

\* What a list adds to the score of a hit.
Share(s, h) == IF Contains(s, h) THEN Denominators \div (RrfK + Rank(s, h) - 1) ELSE 0

Score_OncePerHit(first, second, h) == IF Contains(first, h) THEN Share(first, h) ELSE Share(second, h)
Score(first, second, h) == Share(first, h) + Share(second, h)

\* Hits in the order in which they are first met.
Met(first, second) ==
  LET upTo[n \in 0..Len(second)] ==
        IF n = 0 THEN first
        ELSE IF Contains(first, second[n]) THEN upTo[n - 1] ELSE Append(upTo[n - 1], second[n])
  IN upTo[Len(second)]

\* rrf_fusion without its cut; fuse_query_variants does the same to two results.
Fused(first, second) ==
  LET score == [h \in Hits |-> Score(first, second, h)]
  IN TieBroken(Ranked(Met(first, second), score), score)

Topmost(s, topK) == SubSeq(s, 1, IF topK < Len(s) THEN topK ELSE Len(s))

\* retrieve_with_diagnostics with one leg, whose native scores do not rise.
OneLeg(found, native) == TieBroken(found, native)

\* _rerank: similarities to the question, or nothing changes because there are none.
Reranked(s, similarity, topK) == IF Len(s) < 2 THEN s ELSE Topmost(Ranked(s, similarity), topK)

\* _hybrid_with_diagnostics, of as many hits as the answer may use, ...
Question == Topmost(Fused(dense, sparse), MaxFound)

\* ... and what is left when they are fused with those of the rewriting.
Evidence == Topmost(Fused(Question, variant), MaxFound)

RankingSpec == RankingInit /\ [][UNCHANGED rankingVars]_rankingVars

--------------------------------------------------------------------------------

RankingTypeOK == {dense, sparse, variant} \subseteq Lists /\ level \in [Hits -> Levels]

Sooner(s, g, h) == Rank(s, g) < Rank(s, h)

\* Both lists agree that g is no worse than h, and one has it better.
Beats(first, second, g, h) ==
  /\ Rank(first, g) <= Rank(first, h) /\ Rank(second, g) <= Rank(second, h)
  /\ Sooner(first, g, h) \/ Sooner(second, g, h)

\* "A chunk appearing in both lists accumulates score from both" and only exact ties
\* go to the more authoritative source (fusion.py): no hit stands before one that
\* beats it, nor before one of equal score and higher authority, in either fusion.
FusedInOrder(first, second) ==
  LET s == Fused(first, second) IN
    \A g, h \in ToSet(s) :
      \/ Beats(first, second, g, h)
      \/ Score(first, second, g) = Score(first, second, h)
         /\ TieRank(level[g]) > TieRank(level[h])
      => Sooner(s, g, h)

\* One leg on its own: by its scores, and equal ones by authority.
OneLegInOrder(found) ==
  \A native \in [Hits -> 0..1] :
    (\A i \in 2..Len(found) : native[found[i]] <= native[found[i - 1]]) =>
      LET s == OneLeg(found, native) IN
        \A i \in 2..Len(s) : \/ native[s[i - 1]] > native[s[i]]
                             \/ TieRank(level[s[i - 1]]) >= TieRank(level[s[i]])

\* "It never adds or drops evidence" (_rerank).
RerankKeeps(s) ==
  \A similarity \in [Hits -> 0..1] : ToSet(Reranked(s, similarity, MaxFound)) = ToSet(s)

\* The order of the evidence is the one both retrievals justify, whichever way the
\* hits came in, and no hit is left out for one that it beats.
BetterHitsComeFirst ==
  /\ FusedInOrder(dense, sparse) /\ FusedInOrder(Question, variant)
  /\ \A g \in ToSet(Evidence), h \in ToSet(Question \o variant) \ ToSet(Evidence) :
       ~Beats(Question, variant, h, g)
  /\ OneLegInOrder(dense) /\ RerankKeeps(Question)
================================================================================
