------------------------------ MODULE Retrieval ------------------------------
(***************************************************************************)
(* How the answers of the search backends become one ranking: the merges   *)
(* of VectorSearch and BM25Search (retrieval/), reciprocal rank fusion     *)
(* (retrieval/fusion.py), the reranker and the best of all steps           *)
(* (api/routes/query.py).                                                  *)
(*                                                                         *)
(* A result has a file, lines start to end (0 for None), a text, which is  *)
(* the sequence of the lines of the file it shows, and a score.            *)
(***************************************************************************)
EXTENDS Selections, FiniteSets, FiniteSetsExt

CONSTANTS
  RrfConstant,  \* settings.rrf_constant
  MaxRank       \* bound: the length of the lists that are fused

ASSUME RetrievalAssumption == RrfConstant \in Nat \ {0} /\ MaxRank \in Nat \ {0}

Key(r) == <<r.file, r.start, r.end>>

\* sorted(): stable, r before s when Before(r, s).
Sorted(seq, Before(_, _)) ==
  LET place(i) == 1 + Cardinality({j \in DOMAIN seq :
                     Before(seq[j], seq[i]) \/ (j < i /\ ~Before(seq[i], seq[j]))})
  IN  [p \in DOMAIN seq |-> seq[CHOOSE i \in DOMAIN seq : place(i) = p]]

ByScore(seq) == Sorted(seq, LAMBDA r, s : r.score > s.score)
Top(seq, k) == SubSeq(seq, 1, Min({k, Len(seq)}))

\* The first of each key.
FirstOfKeys(seq) ==
  Pick(seq, {i \in DOMAIN seq : \A j \in 1..(i - 1) : Key(seq[j]) # Key(seq[i])})

\* Each key once, where it was first seen, as the first result with its best score.
BestOfKeys(seq) ==
  LET best(key) == CHOOSE i \in DOMAIN seq :
        /\ Key(seq[i]) = key
        /\ \A j \in DOMAIN seq : Key(seq[j]) = key =>
             seq[j].score < seq[i].score \/ (seq[j].score = seq[i].score /\ i <= j)
      firsts == FirstOfKeys(seq)
  IN  [k \in DOMAIN firsts |-> seq[best(Key(firsts[k]))]]

-----------------------------------------------------------------------------
\* VectorSearch.search: code and documentation points in one ranking; the query
\* that fails adds nothing, and both fail the search.  score > 0 only.
VectorResults(code, docs, k) ==
  Top(ByScore(BestOfKeys(Where(code \o docs, LAMBDA r : r.score > 0))), k)

\* BM25Search.search: the results whose symbol is the query count double.
Bm25Results(hits, exact, k) ==
  Top(ByScore([i \in DOMAIN hits |->
         IF i \in exact THEN [hits[i] EXCEPT !.score = 2 * @] ELSE hits[i]]), k)

\* search_graph: each symbol's neighbours, the first of each key.
GraphResults(neighbours, k) == Top(ByScore(FirstOfKeys(FlattenSeq(neighbours))), k)

-----------------------------------------------------------------------------
(* Reciprocal rank fusion.  Scores are in units of 1/Scale.                *)
Scale == FoldLeft(LAMBDA n, rank : n * (RrfConstant + rank), 1, [rank \in 1..MaxRank |-> rank])

Contribution(rank) == Scale \div (RrfConstant + rank)

\* The rank of a key in a list, 0 if it is not there.
Rank(list, key) == SelectInSeq(list, LAMBDA r : Key(r) = key)

\* The lists that have a key.
Ranking(lists, key) == {i \in DOMAIN lists : Rank(lists[i], key) # 0}

\* Mutant: a result that is twice in a list scores twice.
RrfScoreTwice(lists, key) ==
  LET gains(list) == MapThenSumSet(Contribution, {p \in DOMAIN list : Key(list[p]) = key})
  IN  FoldLeft(LAMBDA sum, list : sum + gains(list), 0, lists)

RrfScore(lists, key) ==
  LET gain(list) == IF Rank(list, key) = 0 THEN 0 ELSE Contribution(Rank(list, key))
  IN  FoldLeft(LAMBDA sum, list : sum + gain(list), 0, lists)

\* The best rank of a result's key, and its result in the first list with it.
BestRank(lists, key) == Min({Rank(lists[i], key) : i \in Ranking(lists, key)})
Representative(lists, key) ==
  lists[SelectInSeq(lists, LAMBDA list : Rank(list, key) = BestRank(lists, key))][BestRank(lists, key)]

ReciprocalRankFusion(lists) ==
  LET keys == FirstOfKeys(FlattenSeq(lists))
      fused == [i \in DOMAIN keys |->
                  [result |-> [Representative(lists, Key(keys[i])) EXCEPT
                                 !.score = RrfScore(lists, Key(keys[i]))],
                   rank   |-> BestRank(lists, Key(keys[i]))]]
      before(f, g) == \/ f.result.score > g.result.score
                      \/ f.result.score = g.result.score /\ f.rank < g.rank
      ranking == Sorted(fused, before)
  IN  [i \in DOMAIN ranking |-> ranking[i].result]

\* CrossEncoderReranker.rerank: by the model's scores, ties in their old order.
Reranked(window, scores, k) ==
  Top(ByScore([i \in DOMAIN window |-> [window[i] EXCEPT !.score = scores[i]]]), k)

-----------------------------------------------------------------------------
\* A result that no backend ranks below another, and some backend finds where it
\* does not find the other or ranks it above, is not below it when fused: a
\* backend that fails or finds nothing changes no order (query.py:189-191).
FusionKeepsOrder(lists, fused) ==
  LET atLeast(list, r, s) ==
        Rank(list, Key(s)) # 0 => Rank(list, Key(r)) # 0 /\ Rank(list, Key(r)) <= Rank(list, Key(s))
  IN  \A i, j \in DOMAIN fused :
        (\A list \in ToSet(lists) : atLeast(list, fused[i], fused[j])) => i <= j
=============================================================================
