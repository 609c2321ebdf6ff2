----------------------------- MODULE EmbedCache -----------------------------
(***************************************************************************)
(* embed_batch of CodeEmbedder and DocEmbedder (embedding/): query threads *)
(* share one embedder and its LRU cache, an OrderedDict without a lock.    *)
(* Each step is one operation on the cache, or one forward pass.  The      *)
(* vector of a text is the text.                                           *)
(***************************************************************************)
EXTENDS Naturals, Sequences, FiniteSets, SequencesExt

CONSTANTS
  Threads,     \* the threads that embed
  Texts,       \* what they embed
  Blank,       \* the blank ones: DocEmbedder gives them the zero vector
  Batches,     \* the batches they may ask for
  CacheSizes,  \* the values of cache_maxsize; 0 limits nothing
  BatchSize,   \* texts per forward pass
  Zero, None   \* the zero vector; no vector yet

ASSUME EmbedCacheAssumption ==
  /\ IsFiniteSet(Threads) /\ IsFiniteSet(Texts)
  /\ Blank \subseteq Texts
  /\ Batches \subseteq Seq(Texts)
  /\ CacheSizes \subseteq Nat
  /\ BatchSize \in Nat \ {0}
  /\ {Zero, None} \cap Texts = {} /\ Zero # None

VARIABLES
  limit,    \* cache_maxsize
  cache,    \* the cached texts, the least recently used first
  cleared,  \* has clear_cache been called (history)
  pc, batch, at,
  misses,   \* the distinct texts of the batch that were not cached
  pass,     \* those the last forward pass computed, still to be stored
  results

thread == <<pc, batch, at, misses, pass, results>>
vars == <<limit, cache, cleared, thread>>

Keys == Texts \ Blank

TypeOK ==
  /\ limit \in CacheSizes
  /\ cache \in Seq(Keys)
  /\ cleared \in BOOLEAN
  /\ pc \in [Threads -> {"idle", "get", "touch", "forward", "store", "check", "pop", "done", "failed"}]
  /\ batch \in [Threads -> Batches \cup {<<>>}]
  /\ at \in [Threads -> Nat]
  /\ misses \in [Threads -> Seq(Keys)] /\ pass \in [Threads -> Seq(Keys)]
  /\ results \in [Threads -> Seq(Texts \cup {Zero, None})]

Init ==
  /\ limit \in CacheSizes
  /\ cache = <<>> /\ cleared = FALSE
  /\ pc = [t \in Threads |-> "idle"]
  /\ batch = [t \in Threads |-> <<>>]
  /\ at = [t \in Threads |-> 1]
  /\ misses = [t \in Threads |-> <<>>] /\ pass = [t \in Threads |-> <<>>]
  /\ results = [t \in Threads |-> <<>>]

GoTo(t, label) == pc' = [pc EXCEPT ![t] = label]

Begin(t) ==
  /\ pc[t] \in {"idle", "done", "failed"}
  /\ \E b \in Batches :
       /\ batch' = [batch EXCEPT ![t] = b]
       /\ results' = [results EXCEPT ![t] = [i \in DOMAIN b |-> None]]
  /\ at' = [at EXCEPT ![t] = 1]
  /\ misses' = [misses EXCEPT ![t] = <<>>] /\ pass' = [pass EXCEPT ![t] = <<>>]
  /\ GoTo(t, "get")
  /\ UNCHANGED <<limit, cache, cleared>>

\* The text the thread looks up.
Looking(t) == pc[t] = "get" /\ at[t] <= Len(batch[t])
Text(t) == batch[t][at[t]]

GetBlank(t) ==
  /\ Looking(t) /\ Text(t) \in Blank
  /\ results' = [results EXCEPT ![t][at[t]] = Zero]
  /\ at' = [at EXCEPT ![t] = @ + 1]
  /\ UNCHANGED <<limit, cache, cleared, pc, batch, misses, pass>>

GetHit(t) ==
  /\ Looking(t) /\ Text(t) \in ToSet(cache)
  /\ results' = [results EXCEPT ![t][at[t]] = Text(t)]
  /\ GoTo(t, "touch")
  /\ UNCHANGED <<limit, cache, cleared, batch, at, misses, pass>>

GetMiss(t) ==
  /\ Looking(t) /\ Text(t) \notin Blank \cup ToSet(cache)
  /\ misses' = [misses EXCEPT ![t] = IF Text(t) \in ToSet(@) THEN @ ELSE Append(@, Text(t))]
  /\ at' = [at EXCEPT ![t] = @ + 1]
  /\ UNCHANGED <<limit, cache, cleared, pc, batch, pass, results>>

PlaceOf(text) == CHOOSE i \in DOMAIN cache : cache[i] = text

\* move_to_end(key): a KeyError if another thread has evicted it since.
Touch(t) ==
  /\ pc[t] = "touch"
  /\ IF Text(t) \in ToSet(cache)
     THEN /\ cache' = Append(RemoveAt(cache, PlaceOf(Text(t))), Text(t))
          /\ at' = [at EXCEPT ![t] = @ + 1]
          /\ GoTo(t, "get")
     ELSE GoTo(t, "failed") /\ UNCHANGED <<cache, at>>
  /\ UNCHANGED <<limit, cleared, batch, misses, pass, results>>

\* The texts that were not cached are computed in passes of BatchSize.
Scanned(t) ==
  /\ pc[t] = "get" /\ at[t] > Len(batch[t])
  /\ GoTo(t, "forward")
  /\ UNCHANGED <<limit, cache, cleared, batch, at, misses, pass, results>>

Forward(t) ==
  /\ pc[t] = "forward" /\ misses[t] # <<>>
  /\ LET n == IF Len(misses[t]) < BatchSize THEN Len(misses[t]) ELSE BatchSize
     IN  /\ pass' = [pass EXCEPT ![t] = SubSeq(misses[t], 1, n)]
         /\ misses' = [misses EXCEPT ![t] = SubSeq(@, n + 1, Len(@))]
  /\ GoTo(t, "store")
  /\ UNCHANGED <<limit, cache, cleared, batch, at, results>>

\* The model cannot be loaded, or the pass fails.
ForwardRaises(t) ==
  /\ pc[t] = "forward" /\ misses[t] # <<>>
  /\ GoTo(t, "failed")
  /\ UNCHANGED <<limit, cache, cleared, batch, at, misses, pass, results>>

\* Mutant: the vector goes to the first place of its text only.
StoreOnce(t) ==
  /\ pc[t] = "store" /\ pass[t] # <<>>
  /\ LET text == Head(pass[t])
         first == CHOOSE i \in DOMAIN batch[t] :
                    batch[t][i] = text /\ \A j \in 1..(i - 1) : batch[t][j] # text
     IN  /\ results' = [results EXCEPT ![t][first] = text]
         /\ cache' = IF text \in ToSet(cache) THEN cache ELSE Append(cache, text)
  /\ pass' = [pass EXCEPT ![t] = Tail(@)]
  /\ GoTo(t, "check")
  /\ UNCHANGED <<limit, cleared, batch, at, misses>>

\* The vector goes to every place of its text, and into the cache: a text that
\* another thread has cached meanwhile keeps its place there.
Store(t) ==
  /\ pc[t] = "store" /\ pass[t] # <<>>
  /\ LET text == Head(pass[t])
     IN  /\ results' = [results EXCEPT ![t] =
                          [i \in DOMAIN @ |-> IF batch[t][i] = text THEN text ELSE @[i]]]
         /\ cache' = IF text \in ToSet(cache) THEN cache ELSE Append(cache, text)
  /\ pass' = [pass EXCEPT ![t] = Tail(@)]
  /\ GoTo(t, "check")
  /\ UNCHANGED <<limit, cleared, batch, at, misses>>

\* Mutant: a full cache evicts as well.
CheckEarly(t) ==
  /\ pc[t] = "check"
  /\ GoTo(t, IF limit # 0 /\ Len(cache) >= limit THEN "pop" ELSE "store")
  /\ UNCHANGED <<limit, cache, cleared, batch, at, misses, pass, results>>

\* Mutant: the cache may hold one more.
CheckLate(t) ==
  /\ pc[t] = "check"
  /\ GoTo(t, IF limit # 0 /\ Len(cache) > limit + 1 THEN "pop" ELSE "store")
  /\ UNCHANGED <<limit, cache, cleared, batch, at, misses, pass, results>>

Check(t) ==
  /\ pc[t] = "check"
  /\ GoTo(t, IF limit # 0 /\ Len(cache) > limit THEN "pop" ELSE "store")
  /\ UNCHANGED <<limit, cache, cleared, batch, at, misses, pass, results>>

\* popitem(last=False): a KeyError if the cache has been emptied since.
Pop(t) ==
  /\ pc[t] = "pop"
  /\ IF cache = <<>> THEN GoTo(t, "failed") /\ UNCHANGED cache
     ELSE GoTo(t, "store") /\ cache' = Tail(cache)
  /\ UNCHANGED <<limit, cleared, batch, at, misses, pass, results>>

Stored(t) ==
  /\ pc[t] = "store" /\ pass[t] = <<>>
  /\ GoTo(t, "forward")
  /\ UNCHANGED <<limit, cache, cleared, batch, at, misses, pass, results>>

Return(t) ==
  /\ pc[t] = "forward" /\ misses[t] = <<>>
  /\ GoTo(t, "done")
  /\ UNCHANGED <<limit, cache, cleared, batch, at, misses, pass, results>>

ClearCache ==
  /\ cache' = <<>> /\ cleared' = TRUE
  /\ UNCHANGED <<limit, thread>>

Embed(t) ==
  \/ Begin(t) \/ GetBlank(t) \/ GetHit(t) \/ GetMiss(t) \/ Touch(t) \/ Scanned(t)
  \/ Forward(t) \/ ForwardRaises(t) \/ Store(t) \/ Check(t) \/ Pop(t) \/ Stored(t) \/ Return(t)

Next == ClearCache \/ \E t \in Threads : Embed(t)

Spec == Init /\ [][Next]_vars

-----------------------------------------------------------------------------
Vector(text) == IF text \in Blank THEN Zero ELSE text

\* A batch that is answered has, at each place, the vector of the text there:
\* whatever is cached, evicted or computed meanwhile by other threads, and
\* however often a text occurs (code_embedder.py:176-178, 227).
VectorsMatch ==
  \A t \in Threads : pc[t] = "done" => results[t] = [i \in DOMAIN batch[t] |-> Vector(batch[t][i])]

\* The cache holds a text once, and more than cache_maxsize of them only while
\* as many threads are about to evict one.  A cache_maxsize of 0 bounds nothing: the
\* eviction asks for a truthy one (code_embedder.py:224; see ZeroDisablesCache).
Evicting == {t \in Threads : pc[t] \in {"check", "pop"}}
CacheBounded ==
  /\ limit # 0 => Len(cache) <= limit + Cardinality(Evicting)
  /\ \A i, j \in DOMAIN cache : cache[i] = cache[j] => i = j

\* "Upper bound on cached embeddings (0 disables cache)" (code_embedder.py:86; also
\* doc_embedder.py:400): with a cache_maxsize of 0 nothing stays cached.
ZeroDisablesCache == limit = 0 /\ Evicting = {} => cache = <<>>

\* The unlocked accesses to the cache cannot fail as long as it is large enough
\* for every text in use and is not cleared: only the model can.
Racing == {t \in Threads : pc[t] = "touch" /\ Text(t) \notin ToSet(cache)}
            \cup {t \in Threads : pc[t] = "pop"}
FailsOnlyWhenFull ==
  (limit = 0 \/ Cardinality(Keys) <= limit) /\ ~cleared => Racing = {}
=============================================================================
