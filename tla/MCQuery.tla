------------------------------ MODULE MCQuery ------------------------------
(***************************************************************************)
(* Small values for Query.                                                 *)
(***************************************************************************)
EXTENDS Query

Scores(m, e, s) == [t \in QueryTypes |-> CASE t = "multi-hop" -> m
                                           [] t = "exploratory" -> e
                                           [] t = "simple-lookup" -> s]

\* A question the rules are unsure of: they call it multi-hop and, as it names
\* no path, plan the fixed chain of three.
MCQuestions == { [scores |-> Scores(1, 1, 1), endpoints |-> 0] }

Raw(id, deps) == [id |-> id, text |-> TRUE, listed |-> TRUE, deps |-> deps]
Reply(k, raw) == [kind |-> k, steps |-> raw]

\* A failed call, a good plan whose second id is missing, and a forward reference.
MCReplies == { Reply("raises", <<>>),
               Reply("steps", << Raw(7, {}), Raw(0, {7}) >>),
               Reply("steps", << Raw(1, {2}), Raw(2, {}) >>) }

On == [llm |-> TRUE, routerLLM |-> TRUE, key |-> TRUE, graph |-> TRUE]
MCSettings == { On, [On EXCEPT !.key = FALSE, !.graph = FALSE] }

MCThreshold == <<2, 5>>
============================================================================
