--------------------------- MODULE KnowledgeGraph ---------------------------
(***************************************************************************)
(* What persisting a knowledge graph promises, whatever the store: it only *)
(* ever holds parts of the graph it was given, never an edge without its   *)
(* two nodes, and all of it once the call has returned.                    *)
(***************************************************************************)
EXTENDS Naturals

VARIABLES
  wanted,  \* the graph to persist: its nodes and edges <<source, target, type>>
  nodes,   \* the nodes the store holds
  edges,   \* the edges it holds
  done     \* has persist_graph returned

vars == <<wanted, nodes, edges, done>>

WellFormed(N, E) == \A e \in E : e[1] \in N /\ e[2] \in N

Init ==
  /\ WellFormed(wanted.nodes, wanted.edges)
  /\ nodes = {} /\ edges = {} /\ done = FALSE

\* Another graph is given to an empty store.
Offer ==
  /\ nodes = {} /\ edges = {} /\ ~done
  /\ WellFormed(wanted.nodes', wanted.edges')
  /\ UNCHANGED <<nodes, edges, done>>

\* More of the graph is stored; a call that fails leaves what it has stored.
Store ==
  /\ nodes \subseteq nodes' /\ nodes' \subseteq wanted.nodes
  /\ edges \subseteq edges' /\ edges' \subseteq wanted.edges
  /\ WellFormed(nodes', edges')
  /\ done' = FALSE

Return ==
  /\ nodes' = wanted.nodes /\ edges' = wanted.edges /\ done' = TRUE

Clear == nodes' = {} /\ edges' = {} /\ done' = FALSE

Next == Offer \/ ((Store \/ Return \/ Clear) /\ UNCHANGED wanted)

Spec == Init /\ [][Next]_vars
=============================================================================
