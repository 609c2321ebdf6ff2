---------------------------- MODULE ImportCycles ----------------------------
(***************************************************************************)
(* _detect_cycles (graph/dependency_graph.py): an iterative depth-first    *)
(* search of the resolved imports that reports a chain at every import     *)
(* back to a file of its current path.  One step looks at one import, or   *)
(* leaves a file.                                                          *)
(***************************************************************************)
EXTENDS Naturals, Sequences, FiniteSets, SequencesExt

CONSTANT Files

VARIABLES
  adjacency,  \* the sorted imports of each file that imports or is imported
  starts,     \* the files from which a search has still to start
  color,      \* white, gray or black
  path,       \* the files being searched
  frames,     \* for each of them, the imports still to look at
  chains      \* the chains reported

cycleVars == <<adjacency, starts, color, path, frames, chains>>

Imports(adj, f, g) == f \in DOMAIN adj /\ \E k \in DOMAIN adj[f] : adj[f][k] = g

\* The search of the graph adj is set up; order is the sorted list of its files.
StartSearch(adj, order) ==
  /\ adjacency' = adj
  /\ starts' = order
  /\ color' = [f \in DOMAIN adj |-> "white"]
  /\ path' = <<>> /\ frames' = <<>> /\ chains' = {}

\* The next start, if no search from another has reached it.
StartFrom ==
  /\ path = <<>> /\ starts # <<>>
  /\ starts' = Tail(starts)
  /\ IF color[Head(starts)] = "white"
     THEN /\ color' = [color EXCEPT ![Head(starts)] = "gray"]
          /\ path' = <<Head(starts)>>
          /\ frames' = <<adjacency[Head(starts)]>>
     ELSE UNCHANGED <<color, path, frames>>
  /\ UNCHANGED <<adjacency, chains>>

\* The import the innermost file looks at next.
Looking == path # <<>> /\ Last(frames) # <<>>
Import == Head(Last(frames))
Looked == [frames EXCEPT ![Len(frames)] = Tail(@)]

Descend ==
  /\ Looking /\ color[Import] = "white"
  /\ color' = [color EXCEPT ![Import] = "gray"]
  /\ path' = Append(path, Import)
  /\ frames' = Append(Looked, adjacency[Import])
  /\ UNCHANGED <<adjacency, starts, chains>>

\* Mutant: the chain is the whole path.
CloseChainWhole ==
  /\ Looking /\ color[Import] = "gray"
  /\ LET chain == Append(path, Import)
         known == \E c \in chains : ToSet(c) = ToSet(chain)
     IN  chains' = IF known THEN chains ELSE chains \cup {chain}
  /\ frames' = Looked
  /\ UNCHANGED <<adjacency, starts, color, path>>

\* Mutant: a chain is told from the others by its length.
CloseChainShort ==
  /\ Looking /\ color[Import] = "gray"
  /\ LET k == SelectInSeq(path, LAMBDA f : f = Import)
         chain == Append(SubSeq(path, k, Len(path)), Import)
         known == \E c \in chains : Len(c) = Len(chain)
     IN  chains' = IF known THEN chains ELSE chains \cup {chain}
  /\ frames' = Looked
  /\ UNCHANGED <<adjacency, starts, color, path>>

\* A chain is reported unless one of the same files has been.
CloseChain ==
  /\ Looking /\ color[Import] = "gray"
  /\ LET k == SelectInSeq(path, LAMBDA f : f = Import)
         chain == Append(SubSeq(path, k, Len(path)), Import)
         known == \E c \in chains : ToSet(c) = ToSet(chain)
     IN  chains' = IF known THEN chains ELSE chains \cup {chain}
  /\ frames' = Looked
  /\ UNCHANGED <<adjacency, starts, color, path>>

Ignore ==
  /\ Looking /\ color[Import] = "black"
  /\ frames' = Looked
  /\ UNCHANGED <<adjacency, starts, color, path, chains>>

Leave ==
  /\ path # <<>> /\ Last(frames) = <<>>
  /\ color' = [color EXCEPT ![Last(path)] = "black"]
  /\ path' = Front(path) /\ frames' = Front(frames)
  /\ UNCHANGED <<adjacency, starts, chains>>

SearchStep == StartFrom \/ Descend \/ CloseChain \/ Ignore \/ Leave
SearchOver == path = <<>> /\ starts = <<>>

-----------------------------------------------------------------------------
\* Every reported chain is a circular import: it leads by imports from a file
\* back to it, through no file twice (dependency_graph.py:142, 861).
IsChain(c) ==
  /\ Len(c) > 1 /\ c[1] = c[Len(c)]
  /\ \A k \in 1..(Len(c) - 1) : Imports(adjacency, c[k], c[k + 1])
  /\ \A j, k \in 1..(Len(c) - 1) : c[j] = c[k] => j = k

ChainsAreCycles == \A c \in chains : IsChain(c)

\* f leads to g by one import or more: what f imports, with all that these import,
\* cannot be without g.
Leads(f, g) ==
  \A S \in SUBSET DOMAIN adjacency :
    (\A h, i \in DOMAIN adjacency : (h = f \/ h \in S) /\ Imports(adjacency, h, i) => i \in S) => g \in S

\* No circular import is missed: when the search is over, every file that leads
\* back to itself is in one knot with a reported chain, and no chain is reported
\* twice (dependency_graph.py:801-821).
CyclesFound ==
  SearchOver =>
    /\ \A f \in DOMAIN adjacency : Leads(f, f) => \E c \in chains : Leads(f, c[1]) /\ Leads(c[1], f)
    /\ \A c, d \in chains : ToSet(c) = ToSet(d) => c = d
=============================================================================
