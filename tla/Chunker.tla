------------------------------- MODULE Chunker -------------------------------
(***************************************************************************)
(* PythonChunker (ingestion/chunker.py): a file is cut at its definitions  *)
(* and, where they are too large, between their statements.                *)
(*                                                                         *)
(* A source is the sequence of its nodes in their order: n.kind, the node  *)
(* n.up it is a statement of (0 at the top), its lines n.first to n.last   *)
(* and, for a definition, the line n.body of its first statement.  A       *)
(* decorated definition starts at its first decorator.  A line is a token, *)
(* but for what _emit adds to the texts whose tokens it has counted.       *)
(***************************************************************************)
EXTENDS Selections, FiniteSets

CONSTANTS
  ChunkTokens,  \* max_tokens
  Continued,    \* the tokens of "  # ... continued"
  Newline       \* the tokens of a newline that joins two texts

ASSUME ChunkerAssumption == ChunkTokens \in Nat \ {0} /\ {Continued, Newline} \subseteq Nat

Node == [kind : {"stmt", "class", "def"}, up : Nat, first : Nat \ {0}, last : Nat, body : Nat]

\* The nodes of a file: a node follows what it is a statement of and is within its
\* lines, and statements of one node are in the order of their lines.
IsSource(src) ==
  /\ src \in Seq(Node)
  /\ \A j \in DOMAIN src :
       /\ src[j].up < j /\ src[j].first <= src[j].last
       /\ src[j].up # 0 =>
            src[src[j].up].first <= src[j].first /\ src[j].last <= src[src[j].up].last
       /\ \A k \in (j + 1)..Len(src) : src[k].up = src[j].up =>
            src[j].first <= src[k].first /\ src[j].last <= src[k].last

Lines(from, to) == [k \in 1..(to + 1 - from) |-> from + k - 1]
Span(n) == Lines(n.first, n.last)
Header(n) == Lines(n.first, n.body - 1)
IsDefinition(n) == n.kind \in {"def", "class"}

\* The places of the statements of node i, and of the definitions among them.
Statements(src, i) == InOrder(Len(src), {j \in DOMAIN src : src[j].up = i})
Inner(src, i) == InOrder(Len(src), {j \in DOMAIN src : src[j].up = i /\ IsDefinition(src[j])})

TextOf(src, places) == FlattenSeq([k \in DOMAIN places |-> Span(src[places[k]])])

\* Would a node overflow a window?
Overflows(src, window, n, header) ==
  header + Len(TextOf(src, window)) + Len(Span(n)) > ChunkTokens

\* Mutant: what is left at the end is not emitted.
WindowsUnflushed(src, places, header) ==
  LET add(ws, j) ==
        IF ws = <<>> \/ Overflows(src, Last(ws), src[j], header)
        THEN Append(ws, <<j>>) ELSE Append(Front(ws), Append(Last(ws), j))
      windows == FoldLeft(add, <<>>, places)
  IN  IF Len(windows) > 1 THEN Front(windows) ELSE windows

\* _Accumulator: a window is emitted when the next node would overflow it.
Windows(src, places, header) ==
  LET add(ws, j) ==
        IF ws = <<>> \/ Overflows(src, Last(ws), src[j], header)
        THEN Append(ws, <<j>>) ELSE Append(Front(ws), Append(Last(ws), j))
  IN  FoldLeft(add, <<>>, places)

\* A chunk has the lines of its nodes, below a header, and what is added between.
Chunk(src, places, header, added) ==
  [start |-> src[Head(places)].first, end |-> src[Last(places)].last,
   text |-> header \o TextOf(src, places), added |-> added]

TokenCount(c) == Len(c.text) + c.added

\* The header of a split definition is repeated above every window, marked as a
\* continuation from the second on.
ContinuationAdds(windows) ==
  [k \in DOMAIN windows |-> Newline * Len(windows[k]) + (IF k > 1 THEN Continued ELSE 0)]
ChunkDefinition(src, i) ==
  IF Len(Span(src[i])) <= ChunkTokens \/ Statements(src, i) = <<>>
  THEN << Chunk(src, <<i>>, <<>>, 0) >>
  ELSE LET windows == Windows(src, Statements(src, i), Len(Header(src[i])))
       IN  [k \in DOMAIN windows |->
              Chunk(src, windows[k], Header(src[i]), ContinuationAdds(windows)[k])]

\* The chunks of a definition and, of a class, those of the definitions in it.
DefinitionChunks(src) ==
  LET chunks[i \in DOMAIN src] ==
        LET inner == Inner(src, i)
        IN  ChunkDefinition(src, i)
              \o IF src[i].kind = "class"
                 THEN FlattenSeq([k \in DOMAIN inner |-> chunks[inner[k]]]) ELSE <<>>
  IN  chunks

\* A run of other nodes: their texts, without what is between them.
ModuleAdds(windows) == [k \in DOMAIN windows |-> Newline * (Len(windows[k]) - 1)]
FlushModuleLevel(src, places) ==
  LET windows == Windows(src, places, 0)
  IN  [k \in DOMAIN windows |-> Chunk(src, windows[k], <<>>, ModuleAdds(windows)[k])]

ChunksOf(src) ==
  LET add(acc, j) ==
        IF IsDefinition(src[j])
        THEN [chunks |-> acc.chunks \o FlushModuleLevel(src, acc.pending) \o DefinitionChunks(src)[j],
              pending |-> <<>>]
        ELSE [acc EXCEPT !.pending = Append(@, j)]
      all == FoldLeft(add, [chunks |-> <<>>, pending |-> <<>>], Statements(src, 0))
  IN  all.chunks \o FlushModuleLevel(src, all.pending)

-----------------------------------------------------------------------------
\* Is a chunk one node, the least there is?
Alone(src, c) == \E n \in ToSet(src) : c.start = n.first /\ c.end = n.last

\* No code is lost, whatever the sizes: the text of every statement is in a chunk
\* whose range has it, and only a chunk of a single node is larger than max_tokens by
\* more than the newlines and the separator that _emit adds (chunker.py:465-472, 499-528).
NothingLost(src, chunks) ==
  /\ \A n \in ToSet(src) : n.kind = "stmt" =>
       \E c \in ToSet(chunks) :
         ToSet(Span(n)) \subseteq ToSet(c.text) /\ c.start <= n.first /\ n.last <= c.end
  /\ \A c \in ToSet(chunks) : TokenCount(c) > ChunkTokens + c.added => Alone(src, c)
=============================================================================
