------------------------------ MODULE GraphStore ------------------------------
(***************************************************************************)
(* From a parsed repository to the stored knowledge graph                  *)
(* (graph/neo4j_store.py): its symbols are registered, its calls and       *)
(* imports resolved, circular imports searched for, and the result is      *)
(* persisted in Neo4j, batch by batch, or in the NetworkX fallback.        *)
(***************************************************************************)
EXTENDS CodeGraph, ImportCycles

CONSTANTS
  Repos,           \* the repositories that may be given
  BatchSize,       \* rows per transaction
  ConnectRetries,  \* attempts to connect
  Depth            \* the hops of the queries

ASSUME GraphStoreAssumption ==
  /\ BatchSize \in Nat \ {0} /\ ConnectRetries \in Nat \ {0} /\ Depth \in Nat \ {0}
  /\ \A R \in Repos : IsRepo(R) /\ ToSet(R.files) \subseteq Files

VARIABLES
  repo, phase,
  table, calls, imports,  \* symbol table, call edges, dependency edges
  backend,                \* "neo4j", "networkx" or "none" yet
  tries,                  \* failed attempts to connect
  batch,                  \* the batch persist_graph writes next
  nodes, edges,           \* what the store holds
  wanted                  \* the graph it is given (history)

inputs == <<repo, table, calls, imports>>
storeVars == <<backend, tries, batch, nodes, edges>>
vars == <<inputs, phase, cycleVars, storeVars, wanted>>

-----------------------------------------------------------------------------
(* The rows that are merged.  The node of a module m is <<m, 0>>.          *)
ModuleId(m) == <<m, 0>>

Label(record) == IF record.type = "class" THEN "Class" ELSE "Function"

\* The symbols' rows in groups of one label, the first record's first.
SymbolRows(label) ==
  LET same == Where(table, LAMBDA r : Label(r) = label)
  IN  [k \in DOMAIN same |-> same[k].id]
Labels == IF table = <<>> THEN <<>>
          ELSE IF Label(table[1]) = "Class" THEN <<"Class", "Function">> ELSE <<"Function", "Class">>

ModuleRows ==
  LET m(k) == Parts(table[k].at[1])
      first == InOrder(Len(table), {k \in DOMAIN table :
                 m(k) # <<>> /\ \A j \in 1..(k - 1) : m(j) # m(k)})
  IN  [n \in DOMAIN first |-> ModuleId(m(first[n]))]

\* The call edges are looked up by names that are local to their files.
CallRows ==
  LET ends(c) == <<RecordOf(table, c.caller), RecordOf(table, c.callee)>>
      known == Where(calls, LAMBDA c : 0 \notin ToSet(ends(c)))
  IN  [k \in DOMAIN known |->
         <<table[ends(known[k])[1]].id, table[ends(known[k])[2]].id, "CALLS">>]

\* The target of an import is the module as written, without its dots.
ImportRows ==
  [k \in DOMAIN imports |->
     <<ModuleId(Parts(imports[k].source)), ModuleId(imports[k].module.parts), "IMPORTS">>]

InheritRows ==
  FlattenSeq([k \in DOMAIN table |->
    LET base(j) == RecordOf(table, table[k].bases[j])
        classes == InOrder(Len(table[k].bases), {j \in DOMAIN table[k].bases :
                     base(j) # 0 /\ table[base(j)].type = "class"})
    IN  [n \in DOMAIN classes |-> <<table[k].id, table[base(classes[n])].id, "INHERITS">>]])

ContainRows ==
  LET parent(r) == IF r.parent = <<>> THEN 0 ELSE LookupQualified(table, r.parent)
      inner == Where(table, LAMBDA r : parent(r) # 0)
  IN  [k \in DOMAIN inner |-> <<table[parent(inner[k])].id, inner[k].id, "CONTAINS">>]

EdgeRows == CallRows \o ImportRows \o InheritRows \o ContainRows

Chunk(kind, rows) ==
  [k \in 1..((Len(rows) + BatchSize - 1) \div BatchSize) |->
     [kind |-> kind, rows |-> ToSet(SubSeq(rows, (k - 1) * BatchSize + 1,
                                           Min({k * BatchSize, Len(rows)})))]]

NodeBatches ==
  FlattenSeq([k \in DOMAIN Labels |-> Chunk("nodes", SymbolRows(Labels[k]))])
    \o Chunk("nodes", ModuleRows)
EdgeBatches ==
  Chunk("edges", CallRows) \o Chunk("edges", ImportRows)
    \o Chunk("edges", InheritRows) \o Chunk("edges", ContainRows)

\* Mutant: the edges are merged first.
EdgesFirst == EdgeBatches \o NodeBatches

\* The transactions of Neo4jGraphStore.persist_graph.
Batches == NodeBatches \o EdgeBatches

\* MATCH finds both nodes, or the row is dropped.
Matched(N, rows) == {e \in rows : e[1] \in N /\ e[2] \in N}

\* NetworkX: the ends of an import are nodes whatever they name, and a pair of
\* nodes has one edge, of the type it was given last.
InMemoryNodes ==
  (UNION {ToSet(SymbolRows(Labels[k])) : k \in DOMAIN Labels}) \cup ToSet(ModuleRows)
    \cup {e[1] : e \in ToSet(ImportRows)} \cup {e[2] : e \in ToSet(ImportRows)}

\* Mutant: an undirected graph keeps one edge for both directions.
InMemoryUndirected ==
  LET rows == EdgeRows
  IN  {rows[k] : k \in {i \in DOMAIN rows : \A j \in (i + 1)..Len(rows) :
                          {rows[j][1], rows[j][2]} # {rows[i][1], rows[i][2]}}}

InMemoryEdges ==
  LET rows == EdgeRows
  IN  {rows[k] : k \in {i \in DOMAIN rows : \A j \in (i + 1)..Len(rows) :
                          <<rows[j][1], rows[j][2]>> # <<rows[i][1], rows[i][2]>>}}

\* The graph each store is given to hold.
GivenNeo4j ==
  LET N == UNION {b.rows : b \in ToSet(NodeBatches)}
  IN  [nodes |-> N, edges |-> Matched(N, ToSet(EdgeRows))]
GivenInMemory == [nodes |-> InMemoryNodes, edges |-> InMemoryEdges]

-----------------------------------------------------------------------------
Init ==
  /\ repo \in Repos /\ phase = "parsed"
  /\ table = <<>> /\ calls = <<>> /\ imports = <<>>
  /\ adjacency = [f \in {} |-> <<>>] /\ starts = <<>> /\ color = [f \in {} |-> "white"]
  /\ path = <<>> /\ frames = <<>> /\ chains = {}
  /\ backend = "none" /\ tries = 0 /\ batch = 0
  /\ nodes = {} /\ edges = {}
  /\ wanted = [nodes |-> {}, edges |-> {}]

BuildTable ==
  /\ phase = "parsed"
  /\ table' = SymbolTable(repo)
  /\ phase' = "registered"
  /\ UNCHANGED <<repo, calls, imports, cycleVars, storeVars, wanted>>

BuildCalls ==
  /\ phase = "registered"
  /\ calls' = CallGraph(repo)
  /\ phase' = "called"
  /\ UNCHANGED <<repo, table, imports, cycleVars, storeVars, wanted>>

\* The files of a resolved edge, and for each the files it imports, sorted.
Adjacency(deps) ==
  LET ends == {d.source : d \in ToSet(deps)} \cup {d.target : d \in ToSet(deps)}
  IN  [f \in ends |-> Where(repo.files, LAMBDA g :
         \E d \in ToSet(deps) : d.source = f /\ d.target = g)]

BuildImports ==
  /\ phase = "called"
  /\ imports' = DependencyGraph(repo)
  /\ LET adj == Adjacency(imports')
     IN  StartSearch(adj, Where(repo.files, LAMBDA f : f \in DOMAIN adj))
  /\ phase' = "searching"
  /\ UNCHANGED <<repo, table, calls, storeVars, wanted>>

Search ==
  /\ phase = "searching"
  /\ SearchStep
  /\ UNCHANGED <<inputs, phase, storeVars, wanted>>

SearchEnds ==
  /\ phase = "searching" /\ SearchOver
  /\ phase' = "built"
  /\ UNCHANGED <<inputs, cycleVars, storeVars, wanted>>

\* GraphStore(uri, fallback=True): Neo4j answers ...
Connect ==
  /\ phase = "built"
  /\ backend' = "neo4j" /\ wanted' = GivenNeo4j
  /\ phase' = "open"
  /\ UNCHANGED <<inputs, cycleVars, tries, batch, nodes, edges>>

\* ... or does not; after the last attempt the store is in memory.
ConnectFails ==
  /\ phase = "built"
  /\ tries' = tries + 1
  /\ IF tries' = ConnectRetries
     THEN phase' = "open" /\ backend' = "networkx" /\ wanted' = GivenInMemory
     ELSE UNCHANGED <<phase, backend, wanted>>
  /\ UNCHANGED <<inputs, cycleVars, batch, nodes, edges>>

PersistInMemory ==
  /\ phase = "open" /\ backend = "networkx"
  /\ nodes' = InMemoryNodes /\ edges' = InMemoryEdges
  /\ phase' = "persisted"
  /\ UNCHANGED <<inputs, cycleVars, backend, tries, batch, wanted>>

StartPersist ==
  /\ phase = "open" /\ backend = "neo4j"
  /\ phase' = "persisting" /\ batch' = 1
  /\ UNCHANGED <<inputs, cycleVars, backend, tries, nodes, edges, wanted>>

\* One transaction: MERGE is idempotent.
WriteBatch ==
  /\ phase = "persisting" /\ batch <= Len(Batches)
  /\ LET b == Batches[batch]
     IN  IF b.kind = "nodes" THEN nodes' = nodes \cup b.rows /\ UNCHANGED edges
         ELSE edges' = edges \cup Matched(nodes, b.rows) /\ UNCHANGED nodes
  /\ batch' = batch + 1
  /\ UNCHANGED <<inputs, phase, cycleVars, backend, tries, wanted>>

\* A transaction fails: persist_graph raises, what it has written stays.
WriteFails ==
  /\ phase = "persisting" /\ batch <= Len(Batches)
  /\ phase' = "open" /\ batch' = 0
  /\ UNCHANGED <<inputs, cycleVars, backend, tries, nodes, edges, wanted>>

PersistEnds ==
  /\ phase = "persisting" /\ batch > Len(Batches)
  /\ phase' = "persisted" /\ batch' = 0
  /\ UNCHANGED <<inputs, cycleVars, backend, tries, nodes, edges, wanted>>

\* persist_graph may be called again, after a failure or not.
PersistAgain ==
  /\ phase = "persisted"
  /\ phase' = "open"
  /\ UNCHANGED <<inputs, cycleVars, storeVars, wanted>>

Clear ==
  /\ phase \in {"open", "persisted"}
  /\ phase' = "open"
  /\ nodes' = {} /\ edges' = {}
  /\ UNCHANGED <<inputs, cycleVars, backend, tries, batch, wanted>>

Next ==
  \/ BuildTable \/ BuildCalls \/ BuildImports \/ Search \/ SearchEnds
  \/ Connect \/ ConnectFails
  \/ PersistInMemory \/ StartPersist \/ WriteBatch \/ WriteFails \/ PersistEnds
  \/ PersistAgain \/ Clear

Spec == Init /\ [][Next]_vars

-----------------------------------------------------------------------------
(* Queries: who is within some hops of a node.                             *)
Neighbours(E, direction, types, id) ==
  (IF direction = "in" THEN {} ELSE {e[2] : e \in {x \in E : x[1] = id /\ x[3] \in types}})
    \cup (IF direction = "out" THEN {} ELSE {e[1] : e \in {x \in E : x[2] = id /\ x[3] \in types}})

\* get_neighbors of either store.
Within(E, direction, types, id, hops) ==
  LET ball[k \in 0..hops] ==
        IF k = 0 THEN {id}
        ELSE ball[k - 1] \cup UNION {Neighbours(E, direction, types, n) : n \in ball[k - 1]}
  IN  ball[hops] \ {id}

\* GraphRetriever: the rings of a symbol, its neighbours by their distance.
Ring(E, direction, types, id, hop) ==
  Within(E, direction, types, id, hop) \ Within(E, direction, types, id, hop - 1)

-----------------------------------------------------------------------------
EdgeTypes == {"CALLS", "IMPORTS", "INHERITS", "CONTAINS"}

\* However often a transaction fails and persist_graph is called again, the
\* store never has more than the graph, never an edge without its nodes, and all
\* of it once a call returns (neo4j_store.py:16-18, "idempotent ingestion").
Promise == INSTANCE KnowledgeGraph WITH done <- (phase = "persisted")
PersistsTheGraph == Promise!Spec

\* The in-memory fallback answers for Neo4j (neo4j_store.py:6-9): it finds every
\* symbol in the same ring around every other, and no caller Neo4j would not.
FallbackAnswersAlike ==
  phase = "persisted" /\ backend = "neo4j" =>
    LET fallback == InMemoryEdges
    IN  \A r \in ToSet(table) : \A hop \in 1..Depth :
      /\ \A d \in {"in", "out", "both"} :
           Ring(edges, d, EdgeTypes, r.id, hop) = Ring(fallback, d, EdgeTypes, r.id, hop)
      /\ Within(fallback, "in", {"CALLS"}, r.id, hop)
           \subseteq Within(edges, "in", {"CALLS"}, r.id, hop)

\* Is it the last definition of its name, the one that names stand for?
IsIndexed(R, s) == ByQualified(R, s[1], Qualified(R, s)) = s

Ancestors(R, class) ==
  LET up[k \in 0..Cardinality(AllDefs(R))] ==
        IF k = 0 THEN {class}
        ELSE up[k - 1] \cup UNION {ToSet(KnownBases(R, c)) : c \in up[k - 1]}
  IN  up[Cardinality(AllDefs(R))]

\* The class and the known ancestors that define a method themselves.
MethodOwners(R, class, name) == {c \in Ancestors(R, class) : OwnMethod(R, c, name) # <<>>}

\* For a class that a name stands for (a call is resolved on no other), find_method
\* gives the class's own method, or else one defined among the last base whose
\* ancestors define any, or else none: inheritance cycles and shared ancestors cost
\* nothing, invent nothing and never let an earlier base in (call_graph.py:614-649).
MethodsInherited ==
  phase = "parsed" =>
    \A class \in {s \in Classes(repo) : IsIndexed(repo, s)} :
      \A name \in {repo.code[s[1]][s[2]].name : s \in AllDefs(repo)} :
        LET bases == KnownBases(repo, class)
            last  == LastOf({k \in DOMAIN bases : MethodOwners(repo, bases[k], name) # {}})
            found == FindMethod(repo, class, name)
        IN  IF OwnMethod(repo, class, name) # <<>> THEN found = OwnMethod(repo, class, name)
            ELSE IF last = 0 THEN found = <<>>
            ELSE \E c \in MethodOwners(repo, bases[last], name) : found = OwnMethod(repo, c, name)

\* "walking known base classes (MRO)" (call_graph.py:615): where Python's method
\* resolution order goes to the first base next, and that defines the method, it is
\* the one that is found.
FirstBaseWins ==
  phase = "parsed" =>
    \A class \in {s \in Classes(repo) : IsIndexed(repo, s)} :
      \A name \in {repo.code[s[1]][s[2]].name : s \in AllDefs(repo)} :
        LET bases == KnownBases(repo, class)
        IN  /\ OwnMethod(repo, class, name) = <<>>
            /\ bases # <<>> /\ OwnMethod(repo, bases[1], name) # <<>>
            /\ \A k \in DOMAIN bases \ {1} : bases[1] \notin Ancestors(repo, bases[k])
            => FindMethod(repo, class, name) = OwnMethod(repo, bases[1], name)

PlainStatement(n) ==
  IF n.kind = "import" THEN n.as = ""
  ELSE n.module.parts # <<>> /\ \A k \in DOMAIN n.names : n.names[k].as = ""
Plain(f) == \A n \in ToSet(Statements(repo, f)) : PlainStatement(n)

\* The two builders agree on what a file without aliases and bare dots imports,
\* although one reads statements and the other symbols
\* (tests/unit/test_dependency_graph.py:345).
BuildersAgree ==
  phase = "parsed" =>
    \A f \in ToSet(repo.files) : Plain(f) =>
      {d.target : d \in {x \in ToSet(DependencyGraph(repo)) : x.source = f}}
        = {d.target : d \in {x \in SymbolDependencies(repo) : x.source = f}}

-----------------------------------------------------------------------------
RecordAt(s) == CHOOSE k \in DOMAIN table : table[k].at = s

\* Refuted.  A stored graph has the edge of every call that was resolved, from
\* the definition that contains it: "the call graph [...] reference[s] definitions
\* by their fully qualified name; this table is what resolves those names back"
\* (symbol_table.py:7-9).
CallsStored ==
  phase = "persisted" /\ backend = "neo4j" =>
    \A c \in ToSet(calls) : c.caller # <<"<module>">> =>
      \E e \in edges : e[3] = "CALLS" /\ e[2] = table[RecordAt(c.target)].id

\* Refuted.  The call graph takes "from . import x" for the module the dependency
\* graph takes it for: "so both graphs agree on how a module name maps to a file"
\* (dependency_graph.py:47-51).
GraphsAgree ==
  phase = "parsed" =>
    \A f \in ToSet(repo.files) : \A i \in Calls(repo, f) :
      repo.code[f][i].on \notin {"", "self", "?"} /\ OfModule(repo, f, i) # <<>> =>
        \A n \in ToSet(Statements(repo, f)) :
          n.kind = "from" /\ n.module.parts = <<>> /\ n.names = <<[name |-> repo.code[f][i].on, as |-> ""]>> =>
            OfModule(repo, f, i)[1] \in ToSet(Resolve(repo, Imported(n), f))
============================================================================
