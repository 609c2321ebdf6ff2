------------------------------ MODULE CodeGraph ------------------------------
(***************************************************************************)
(* What is read in the parsed files of a repository: its symbols           *)
(* (ingestion/symbol_extractor.py), its calls (graph/call_graph.py), its   *)
(* imports (graph/dependency_graph.py) and its symbol table                *)
(* (graph/symbol_table.py).                                                *)
(*                                                                         *)
(* A repository R is the sequence R.files of its files, sorted, and the    *)
(* source R.code[f] of each.  A file is the sequence of the names on its   *)
(* path, a dotted name the sequence of its parts with the number of dots   *)
(* before it.  A source is the sequence of the nodes that matter, in their *)
(* order: a node's place stands for its line, n.up for the definition it   *)
(* is in (0 for none) and n.last for the last node of a definition.        *)
(***************************************************************************)
EXTENDS Selections, FiniteSets, FiniteSetsExt

LastOf(S) == IF S = {} THEN 0 ELSE Max(S)

\* Definitions are named by their files and places.
Defs(R, f) == {i \in DOMAIN R.code[f] : R.code[f][i].kind \in {"class", "def"}}

\* The shape of a repository that the rest relies on: a definition follows the one
\* it is in.
IsRepo(R) ==
  /\ IsSeq(R.files)
  /\ \A f \in ToSet(R.files) :
       /\ IsSeq(R.code[f])
       /\ \A n \in ToSet(R.code[f]) : (n.kind = "class" => IsSeq(n.bases)) /\ (n.kind = "from" => IsSeq(n.names))
       /\ \A i \in Defs(R, f) : R.code[f][i].up \in {0} \cup {d \in Defs(R, f) : d < i}

-----------------------------------------------------------------------------
(* Symbols.                                                                *)
IsClass(R, s) == R.code[s[1]][s[2]].kind = "class"

\* The file-local qualified names: "A.m", "outer.<locals>.inner".
Qualified(R, s) ==
  LET src == R.code[s[1]]
      path[i \in Defs(R, s[1])] ==
        (IF src[i].up = 0 THEN <<>>
         ELSE path[src[i].up] \o IF src[src[i].up].kind = "def" THEN <<"<locals>">> ELSE <<>>)
        \o <<src[i].name>>
  IN  path[s[2]]

SymbolType(R, s) ==
  LET n == R.code[s[1]][s[2]]
  IN  IF n.kind = "class" THEN "class"
      ELSE IF n.up # 0 /\ R.code[s[1]][n.up].kind = "class" THEN "method" ELSE "function"

Module(dots, parts) == [dots |-> dots, parts |-> parts]

\* f"{module}.{name}": a bare dot gets a second one.
Dotted(m, name) ==
  IF m.parts = <<>> THEN Module(m.dots + 1, <<name>>) ELSE Module(m.dots, Append(m.parts, name))

\* source.rsplit(".", 1), for a name with a dot in it.
SplitModule(m) ==
  IF Len(m.parts) = 1 THEN Module(m.dots - 1, <<>>) ELSE Module(m.dots, Front(m.parts))

ImportSymbol(name, source, alias, star) ==
  [name |-> name, source |-> source, alias |-> alias, star |-> star]

\* The import symbols of one statement; "from m import *" has no names.
ImportSymbols(n) ==
  IF n.kind = "import"
  THEN << IF n.as = "" THEN ImportSymbol(n.module.parts, n.module, FALSE, FALSE)
          ELSE ImportSymbol(<<n.as>>, n.module, TRUE, FALSE) >>
  ELSE IF n.names = <<>> THEN << ImportSymbol(<<"*">>, n.module, FALSE, TRUE) >>
  ELSE [k \in DOMAIN n.names |->
          IF n.names[k].as = "" THEN ImportSymbol(<<n.names[k].name>>, n.module, FALSE, FALSE)
          ELSE ImportSymbol(<<n.names[k].as>>, Dotted(n.module, n.names[k].name), TRUE, FALSE)]

Statements(R, f) == Where(R.code[f], LAMBDA n : n.kind \in {"import", "from"})
FlatMap(Op(_), seq) == FlattenSeq([k \in DOMAIN seq |-> Op(seq[k])])
FileImports(R, f) == FlatMap(ImportSymbols, Statements(R, f))

-----------------------------------------------------------------------------
(* _ModuleIndex: a module name is any suffix of a file's path.             *)
Parts(f) == IF Last(f) = "__init__" THEN Front(f) ELSE f
Package(f) == IF Parts(f) = <<>> THEN <<>> ELSE Front(Parts(f))

Matching(R, parts) == Where(R.files, LAMBDA g : parts # <<>> /\ IsSuffix(parts, Parts(g)))

Ascend(base, k) == IF k <= Len(base) THEN SubSeq(base, 1, Len(base) - k) ELSE <<>>

Resolve(R, m, f) ==
  Matching(R, IF m.dots = 0 THEN m.parts ELSE Ascend(Package(f), m.dots - 1) \o m.parts)

-----------------------------------------------------------------------------
(* _ResolutionContext.  A symbol that is not found is <<>>.                *)
OrElse(s, t) == IF s # <<>> THEN s ELSE t
Sym(f, i) == IF i = 0 THEN <<>> ELSE <<f, i>>

\* Of several definitions with one name, the last is indexed.
ModuleLevel(R, f, name) ==
  Sym(f, LastOf({i \in Defs(R, f) : R.code[f][i].name = name /\ R.code[f][i].up = 0}))
ByQualified(R, f, path) == Sym(f, LastOf({i \in Defs(R, f) : Qualified(R, <<f, i>>) = path}))
LocalDefs(R, f, name) == {i \in Defs(R, f) : R.code[f][i].name = name}

\* The first of the files that defines the name at module level.
FirstMember(R, files, name) ==
  LET member(f) == ModuleLevel(R, f, name)
      those == Where(files, LAMBDA f : member(f) # <<>>)
  IN  IF those = <<>> THEN <<>> ELSE member(those[1])

\* The imports that bind a name; the last of them counts.
Bindings(R, f, name) == Where(FileImports(R, f), LAMBDA s : ~s.star /\ s.name = <<name>>)

\* An aliased member is the last part of its source.
ImportedFrom(imp) ==
  IF imp.alias /\ imp.source.dots + Len(imp.source.parts) > 1
  THEN [module |-> SplitModule(imp.source), member |-> Last(imp.source.parts)]
  ELSE [module |-> imp.source, member |-> Last(imp.name)]

ViaImport(R, f, bindings) ==
  IF bindings = <<>> THEN <<>>
  ELSE LET from == ImportedFrom(Last(bindings))
       IN  FirstMember(R, Resolve(R, from.module, f), from.member)

ViaStar(R, f, name) ==
  LET stars == Where(FileImports(R, f), LAMBDA s : s.star)
      target(s) == Resolve(R, s.source, f)
  IN  FirstMember(R, FlatMap(target, stars), name)

\* A local name: of the module, or the only definition with it.
Local(R, f, name) ==
  LET only(S) == IF Cardinality(S) = 1 THEN <<f, Max(S)>> ELSE <<>>
  IN  OrElse(ModuleLevel(R, f, name), only(LocalDefs(R, f, name)))

ViaImports(R, f, name) == OrElse(ViaImport(R, f, Bindings(R, f, name)), ViaStar(R, f, name))

ResolveBare(R, f, name) == OrElse(Local(R, f, name), ViaImports(R, f, name))

OnlyClass(R, s) == IF s # <<>> /\ IsClass(R, s) THEN s ELSE <<>>
NoClass(R, s) == IF s # <<>> /\ ~IsClass(R, s) THEN s ELSE <<>>

ClassNamed(R, f, name) == OnlyClass(R, ResolveBare(R, f, name))

\* The bases that resolve to a class of the repository; a dotted one never does.
KnownBases(R, class) ==
  LET bases == Where(R.code[class[1]][class[2]].bases, LAMBDA b : Len(b) = 1)
      known(b) == ClassNamed(R, class[1], b[1])
  IN  Where([k \in DOMAIN bases |-> known(bases[k])], LAMBDA s : s # <<>>)

ClassKey(R, class) == <<class[1], Qualified(R, class)>>

OwnMethod(R, class, name) ==
  NoClass(R, ByQualified(R, class[1], Append(Qualified(R, class), name)))

AllDefs(R) == UNION {{f} \X Defs(R, f) : f \in ToSet(R.files)}

Classes(R) == {s \in AllDefs(R) : IsClass(R, s)}

\* Where a search may be: the classes on its stack and the keys it has seen.
Searches(R) == Seq(Classes(R)) \X SUBSET {ClassKey(R, s) : s \in Classes(R)}

\* Mutant: the search follows the first base only.
FindMethodFirstBase(R, class, name) ==
  LET walk[at \in Searches(R)] ==
        LET c == Last(at[1])
            first == IF KnownBases(R, c) = <<>> THEN <<>> ELSE <<Head(KnownBases(R, c))>>
        IN  IF at[1] = <<>> THEN <<>>
            ELSE IF ClassKey(R, c) \in at[2] THEN walk[<<Front(at[1]), at[2]>>]
            ELSE OrElse(OwnMethod(R, c, name), walk[<<first, at[2] \cup {ClassKey(R, c)}>>])
  IN  IF class = <<>> THEN <<>> ELSE walk[<< <<class>>, {} >>]

\* find_method: depth first, the last base first; no class is searched twice.
FindMethod(R, class, name) ==
  LET walk[at \in Searches(R)] ==
        LET c == Last(at[1])
        IN  IF at[1] = <<>> THEN <<>>
            ELSE IF ClassKey(R, c) \in at[2] THEN walk[<<Front(at[1]), at[2]>>]
            ELSE OrElse(OwnMethod(R, c, name),
                        walk[<<Front(at[1]) \o KnownBases(R, c), at[2] \cup {ClassKey(R, c)}>>])
  IN  IF class = <<>> THEN <<>> ELSE walk[<< <<class>>, {} >>]

\* The module a bound name stands for before a dot; "from . import x" makes it "..x".
ModuleOfImport(imp) ==
  IF imp.alias \/ (imp.source.dots = 0 /\ imp.name = imp.source.parts) THEN imp.source
  ELSE Dotted(imp.source, Last(imp.name))

ViaModule(R, f, bindings, name) ==
  IF bindings = <<>> THEN <<>>
  ELSE FirstMember(R, Resolve(R, ModuleOfImport(Last(bindings)), f), name)

-----------------------------------------------------------------------------
(* _EnclosingIndex and _PythonTypeIndex.                                   *)
Around(R, f, i, kind) == {d \in Defs(R, f) : R.code[f][d].kind = kind /\ d < i /\ i <= R.code[f][d].last}

EnclosingClass(R, f, i) ==
  LET newest(c) == IF c = 0 THEN <<>> ELSE ByQualified(R, f, Qualified(R, <<f, c>>))
  IN  OnlyClass(R, newest(LastOf(Around(R, f, i, "class"))))

Caller(R, f, i) ==
  LET name(d, else) == IF d = 0 THEN else ELSE Qualified(R, <<f, d>>)
  IN  name(LastOf(Around(R, f, i, "def")), name(LastOf(Around(R, f, i, "class")), <<"<module>">>))

\* The class that a note or a call names ("" for none), and the first of several.
ClassIn(R, f, name) == IF name = "" THEN <<>> ELSE ClassNamed(R, f, name)
FirstClass(R, f, names) ==
  LET classes == Where([k \in DOMAIN names |-> ClassIn(R, f, names[k])], LAMBDA s : s # <<>>)
  IN  IF classes = <<>> THEN <<>> ELSE classes[1]

\* The class a variable of function d holds: as annotated, unless it is assigned
\* and never from a known class; or as constructed by its only assignment.
VariableType(R, f, d, var) ==
  LET src == R.code[f]
      assigned == Where(src, LAMBDA n : n.kind = "assign" /\ n.up = d /\ n.name = var)
      given == IF var \in DOMAIN src[d].params THEN <<src[d].params[var]>> ELSE <<>>
      note == FirstClass(R, f, [k \in DOMAIN assigned |-> assigned[k].note] \o given)
      made == FirstClass(R, f, [k \in DOMAIN assigned |-> assigned[k].from])
  IN  IF note # <<>> /\ (assigned = <<>> \/ made # <<>>) THEN note
      ELSE IF Len(assigned) = 1 THEN made ELSE <<>>

\* class_for: the innermost function that gives the variable a type.
ReceiverType(R, f, i, var) ==
  LET type(d) == IF d = 0 THEN <<>> ELSE VariableType(R, f, d, var)
  IN  type(LastOf({d \in Around(R, f, i, "def") : VariableType(R, f, d, var) # <<>>}))

-----------------------------------------------------------------------------
(* The call graph.                                                         *)
Self(R, f, i) ==
  IF R.code[f][i].on = "self" THEN FindMethod(R, EnclosingClass(R, f, i), R.code[f][i].name) ELSE <<>>

OfModule(R, f, i) == ViaModule(R, f, Bindings(R, f, R.code[f][i].on), R.code[f][i].name)

OfReceiver(R, f, i) ==
  IF R.code[f][i].on \in {"self", "?"} THEN <<>>
  ELSE OrElse(OfModule(R, f, i),
              FindMethod(R, ReceiverType(R, f, i, R.code[f][i].on), R.code[f][i].name))

\* The target of a call: of a bare name, of self, of a module or of a typed value.
ResolveCall(R, f, i) ==
  IF R.code[f][i].on = "" THEN ResolveBare(R, f, R.code[f][i].name)
  ELSE OrElse(Self(R, f, i), OfReceiver(R, f, i))

Calls(R, f) == {i \in DOMAIN R.code[f] : R.code[f][i].kind = "call"}

\* The edge of the call at i to a target, as a sequence of at most one.
CallEdge(R, f, i, target) ==
  IF target = <<>> THEN <<>>
  ELSE << [caller |-> Caller(R, f, i), callee |-> Qualified(R, target),
           at |-> <<f, i>>, target |-> target] >>

\* _build: the resolved calls, in the order of their files and lines.
CallGraph(R) ==
  LET edge(f, i) == IF i \in Calls(R, f) THEN CallEdge(R, f, i, ResolveCall(R, f, i)) ELSE <<>>
      ofFile(f) == FlattenSeq([i \in DOMAIN R.code[f] |-> edge(f, i)])
  IN  FlatMap(ofFile, R.files)

-----------------------------------------------------------------------------
(* The dependency graph: one edge for each file a statement resolves to.   *)
Dependencies(f, m, targets) ==
  [k \in DOMAIN targets |-> [source |-> f, target |-> targets[k], module |-> m]]

\* "from . import x" is looked up as the module ".x".
Imported(n) ==
  IF n.kind = "from" /\ n.module.dots > 0 /\ n.module.parts = <<>> /\ Len(n.names) = 1
  THEN Module(n.module.dots, <<n.names[1].name>>) ELSE n.module

DependencyGraph(R) ==
  LET edges(f, m) == Dependencies(f, m, Resolve(R, m, f))
      ofFile(f) == FlattenSeq([j \in DOMAIN Statements(R, f) |-> edges(f, Imported(Statements(R, f)[j]))])
  IN  FlatMap(ofFile, R.files)

\* Mutant of _edges_for_symbol: the name is taken for a part of the module.
SymbolModuleJoined(R, f, s) == IF s.star THEN s.source ELSE Dotted(s.source, Last(s.name))

\* _edges_for_symbol: an aliased name is a module, or else a member of one.
SymbolModule(R, f, s) ==
  IF s.alias /\ Resolve(R, s.source, f) = <<>> /\ Len(s.source.parts) > 1
  THEN SplitModule(s.source) ELSE s.source

\* build_from_symbols, its edges merged by source and target.
SymbolDependencies(R) ==
  UNION {{ [source |-> f, target |-> g] : g \in UNION {
             ToSet(Resolve(R, SymbolModule(R, f, s), f)) : s \in ToSet(FileImports(R, f))} }
         : f \in ToSet(R.files)}

-----------------------------------------------------------------------------
(* The symbol table: one record per definition; the k-th of a qualified    *)
(* name has the id <<name, k>>.                                            *)
SymbolTable(R) ==
  LET ofFile(f) == LET places == InOrder(Len(R.code[f]), Defs(R, f))
                   IN  [n \in DOMAIN places |-> <<f, places[n]>>]
      global(s) == Parts(s[1]) \o Qualified(R, s)
      outer(s) == IF R.code[s[1]][s[2]].up = 0 THEN <<>> ELSE global(<<s[1], R.code[s[1]][s[2]].up>>)
      record(syms, names, k) ==
        [id     |-> <<names[k], Cardinality({j \in 1..k : names[j] = names[k]})>>,
         name   |-> Last(names[k]),
         type   |-> SymbolType(R, syms[k]),
         at     |-> syms[k],
         parent |-> outer(syms[k]),
         bases  |-> IF IsClass(R, syms[k]) THEN R.code[syms[k][1]][syms[k][2]].bases ELSE <<>>]
      records(syms, names) == [k \in DOMAIN syms |-> record(syms, names, k)]
      named(syms) == records(syms, [k \in DOMAIN syms |-> global(syms[k])])
  IN  named(FlatMap(ofFile, R.files))

\* A record that is not found is 0.
LookupQualified(table, name) == LastOf({k \in DOMAIN table : table[k].id[1] = name})
Lookup(table, name) == SelectInSeq(table, LAMBDA r : <<r.name>> = name)

\* persist_graph: by qualified name, or else the first with the bare name.
RecordOf(table, name) ==
  IF LookupQualified(table, name) # 0 THEN LookupQualified(table, name) ELSE Lookup(table, name)
============================================================================
