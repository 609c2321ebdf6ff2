---------------------------- MODULE MCGraphStore ----------------------------
(***************************************************************************)
(* Small repositories for GraphStore: all the import graphs of three       *)
(* files, and two files of classes and functions in several variants.      *)
(***************************************************************************)
EXTENDS GraphStore

A == <<"p", "a">>
B == <<"p", "b">>
C == <<"p", "c">>
QC == <<"p", "q", "c">>
D == <<"p", "q", "d">>
MCFiles == {A, B, C, QC, D}

Name(name) == << [name |-> name, as |-> ""] >>
From(dots, parts, names) == [kind |-> "from", up |-> 0, module |-> Module(dots, parts), names |-> names]
ImportOf(parts) == [kind |-> "import", up |-> 0, module |-> Module(0, parts), as |-> ""]
Class(name, bases, last) ==
  [kind |-> "class", name |-> name, up |-> 0, last |-> last, bases |-> bases]
NoParams == [v \in {} |-> ""]
Def(name, up, last) ==
  [kind |-> "def", name |-> name, up |-> up, last |-> last, params |-> NoParams]
Call(on, name, up) == [kind |-> "call", on |-> on, name |-> name, up |-> up]
Made(name, class, up) == [kind |-> "assign", name |-> name, note |-> "", from |-> class, up |-> up]

\* Every file imports any of the three: of its package, or by its full name.
ImportRepo(g) ==
  [files |-> <<A, B, C>>,
   code  |-> [f \in {A, B, C} |-> [k \in DOMAIN g[f] |->
                IF k = 1 THEN ImportOf(g[f][k]) ELSE From(1, <<>>, Name(Last(g[f][k])))]]]
Lists == { SelectSeq(<<A, B, C>>, LAMBDA f : f \in S) : S \in SUBSET {A, B, C} }
ImportRepos == { ImportRepo(g) : g \in [{A, B, C} -> Lists] }

\* Two classes that may inherit from each other or twice from one, called
\* through self, a variable and their names; g is defined twice.
ClassRepo(basesA, basesB, own) ==
  [files |-> <<A, B>>,
   code  |-> [f \in {A, B} |->
     IF f = A
     THEN << Class("A", basesA, 3), Def("m", 1, 3), Call("self", "n", 2),
             Class("B", basesB, 5), Def(own, 4, 5),
             Class("E", << <<"A">>, <<"B">> >>, 8), Def("k", 6, 8), Call("self", "n", 7) >>
     ELSE << From(1, <<"a">>, Name("A")), From(0, <<"p", "a">>, <<>>),
             Def("f", 0, 7), Made("x", "A", 3), Call("x", "m", 3), Call("", "g", 3), Call("", "E", 3),
             Def("g", 0, 8), Def("g", 0, 10), Call("", "f", 9) >>]]
ClassRepos ==
  { ClassRepo(a, b, own) :
      a \in { <<>>, << <<"B">> >>, << <<"B">>, <<"A">> >> },
      b \in { <<>>, << <<"A">> >>, << <<"p", "A">> >> }, own \in {"m", "n"} }

\* A class that replaces another of its name, and inherits from it no more.
ShadowRepo ==
  [files |-> <<A>>,
   code  |-> [f \in {A} |->
     << Class("A", << <<"B">> >>, 2), Def("m", 1, 2), Class("B", << <<"A">> >>, 4), Def("k", 3, 4),
        Class("A", << <<"B">> >>, 7), Def("n", 5, 7), Call("self", "k", 6) >>]]

\* A package in a package, and two modules with one name.
NestedRepo ==
  [files |-> <<C, QC, D>>,
   code  |-> [f \in {C, QC, D} |->
     IF f = D THEN << From(1, <<>>, Name("c")), Def("h", 0, 3), Call("c", "run", 2) >>
     ELSE << Def("run", 0, 1) >>]]

MCRepos == ImportRepos \cup ClassRepos \cup {ShadowRepo}
MCNested == {NestedRepo}
=============================================================================
