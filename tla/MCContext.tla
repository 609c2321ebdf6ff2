------------------------------- MODULE MCContext -------------------------------
(* Instances of Context: a module of a few lines, a class and a function.      *)
EXTENDS Context

AstNode(kind, up, first, last, body) ==
  [kind |-> kind, up |-> up, first |-> first, last |-> last, body |-> body]

\* A class with a method, too large for a chunk, below two statements that have a
\* blank line between them.
Module == << AstNode("stmt", 0, 1, 1, 0), AstNode("stmt", 0, 3, 3, 0),
             AstNode("class", 0, 4, 9, 5), AstNode("stmt", 3, 5, 5, 0), AstNode("def", 3, 6, 9, 7),
             AstNode("stmt", 5, 7, 7, 0), AstNode("stmt", 5, 8, 9, 0) >>

\* A function of two statements, too large for a chunk.
Function == << AstNode("def", 0, 1, 5, 2), AstNode("stmt", 1, 2, 3, 0), AstNode("stmt", 1, 4, 5, 0) >>

\* A function of six statements, in two chunks of three.
Long == << AstNode("def", 0, 1, 7, 2) >> \o [k \in 1..6 |-> AstNode("stmt", 1, k + 1, k + 1, 0)]

MCSources == {<<Function, Module>>, <<Long>>}
MCLong == {<<Long>>}
================================================================================
