--------------------------- MODULE MCHybridIndex ---------------------------
(* Instances of HybridIndex for TLC.                                       *)
EXTENDS HybridIndex

\* Two files of one repository.
DistinctPaths == {<<"click", "core.py">>, <<"click", "utils.py">>}

\* The same path in two repositories.
SharedPath == {<<"click", "utils.py">>, <<"flask", "utils.py">>}

\* Revision 2 of a file has lost the chunk at slot 1 and gained one at slot 3.
Chunking == [v \in {1, 2} |-> IF v = 1 THEN {1, 2} ELSE {2, 3}]

\* ... and has lost the doc record at slot 1.
DocChunking == [v \in {1, 2} |-> IF v = 1 THEN {1, 2} ELSE {2}]
=============================================================================
