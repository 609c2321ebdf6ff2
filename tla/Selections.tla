----------------------------- MODULE Selections -----------------------------
(***************************************************************************)
(* Parts of sequences, in terms that can be proved about.                  *)
(***************************************************************************)
EXTENDS Naturals, Sequences, SequencesExt

IsSeq(s) == s \in Seq(ToSet(s))

\* The members of S up to n, in order.
InOrder(n, S) ==
  LET upTo[i \in 0..n] == IF i = 0 THEN <<>>
                          ELSE IF i \in S THEN Append(upTo[i - 1], i) ELSE upTo[i - 1]
  IN  upTo[n]

\* The elements of a sequence at some places, and those that pass a test: SelectSeq,
\* in terms that can be proved about.
Pick(seq, S) == LET places == InOrder(Len(seq), S) IN [n \in DOMAIN places |-> seq[places[n]]]
Where(seq, Test(_)) == Pick(seq, {k \in DOMAIN seq : Test(seq[k])})
=============================================================================
