------------------------------- MODULE Orders -------------------------------
(***************************************************************************)
(* The orders in which the server and the pages put rows.                  *)
(***************************************************************************)
EXTENDS Naturals, SequencesExt

\* The elements of a finite set, the one with the least key first.
OrderedBy(S, key) == CHOOSE q \in SetToSeqs(S) : \A i, j \in DOMAIN q : i < j => key[q[i]] <= key[q[j]]

\* The numbers of a finite set, the least first.
Ascending(ns) == OrderedBy(ns, [n \in ns |-> n])
=============================================================================
