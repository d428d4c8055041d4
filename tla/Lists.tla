-------------------------------- MODULE Lists --------------------------------
(***************************************************************************)
(* What several modules take from a list.                                  *)
(***************************************************************************)
EXTENDS Naturals, Sequences, SequencesExt

\* The elements of s that are in S, in the order they have in s.
Among(s, S) ==
    FoldLeft(LAMBDA t, x : IF x \in S THEN Append(t, x) ELSE t, <<>>, s)
=============================================================================
