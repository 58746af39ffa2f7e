------------------------------ MODULE Selection ------------------------------
(***************************************************************************)
(* The loop that several components have over a list: what is in a set is  *)
(* taken over, in its order, and the rest is left out.                     *)
(***************************************************************************)
EXTENDS Sequences, SequencesExt

Those(list, wanted) ==
    FoldLeft(LAMBDA found, x : IF x \in wanted THEN Append(found, x) ELSE found, <<>>, list)

=============================================================================
