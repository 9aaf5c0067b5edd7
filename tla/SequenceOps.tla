----------------------------- MODULE SequenceOps -----------------------------
(***************************************************************************)
(* What the proofs of this project need to see the inside of: the          *)
(* sequence without the elements that are in a set.                        *)
(***************************************************************************)
EXTENDS Naturals, Sequences

\* kept[i] is what is left of the first i elements.
Kept(s, gone) ==
  LET kept[i \in 0..Len(s)] ==
        IF i = 0 THEN <<>>
        ELSE IF s[i] \in gone THEN kept[i - 1] ELSE Append(kept[i - 1], s[i])
  IN kept

Without(s, gone) == Kept(s, gone)[Len(s)]
=============================================================================
