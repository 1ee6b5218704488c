------------------------------- MODULE Picks -------------------------------
(***************************************************************************)
(* Some of the elements of a sequence, in their order: the holds that are  *)
(* left when others are removed.  The positions are given as a set.        *)
(***************************************************************************)
EXTENDS Integers, Sequences

\* The elements of s at the positions in T.
Picked(s, T) ==
  LET upto[n \in 0 .. Len(s)] ==
        IF n = 0 THEN <<>>
        ELSE IF n \in T THEN Append(upto[n - 1], s[n]) ELSE upto[n - 1]
  IN  upto[Len(s)]
=============================================================================
