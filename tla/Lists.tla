--------------------------------- MODULE Lists ---------------------------------
(***************************************************************************)
(* The loop by which the code filters a slice: what is kept is appended,   *)
(* so that the order stays the same.  (SelectSeq of the standard module    *)
(* says the same, but nothing can be proved about it.)                     *)
(***************************************************************************)
EXTENDS Integers, Sequences

\* The elements of s that are in T.
Only(s, T) ==
    LET only[n \in 0..Len(s)] ==
          IF n = 0 THEN << >>
          ELSE IF s[n] \in T THEN Append(only[n - 1], s[n]) ELSE only[n - 1]
    IN  only[Len(s)]

=============================================================================
