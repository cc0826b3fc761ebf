------------------------------- MODULE Strings -------------------------------
(***************************************************************************)
(* Joining and splitting, as functions of the position reached, so that a  *)
(* proof can follow them from one position to the next.                    *)
(***************************************************************************)
EXTENDS Naturals, Sequences

(* The sequences of ss one after the other. *)
Joined(ss) ==
  LET upTo[n \in 0 .. Len(ss)] == IF n = 0 THEN <<>> ELSE upTo[n - 1] \o ss[n]
  IN  upTo[Len(ss)]

(* String.split: the parts of s between the characters c. *)
SplitBy(s, c) ==
  LET parts[n \in 0 .. Len(s)] ==
        IF n = 0 THEN <<<<>>>>
        ELSE LET before == parts[n - 1]
             IN  IF s[n] = c THEN Append(before, <<>>)
                 ELSE [before EXCEPT ![Len(before)] = Append(@, s[n])]
  IN  parts[Len(s)]
=============================================================================
