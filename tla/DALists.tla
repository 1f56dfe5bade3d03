------------------------------- MODULE DALists -------------------------------
(***************************************************************************)
(* Lists that the daemon goes through for some of their entries.           *)
(***************************************************************************)
EXTENDS Naturals, Sequences

\* What of a list is in S, in its order.
Those(q, S) ==
  LET those[n \in 0 .. Len(q)] ==
        IF n = 0 THEN <<>>
        ELSE IF q[n] \in S THEN Append(those[n - 1], q[n]) ELSE those[n - 1]
  IN those[Len(q)]
=============================================================================
