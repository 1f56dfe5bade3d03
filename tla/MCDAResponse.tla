---------------------------- MODULE MCDAResponse ----------------------------
(* Instances of DAResponse for TLC.                                         *)
EXTENDS DAResponse

CONSTANTS d1, d2, s1, s2

Peek(s, tag, order, match) ==
  [session |-> s, tag |-> tag, kind |-> "Peek", order |-> order, match |-> match]
Vote(s, tag, kind) ==
  [session |-> s, tag |-> tag, kind |-> kind, order |-> 0, match |-> Disk]

(* Peeks of two sessions, one of them registered twice under one address    *)
(* and context with different orders, another excluded from a disk.         *)
PeekCallbacks ==
  {Peek(s1, "p", 0, Disk), Peek(s1, "p", 2, Disk), Peek(s2, "p", 1, {d1})}

(* A peek, and votes of two sessions.                                       *)
VotesAndPeek == {Peek(s1, "p", 0, Disk), Vote(s1, "a", "Unmount"), Vote(s2, "a", "Unmount")}
=============================================================================
