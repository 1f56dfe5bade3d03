---------------------------- MODULE MCDAConsole ----------------------------
(* Instances of DAConsole for TLC.                                          *)
EXTENDS DAConsole

CONSTANTS w, v, x, a, b

(* A device w with a volume v, and a volume x that takes the name of v.      *)
Names  == [m \in Medium |-> IF m = w THEN w ELSE v]
Units  == [m \in Medium |-> 1]
There  == <<w, v>>
Owners == [m \in Medium |-> IF m = v THEN NoUser ELSE a]
=============================================================================
