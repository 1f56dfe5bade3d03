----------------------------- MODULE MCDAMount -----------------------------
(* Instances of DAMount for TLC.                                            *)
EXTENDS DAMount

CONSTANTS d1, d2, net, a, b

(* Volumes of one name, whose first mount point clients and others name too; a *)
(* mount map has options for d2, and no mount points.                        *)
SameName == [d \in Disk |-> a]
Mapped   == [d \in Disk |-> IF d = d2 THEN <<"rdonly">> ELSE <<>>]
MappedTo == [d \in Disk |-> NoPath]
Point    == {<<a, 0>>}
Client   == {<<>>, <<"update", "rw">>, <<"snapshot">>}
=============================================================================
