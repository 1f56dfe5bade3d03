------------------------------ MODULE MCDAProbe ------------------------------
(* Two disks, three bundles (the first is broken for one of the runs'       *)
(* disks, the second is put off) and a module.                              *)
EXTENDS DAProbe

CONSTANTS d1, d2, hfs, ntfs, udf, msdos

List == <<udf, ntfs, hfs>>
Offer == <<msdos>>
Fit == [d \in {d1, d2} |-> IF d = d1 THEN {udf, ntfs, msdos} ELSE {hfs, ntfs}]
=============================================================================
