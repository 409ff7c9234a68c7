-------------------------- MODULE MCCollectionInfo --------------------------
(* Instances of the table of collection information: three requests, two   *)
(* of them in the same server.                                             *)
EXTENDS CollectionInfo, TLC

CONSTANTS r1, r2, r3, s1, s2

MCServerOf == [r \in Requests |-> IF r = r3 THEN s2 ELSE s1]

(* The requests of one server are interchangeable.                         *)
MCSymmetry == Permutations({r1, r2})
=============================================================================
