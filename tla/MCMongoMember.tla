--------------------------- MODULE MCMongoMember ---------------------------
(* A primary and another member, and a node that left earlier. *)
EXTENDS MongoMember, TLC

CONSTANTS n1, n2, n3, off

MCNode  == {n1, n2}
MCOther == {n3}
=============================================================================
