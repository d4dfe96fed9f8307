-------------------------- MODULE MCMongoPrestart --------------------------
(* One node whose agent is started twice. *)
EXTENDS MongoPrestart, TLC
=============================================================================
