---------------------------- MODULE MCKeeperTicks ----------------------------
(* Instances of KeeperTicks for TLC; the values are those of MCKeeper. *)
EXTENDS KeeperTicks, MCKeeper
=============================================================================
