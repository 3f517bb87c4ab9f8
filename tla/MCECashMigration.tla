-------------------------- MODULE MCECashMigration --------------------------
(* TLC instance of ECashMigration: a block file of two records and an undo *)
(* file of one, so that a file can be synced while another is not, and a   *)
(* loss of power can hit one of two records written and not yet synced.    *)
EXTENDS ECashMigration, TLC

CONSTANTS blk, rev, r1, r2, r3, b1

MCFileOf == (r1 :> blk) @@ (r2 :> blk) @@ (r3 :> rev)
=============================================================================
