---------------------------- MODULE MCBmmEngine ----------------------------
(* TLC instance of BmmEngine: all its constants are numbers of the cfg.    *)
EXTENDS BmmEngine
=============================================================================
