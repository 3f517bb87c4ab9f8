----------------------------- MODULE MCShutdown -----------------------------
(* TLC instance of Shutdown: two boots, a signal and clients.              *)
EXTENDS Shutdown

CONSTANTS b1, b2
=============================================================================
