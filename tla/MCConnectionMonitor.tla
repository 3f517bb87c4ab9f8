------------------------ MODULE MCConnectionMonitor ------------------------
(* TLC instance of ConnectionMonitor: one daemon, a crash and its restart. *)
EXTENDS ConnectionMonitor
=============================================================================
