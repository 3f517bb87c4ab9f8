------------------------------ MODULE MCDaemon ------------------------------
(* TLC instance of Daemon: the first owner, and two frontends that want to  *)
(* replace it.  The daemon stops for good once it exited.                  *)
EXTENDS Daemon

CONSTANTS p1, p2, p3, c1, h1, b1

(* p2 and p3 are alike: let p2 be the first that claims. *)
FirstClaim == tries[p3] = 0 \/ tries[p2] > 0
=============================================================================
