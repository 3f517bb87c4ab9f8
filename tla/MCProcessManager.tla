------------------------- MODULE MCProcessManager -------------------------
(* TLC instance of ProcessManager: one slot, whose runs follow each other. *)
(* Slots share nothing but the lock.                                       *)
EXTENDS ProcessManager

CONSTANTS n1, s1, x1

(* No removal is under way in a daemon that lost a child to one: a second  *)
(* loss shows nothing new.                                                 *)
OneLoss == dropped # {} => \A x \in Removers : removing[x] = {}
=============================================================================
