-------------------------- MODULE DaemonLifecycle --------------------------
(***************************************************************************)
(* What drivechaind promises its clients about its own end, whatever the   *)
(* goroutines behind it do.  The daemon leaves only at the end of a drain  *)
(* that nobody kept, or after a signal; a drain that was kept serves       *)
(* again; and once it leaves there is no way back.                         *)
(***************************************************************************)
VARIABLES
    phase,      \* "serving", "draining", "leaving" or "gone"
    exits,      \* whether the drain in flight ends in an exit
    signalled   \* a signal asked the daemon to end

lifecycleVars == <<phase, exits, signalled>>

LifecycleInit == phase = "serving" /\ exits = FALSE /\ signalled = FALSE

Drains ==
    /\ phase = "serving"
    /\ phase' = "draining" /\ exits' = TRUE
    /\ UNCHANGED signalled

Keeps ==
    /\ phase = "draining" /\ exits
    /\ exits' = FALSE
    /\ UNCHANGED <<phase, signalled>>

AsksAgain ==
    /\ phase = "draining" /\ ~exits
    /\ exits' = TRUE
    /\ UNCHANGED <<phase, signalled>>

Serves ==
    /\ phase = "draining" /\ ~exits
    /\ phase' = "serving"
    /\ UNCHANGED <<exits, signalled>>

Leaves ==
    /\ (phase = "draining" /\ exits) \/ (phase \in {"serving", "draining"} /\ signalled)
    /\ phase' = "leaving" /\ exits' = FALSE
    /\ UNCHANGED signalled

\* A signal starts a drain, or joins the one in flight.
Signals ==
    /\ ~signalled /\ phase # "gone"
    /\ signalled' = TRUE
    /\ IF phase = "serving" THEN phase' = "draining" /\ exits' = TRUE
                            ELSE UNCHANGED <<phase, exits>>

Ends ==
    /\ phase = "leaving"
    /\ phase' = "gone"
    /\ UNCHANGED <<exits, signalled>>

LifecycleNext == Drains \/ Keeps \/ AsksAgain \/ Serves \/ Leaves \/ Signals \/ Ends

LifecycleSpec == LifecycleInit /\ [][LifecycleNext]_lifecycleVars
=============================================================================
