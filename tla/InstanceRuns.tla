---------------------------- MODULE InstanceRuns ----------------------------
(***************************************************************************)
(* What the daemon promises about the runs of one instance, without its    *)
(* locks, goroutines and channels: runs follow one another, a cleanup      *)
(* command belongs to the run that has just ended and is not started for a *)
(* run that was killed, and the end of a run is told at most once, as      *)
(* unexpected only when nobody had asked for it.                           *)
(***************************************************************************)
EXTENDS Naturals

CONSTANT Runs  \* the numbers of the runs

VARIABLES
    phase,   \* per run: "unborn", "live", "cleanup", "over"
    wanted,  \* runs somebody asked to end
    killed,  \* runs killed while live
    told     \* per run: what was told of its end

runVars == <<phase, wanted, killed, told>>

Phases == {"unborn", "live", "cleanup", "over"}
Tellings == {"none", "expected", "unexpected"}

RunsInit ==
    /\ phase = [r \in Runs |-> "unborn"]
    /\ wanted = {}
    /\ killed = {}
    /\ told = [r \in Runs |-> "none"]

\* A run begins only when every run before it is over.
Begin(r) ==
    /\ phase[r] = "unborn"
    /\ \A s \in Runs : phase[s] = (IF s < r THEN "over" ELSE "unborn")
    /\ phase' = [phase EXCEPT ![r] = "live"]
    /\ UNCHANGED <<wanted, killed, told>>

\* Ending a run may be asked for until it is over.
Want(r) ==
    /\ phase[r] \in {"live", "cleanup"}
    /\ wanted' = wanted \cup {r}
    /\ killed' \in {killed} \cup (IF phase[r] = "live" THEN {killed \cup {r}} ELSE {})
    /\ UNCHANGED <<phase, told>>

End(r) ==
    /\ phase[r] = "live"
    /\ \E p \in {"cleanup", "over"} :
        /\ p = "cleanup" => r \notin killed
        /\ phase' = [phase EXCEPT ![r] = p]
    /\ UNCHANGED <<wanted, killed, told>>

EndCleanup(r) ==
    /\ phase[r] = "cleanup"
    /\ phase' = [phase EXCEPT ![r] = "over"]
    /\ UNCHANGED <<wanted, killed, told>>

\* The end of a run is told once.
Tell(r) ==
    /\ phase[r] = "over"
    /\ told[r] = "none"
    /\ \E t \in {"expected", "unexpected"} :
        /\ t = "unexpected" => r \notin wanted
        /\ told' = [told EXCEPT ![r] = t]
    /\ UNCHANGED <<phase, wanted, killed>>

RunsNext == \E r \in Runs :
    Begin(r) \/ Want(r) \/ End(r) \/ EndCleanup(r) \/ Tell(r)

RunsSpec == RunsInit /\ [][RunsNext]_runVars

=============================================================================
