------------------------------ MODULE MCDaemon ------------------------------
(* Instances of Daemon for TLC: one service and its endpoints. *)
EXTENDS Daemon

CONSTANT a

\* The daemon meets a LoadBalancer service that nobody announces and that has
\* no endpoints yet.  Other first states come about by writes and restarts.
MCInit ==
    /\ DaemonInit
    /\ store["svc"][a] = [lb |-> TRUE, ver |-> 1, ing |-> {}, rv |-> 0]
    /\ store["ep"][a] = Absent

MCSpec ==
    /\ MCInit /\ [][DaemonNext]_daemonVars
    /\ Fairness /\ WF_vars(Tick)
=============================================================================
