------------------------------- MODULE Daemon -------------------------------
(***************************************************************************)
(* The daemon on one node, end to end: SyncLoop together with an LVS       *)
(* backend and the kernel it programs, killed and started again at any     *)
(* moment.                                                                 *)
(*                                                                         *)
(* The backend is taken for what LvsAdaptor is shown to do                 *)
(* (CleanBuildConverges, Reconciles): a call of Build that nothing         *)
(* disturbs leaves the kernel with what it was given, one that fails       *)
(* somewhere or is cut short leaves of each object the old state, the new  *)
(* one or nothing.  Kernel and API server outlive the daemon.              *)
(***************************************************************************)
EXTENDS SyncLoop

CONSTANT MaxFaults   \* bound on failures, restarts and interference

ASSUME DaemonAssumption == MaxFaults \in Nat

VARIABLES
    kernel,  \* kind -> key -> content of the object that the kernel serves
    whole,   \* history: the last Build was undisturbed, the kernel is as it left it
    faults   \* number of faults so far

kernelVars == <<kernel, whole, faults>>
daemonVars == <<vars, kernelVars>>

-----------------------------------------------------------------------------
Fault == faults < MaxFaults /\ faults' = faults + 1 /\ whole' = FALSE

\* What a call of Build that does not do everything may leave of an object.
Leftovers(w, k) ==
    IF kernel[w][k] = listed[w][k] THEN {listed[w][k]} ELSE {kernel[w][k], listed[w][k], Absent}

PartlyBuilt ==
    /\ kernel' \in [Kinds -> [Keys -> Vers \cup {Absent}]]
    /\ \A w \in Kinds, k \in Keys : kernel'[w][k] \in Leftovers(w, k)

\* LVSLB.Build, when it has returned.
Build ==
    \/ kernel' = listed /\ whole' = TRUE /\ UNCHANGED faults
    \/ Fault /\ PartlyBuilt

\* A step of the sync loop, the informers or the API server.
LoopStepWithBackend ==
    /\ Next
    /\ IF BuildReturns THEN Build ELSE UNCHANGED kernelVars

\* Mutant: the watches start where the API server is now, without a list.
Restart_noList ==
    /\ Fault
    /\ IF pc = "build" THEN PartlyBuilt ELSE UNCHANGED kernel
    /\ deltas' = [w \in Kinds |-> [k \in Keys |-> <<>>]]
    /\ todo' = [w \in Kinds |-> {}]
    /\ cache' = [w \in Kinds |-> [k \in Keys |-> Absent]]
    /\ notify' = [w \in Kinds |-> FALSE]
    /\ made' = FALSE /\ tokens' = 0
    /\ pc' = "pollSvc"
    /\ listed' = [w \in Kinds |-> [k \in Keys |-> Absent]]
    /\ held' = [k \in Keys |-> Absent]
    /\ silent' = [w \in Kinds |-> {}] /\ gaveUp' = {}
    /\ UNCHANGED <<rev, store>>

\* The process dies, in the middle of Build or of a status update for
\* instance, and Start() runs again.
Restart ==
    /\ Fault
    /\ IF pc = "build" THEN PartlyBuilt ELSE UNCHANGED kernel
    /\ deltas' = [w \in Kinds |-> [k \in Keys |->
                    IF store[w][k] = Absent THEN <<>>
                    ELSE <<[op |-> "Set", obj |-> store[w][k]]>>]]
    /\ todo' = [w \in Kinds |-> {k \in Keys : store[w][k] # Absent}]
    /\ cache' = [w \in Kinds |-> [k \in Keys |-> Absent]]
    /\ notify' = [w \in Kinds |-> FALSE]
    /\ made' = FALSE /\ tokens' = 0
    /\ pc' = "pollSvc"
    /\ listed' = [w \in Kinds |-> [k \in Keys |-> Absent]]
    /\ held' = [k \in Keys |-> Absent]
    /\ silent' = [w \in Kinds |-> {}] /\ gaveUp' = {}
    /\ UNCHANGED <<rev, store>>

\* Somebody empties the kernel's tables.
Interference ==
    /\ Fault
    /\ kernel' = [w \in Kinds |-> [k \in Keys |-> Absent]]
    /\ UNCHANGED vars

-----------------------------------------------------------------------------
DaemonInit ==
    /\ Init
    /\ kernel = [w \in Kinds |-> [k \in Keys |-> Absent]]
    /\ whole = FALSE
    /\ faults = 0

DaemonNext == LoopStepWithBackend \/ Restart \/ Interference

DaemonSpec ==
    /\ DaemonInit /\ [][DaemonNext]_daemonVars
    /\ Fairness /\ WF_vars(Tick)

-----------------------------------------------------------------------------
(* Properties. *)

\* End to end: after the last change of API objects and the last fault, the
\* kernel comes to serve exactly the LoadBalancer services and endpoints that
\* the API server holds, whatever was lost, missed or half done before.
KernelFollowsApi ==
    <>[](Started => \A w \in Kinds, k \in Keys : kernel[w][k] = View(w, store[w][k]))

\* The node asks for the traffic of a service only when it can serve it: this
\* node's address gets into a status only when the kernel serves the service,
\* unless a Build failed or somebody changed the kernel since.
AnnouncedWhenServed ==
    [][\A k \in Keys :
         LET old == store["svc"][k]
             new == store'["svc"][k]
         IN  old # Absent /\ new # Absent /\ Bind \in new.ing \ old.ing /\ whole
               => kernel["svc"][k] # Absent]_daemonVars
=============================================================================
