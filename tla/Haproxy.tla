------------------------------- MODULE Haproxy -------------------------------
(***************************************************************************)
(* haproxy/haproxy.go: the goroutine that turns the configurations sent by *)
(* HaproxyLB.Build into running haproxy processes.  It remembers the last  *)
(* configuration it saw, writes it to a temporary file, lets haproxy check *)
(* it, renames it and starts a new generation of haproxy, which asks the   *)
(* processes named in the pid file to finish.  Each of these may fail.     *)
(*                                                                         *)
(* A configuration is a member of Confs: equal members are equal byte      *)
(* strings (HaproxyAdaptor says which services give which).  haproxy and   *)
(* the file system are external.                                           *)
(***************************************************************************)
EXTENDS Naturals, FiniteSets

CONSTANTS
    Confs,      \* configurations the sync loop can send
    Valid,      \* those that haproxy -c accepts
    None,       \* no configuration
    Gens,       \* names for generations of haproxy processes
    MaxFaults   \* bound on failures

ASSUME HaproxyAssumption ==
    /\ Valid \subseteq Confs
    /\ None \notin Confs
    /\ IsFiniteSet(Gens)
    /\ MaxFaults \in Nat
    /\ Cardinality(Gens) > MaxFaults + 1

VARIABLES
    offer,     \* configuration in HaproxyLB.Build's send on ConfigChan
    pc,        \* where Run is
    lastConf,  \* Haproxy.lastConf
    tmpFile,   \* content of confFile.tmp
    confFile,  \* content of confFile
    procs,     \* generation -> its configuration, None if it does not listen
    pidFile,   \* generations named in the pid file
    oldPids,   \* restart: generations named after -sf
    faults,    \* number of failures so far
    failed,    \* history: applying lastConf failed at some step
    pidsLost   \* history: some restart could not read the pid file

fileVars == <<tmpFile, confFile>>
procVars == <<procs, pidFile, oldPids, pidsLost>>
vars == <<offer, pc, lastConf, fileVars, procVars, faults, failed>>

Pcs == {"recv", "write", "check", "rename", "readPids", "start"}

Listening == {g \in Gens : procs[g] # None}

Running == {procs[g] : g \in Listening}

-----------------------------------------------------------------------------
Fault == faults < MaxFaults /\ faults' = faults + 1

\* A step of buildConf or restart that works, or fails and is only logged.
Step(from, to) == pc = from /\ pc' = to /\ UNCHANGED <<faults, failed>>

GiveUp(from) == pc = from /\ pc' = "recv" /\ failed' = TRUE

\* HaproxyLB.Build: ConfigChan is unbuffered, the sync loop waits in the send.
Send ==
    /\ offer = None
    /\ offer' \in Confs
    /\ UNCHANGED <<pc, lastConf, fileVars, procVars, faults, failed>>

\* "haproxy config unchanged, abort syncing"
ReceiveUnchanged ==
    /\ pc = "recv"
    /\ offer # None
    /\ offer = lastConf
    /\ offer' = None
    /\ UNCHANGED <<pc, lastConf, fileVars, procVars, faults, failed>>

\* buildConf() remembers the configuration before it does anything with it.
Receive ==
    /\ pc = "recv"
    /\ offer # None
    /\ offer # lastConf
    /\ offer' = None
    /\ lastConf' = offer
    /\ pc' = "write"
    /\ failed' = FALSE
    /\ UNCHANGED <<fileVars, procVars, faults>>

\* MkdirAll and WriteFile; a failed write may leave anything.
WriteFile ==
    /\ \/ Step("write", "check") /\ tmpFile' = lastConf
       \/ GiveUp("write") /\ Fault /\ tmpFile' \in {tmpFile, None}
    /\ UNCHANGED <<offer, lastConf, confFile, procVars>>

\* Mutant: the result of haproxy -c is ignored.
checkConfigs_ignored ==
    /\ Step("check", "rename")
    /\ UNCHANGED <<offer, lastConf, fileVars, procVars>>

\* Mutant: a configuration that is refused is checked again and again.
checkConfigs_retry ==
    /\ \/ Step("check", "rename") /\ tmpFile \in Valid
       \/ pc = "check" /\ tmpFile \notin Valid /\ UNCHANGED <<pc, faults, failed>>
    /\ UNCHANGED <<offer, lastConf, fileVars, procVars>>

checkConfigs ==
    /\ \/ Step("check", "rename") /\ tmpFile \in Valid
       \/ GiveUp("check") /\ tmpFile \notin Valid /\ UNCHANGED faults
       \/ GiveUp("check") /\ tmpFile \in Valid /\ Fault
    /\ UNCHANGED <<offer, lastConf, fileVars, procVars>>

\* Mutant: the checked file is never put in place.
Rename_forgotten ==
    /\ Step("rename", "readPids")
    /\ UNCHANGED <<offer, lastConf, fileVars, procVars>>

Rename ==
    /\ \/ Step("rename", "readPids") /\ confFile' = tmpFile /\ tmpFile' = None
       \/ GiveUp("rename") /\ Fault /\ UNCHANGED fileVars
    /\ UNCHANGED <<offer, lastConf, procVars>>

\* Mutant: the old processes are not asked to finish.
readPids_none ==
    /\ Step("readPids", "start")
    /\ oldPids' = {}
    /\ UNCHANGED <<offer, lastConf, fileVars, procs, pidFile, pidsLost>>

\* Mutant: the empty string after the last newline is taken for a pid.
readPids_emptyLine ==
    /\ \/ /\ Step("readPids", "start")
          /\ oldPids' = pidFile \cup {None}
          /\ UNCHANGED pidsLost
       \/ /\ pc = "readPids" /\ pc' = "start"
          /\ Fault
          /\ oldPids' = {}
          /\ pidsLost' = TRUE
          /\ UNCHANGED failed
    /\ UNCHANGED <<offer, lastConf, fileVars, procs, pidFile>>

\* The arguments of restart(): without the pid file nobody is asked to finish.
readPids ==
    /\ \/ /\ Step("readPids", "start")
          /\ oldPids' = pidFile
          /\ UNCHANGED pidsLost
       \/ /\ pc = "readPids" /\ pc' = "start"
          /\ Fault
          /\ oldPids' = {}
          /\ pidsLost' = TRUE
          /\ UNCHANGED failed
    /\ UNCHANGED <<offer, lastConf, fileVars, procs, pidFile>>

\* haproxy binds, writes its pids and signals the old ones; if it cannot, the
\* old generation is left as it was.
StartHaproxy ==
    /\ \/ /\ Step("start", "recv")
          /\ \E g \in Gens \ (Listening \cup pidFile) :
               /\ procs' = [h \in Gens |-> IF h = g THEN confFile
                                           ELSE IF h \in oldPids THEN None ELSE procs[h]]
               /\ pidFile' = {g}
       \/ GiveUp("start") /\ Fault /\ UNCHANGED <<procs, pidFile>>
    /\ oldPids' = {}
    /\ UNCHANGED <<offer, lastConf, fileVars, pidsLost>>

\* bmlb is process 1 of its container: everything goes with it.
RestartContainer ==
    /\ Fault
    /\ offer' = None
    /\ pc' = "recv"
    /\ lastConf' = None
    /\ tmpFile' = None /\ confFile' = None
    /\ procs' = [g \in Gens |-> None]
    /\ pidFile' = {} /\ oldPids' = {} /\ pidsLost' = FALSE
    /\ failed' = FALSE

-----------------------------------------------------------------------------
Init ==
    /\ offer = None
    /\ pc = "recv"
    /\ lastConf = None
    /\ tmpFile = None
    /\ confFile = None
    /\ procs = [g \in Gens |-> None]
    /\ pidFile = {}
    /\ oldPids = {}
    /\ faults = 0
    /\ failed = FALSE
    /\ pidsLost = FALSE

buildConf == WriteFile \/ checkConfigs \/ Rename

restart == readPids \/ StartHaproxy

Run == ReceiveUnchanged \/ Receive \/ buildConf \/ restart

Next == Send \/ Run \/ RestartContainer

\* File operations and haproxy's start come to an end.
Spec == Init /\ [][Next]_vars /\ WF_vars(Run)

-----------------------------------------------------------------------------
(* Properties. *)

\* Type invariant; in particular restart() names nothing after -sf but pids of
\* earlier generations, although the pid file ends in a newline and may be
\* missing.
TypeOK ==
    /\ offer \in Confs \cup {None}
    /\ pc \in Pcs
    /\ lastConf \in Confs \cup {None}
    /\ tmpFile \in Confs \cup {None}
    /\ confFile \in Confs \cup {None}
    /\ procs \in [Gens -> Confs \cup {None}]
    /\ pidFile \in SUBSET Gens
    /\ oldPids \in SUBSET Gens
    /\ faults \in 0..MaxFaults
    /\ failed \in BOOLEAN
    /\ pidsLost \in BOOLEAN

\* haproxy never runs, and confFile never holds, a configuration that
\* haproxy -c did not accept, whatever failed on the way.
OnlyCheckedConfs == Running \cup ({confFile} \ {None}) \subseteq Valid

\* A configuration that was taken up is what runs once Run waits again, unless
\* one of the steps of buildConf or restart failed for it.
AppliedUnlessFailed ==
    pc = "recv" /\ lastConf # None /\ ~failed => lastConf \in Running

\* A restart hands over: as long as the pid file could be read every time,
\* there is at most one generation of processes that listens, so no client
\* meets a configuration of an earlier one.
OneGeneration == ~pidsLost => Cardinality(Listening) <= 1

\* The sync loop never hangs in the send on ConfigChan: whatever fails, Run
\* comes back to receive.
SendReturns == offer # None ~> offer = None

\* haproxy.go:105 stops because "haproxy config unchanged, abort syncing": the
\* configuration it does not apply is the one that is running.
UnchangedMeansRunning ==
    [][ReceiveUnchanged => offer \in Running]_vars
=============================================================================
