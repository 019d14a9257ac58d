---------------------------- MODULE HaproxyProofs ----------------------------
(* Theorems about Haproxy, for any configurations, generations and bounds. *)
EXTENDS Haproxy, FiniteSetTheorems, TLAPS

\* Between two receives the files carry the configuration that was received:
\* the temporary file up to the rename, which haproxy has then accepted, and
\* the real file from there on.
FilesFollow ==
    /\ pc # "recv" => lastConf \in Confs
    /\ pc \in {"check", "rename"} => tmpFile = lastConf
    /\ pc = "rename" => tmpFile \in Valid
    /\ pc \in {"readPids", "start"} => confFile = lastConf

\* While the pid file is read every time it names all that listen, it never
\* names two generations, and restart() passes on what it names.
PidsKnown ==
    /\ ~pidsLost => Listening \subseteq pidFile
    /\ ~pidsLost /\ pc = "start" => oldPids = pidFile
    /\ \A g, h \in pidFile : g = h

HaproxyInv == TypeOK /\ FilesFollow /\ PidsKnown /\ OnlyCheckedConfs /\ AppliedUnlessFailed

\* What the proofs need of the constants.
LEMMA ConstantFacts == MaxFaults \in Nat /\ Valid \subseteq Confs /\ None \notin Confs
BY HaproxyAssumption

ReceiveStep == ReceiveUnchanged \/ Receive \/ Send

\* A fresh Haproxy satisfies the invariant.
LEMMA InitInv == Init => HaproxyInv
<1> SUFFICES ASSUME Init PROVE HaproxyInv
  OBVIOUS
<1> USE ConstantFacts DEF Init
<1>1. TypeOK
  <2>1. faults \in 0..MaxFaults
    BY ConstantFacts
  <2> QED
    BY <2>1 DEF TypeOK, Pcs
<1>2. Listening = {} /\ Running = {}
  BY DEF Listening, Running
<1> QED
  BY <1>1, <1>2 DEF HaproxyInv, FilesFollow, PidsKnown, OnlyCheckedConfs, AppliedUnlessFailed

\* A failure counts towards the bound.
LEMMA FaultsBounded ==
  ASSUME TypeOK, Fault \/ UNCHANGED faults
  PROVE  faults' \in 0..MaxFaults
BY ConstantFacts DEF TypeOK, Fault

\* The types are kept by every step.
LEMMA NextType == TypeOK /\ [Next]_vars => TypeOK'
<1> SUFFICES ASSUME TypeOK, [Next]_vars PROVE TypeOK'
  OBVIOUS
<1> USE DEF Pcs, fileVars, procVars
<1>1. CASE ReceiveStep
  BY <1>1 DEF ReceiveStep, ReceiveUnchanged, Receive, Send, TypeOK
<1>2. CASE WriteFile
  <2>1. faults' \in 0..MaxFaults
    BY <1>2, FaultsBounded DEF WriteFile, Step, GiveUp
  <2> QED
    BY <1>2, <2>1 DEF WriteFile, Step, GiveUp, TypeOK
<1>3. CASE checkConfigs
  <2>1. faults' \in 0..MaxFaults
    BY <1>3, FaultsBounded DEF checkConfigs, Step, GiveUp
  <2> QED
    BY <1>3, <2>1 DEF checkConfigs, Step, GiveUp, TypeOK
<1>4. CASE Rename
  <2>1. faults' \in 0..MaxFaults
    BY <1>4, FaultsBounded DEF Rename, Step, GiveUp
  <2> QED
    BY <1>4, <2>1 DEF Rename, Step, GiveUp, TypeOK
<1>5. CASE readPids
  <2>1. faults' \in 0..MaxFaults
    BY <1>5, FaultsBounded DEF readPids, Step, GiveUp
  <2> QED
    BY <1>5, <2>1 DEF readPids, Step, GiveUp, TypeOK
<1>6. CASE StartHaproxy
  <2>1. faults' \in 0..MaxFaults
    BY <1>6, FaultsBounded DEF StartHaproxy, Step, GiveUp
  <2> QED
    BY <1>6, <2>1 DEF StartHaproxy, Step, GiveUp, TypeOK
<1>7. CASE RestartContainer
  <2>1. faults' \in 0..MaxFaults
    BY <1>7, FaultsBounded DEF RestartContainer, Step, GiveUp
  <2> QED
    BY <1>7, <2>1 DEF RestartContainer, Step, GiveUp, TypeOK
<1>8. CASE UNCHANGED vars
  BY <1>8 DEF vars, TypeOK
<1> QED
  BY <1>1, <1>2, <1>3, <1>4, <1>5, <1>6, <1>7, <1>8
     DEF Next, Run, buildConf, restart, ReceiveStep

\* What runs depends on the processes alone.
LEMMA SameProcs == UNCHANGED procs => Running' = Running /\ Listening' = Listening
BY DEF Running, Listening

NewGeneration ==
    \E g \in Gens \ (Listening \cup pidFile) :
      /\ procs' = [h \in Gens |-> IF h = g THEN confFile
                                  ELSE IF h \in oldPids THEN None ELSE procs[h]]
      /\ pidFile' = {g}

\* A start replaces what the pid file named; a new generation runs confFile.
LEMMA StartedProcs ==
  ASSUME NewGeneration
  PROVE  /\ Running' \subseteq Running \cup {confFile}
         /\ confFile # None => confFile \in Running'
         /\ Listening' \subseteq (Listening \ oldPids) \cup pidFile'
<1>1. PICK g \in Gens \ (Listening \cup pidFile) :
         /\ procs' = [h \in Gens |-> IF h = g THEN confFile
                                     ELSE IF h \in oldPids THEN None ELSE procs[h]]
         /\ pidFile' = {g}
  BY DEF NewGeneration
<1>2. procs'[g] = confFile
  BY <1>1
<1> QED
  BY <1>1, <1>2 DEF Running, Listening

\* The invariant is inductive.
LEMMA NextInv == HaproxyInv /\ [Next]_vars => HaproxyInv'
<1> SUFFICES ASSUME HaproxyInv, [Next]_vars
             PROVE  FilesFollow' /\ PidsKnown' /\ OnlyCheckedConfs' /\ AppliedUnlessFailed'
  BY NextType DEF HaproxyInv
<1> USE ConstantFacts, SameProcs
      DEF HaproxyInv, FilesFollow, PidsKnown, OnlyCheckedConfs, AppliedUnlessFailed, fileVars, procVars
<1>1. CASE ReceiveStep
  BY <1>1 DEF ReceiveStep, ReceiveUnchanged, Receive, Send, TypeOK
<1>2. CASE WriteFile
  BY <1>2 DEF WriteFile, Step, GiveUp
<1>3. CASE checkConfigs
  BY <1>3 DEF checkConfigs, Step, GiveUp
<1>4. CASE Rename
  BY <1>4 DEF Rename, Step, GiveUp
<1>5. CASE readPids
  BY <1>5 DEF readPids, Step
<1>6. CASE StartHaproxy
  <2>1. CASE GiveUp("start") /\ UNCHANGED <<procs, pidFile>>
    BY <1>6, <2>1 DEF StartHaproxy, Step, GiveUp
  <2>2. CASE NewGeneration /\ Step("start", "recv")
    <3>1. confFile = lastConf /\ confFile \in Valid /\ confFile # None
      BY <1>6 DEF StartHaproxy, Step, GiveUp
    <3>2. FilesFollow' /\ OnlyCheckedConfs' /\ AppliedUnlessFailed'
      BY <1>6, <2>2, <3>1, StartedProcs DEF StartHaproxy, Step, GiveUp
    <3>3. PidsKnown'
      BY <1>6, <2>2, StartedProcs DEF StartHaproxy, Step, GiveUp
    <3> QED
      BY <3>2, <3>3
  <2> QED
    BY <1>6, <2>1, <2>2 DEF StartHaproxy, NewGeneration
<1>7. CASE RestartContainer
  <2>1. Listening' = {} /\ Running' = {}
    BY <1>7 DEF RestartContainer, Listening, Running
  <2> QED
    BY <1>7, <2>1 DEF RestartContainer
<1>8. CASE UNCHANGED vars
  BY <1>8 DEF vars
<1> QED
  BY <1>1, <1>2, <1>3, <1>4, <1>5, <1>6, <1>7, <1>8
     DEF Next, Run, buildConf, restart, ReceiveStep

\* The invariant holds in every reachable state.
LEMMA Invariant == Init /\ [][Next]_vars => []HaproxyInv
BY InitInv, NextInv, PTL

\* haproxy only ever runs, and confFile only ever holds, configurations that
\* haproxy -c accepted, however many steps fail.
THEOREM OnlyCheckedRun == Spec => []OnlyCheckedConfs
<1>1. HaproxyInv => OnlyCheckedConfs
  BY DEF HaproxyInv
<1> QED
  BY <1>1, Invariant, PTL DEF Spec

\* When Run waits again the configuration it took up is running, unless one of
\* the steps of buildConf or restart failed for it.
THEOREM AppliedWhenNothingFails == Spec => []AppliedUnlessFailed
<1>1. HaproxyInv => AppliedUnlessFailed
  BY DEF HaproxyInv
<1> QED
  BY <1>1, Invariant, PTL DEF Spec

\* Restarts hand over: one generation listens as long as the pid file is read.
THEOREM RestartsHandOver == Spec => []OneGeneration
<1>1. HaproxyInv => OneGeneration
  <2> SUFFICES ASSUME HaproxyInv, ~pidsLost PROVE Cardinality(Listening) <= 1
    BY DEF OneGeneration
  <2>1. \A g, h \in Listening : g = h
    BY DEF HaproxyInv, PidsKnown
  <2>2. CASE Listening = {}
    BY <2>2, FS_EmptySet
  <2>3. CASE Listening # {}
    <3>1. PICK g \in Listening : TRUE
      BY <2>3
    <3>2. Listening = {g}
      BY <2>1, <3>1
    <3>3. Cardinality({g}) = 1
      BY FS_Singleton
    <3> QED
      BY <3>2, <3>3
  <2> QED
    BY <2>2, <2>3
<1> QED
  BY <1>1, Invariant, PTL DEF Spec

\* The types of the state of Run(), of its files and of the haproxy processes.
THEOREM TypeCorrect == Spec => []TypeOK
<1>1. HaproxyInv => TypeOK
  BY DEF HaproxyInv
<1> QED
  BY <1>1, Invariant, PTL DEF Spec

=============================================================================
