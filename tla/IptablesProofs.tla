--------------------------- MODULE IptablesProofs ---------------------------
(* Theorems about Iptables, for any goroutines, chains, rules, versions    *)
(* and bounds.                                                             *)
EXTENDS Iptables, TLAPS

-----------------------------------------------------------------------------
(* Facts about the constants, the calls and the locks. *)

\* What the proofs need of the constants.
LEMMA ConstantFacts ==
    /\ Builtin \subseteq Chains /\ "ACCEPT" \in Policies
    /\ RestoreData \subseteq UNION {[C -> SUBSET Rules] : C \in SUBSET Chains}
    /\ Other \notin Callers /\ None \notin Callers /\ None # Other
    /\ MaxCalls \in Nat /\ MaxUpsets \in Nat
BY RunnerAssumption

\* The names of the methods of Interface.
Ops == {"EnsureChain", "FlushChain", "DeleteChain", "ListRule", "EnsureRule", "DeleteRule",
        "EnsurePolicy", "SaveInto", "Restore"}

\* The arguments that each method has.
LEMMA CallArguments ==
    ASSUME NEW k \in Calls
    PROVE  /\ k.op \in Ops
           /\ k.op \in {"EnsureChain", "FlushChain", "DeleteChain", "ListRule"} => k.chain \in Chains
           /\ k.op \in {"EnsureRule", "DeleteRule"} => k.chain \in Chains /\ k.rule \in Rules
           /\ k.op = "EnsurePolicy" => k.chain \in Builtin /\ k.policy \in Policies
           /\ k.op = "Restore" => k.data \in RestoreData
BY DEF Calls, Ops

\* There are three kinds of lock.
LEMMA LockKinds == \A v : LockKind(v) \in {"none", "lock14", "lock16"}
BY DEF LockKind

-----------------------------------------------------------------------------
(* What the programs make of a table. *)

\* Applied and Restored turn tables into tables.
LEMMA AppliedTable ==
    ASSUME NEW t, IsTable(t), NEW k \in Calls
    PROVE  IsTable(Applied(k, t))
<1> USE CallArguments, ConstantFacts
<1>1. \A c \in Chains : IsTable(WithChain(t, c, NoRules))
  BY DEF IsTable, WithChain, NoRules
<1>2. \A c : IsTable(WithoutChain(t, c))
  BY DEF IsTable, WithoutChain
<1>3. ASSUME k.op \in {"EnsureRule", "DeleteRule"}, Exists(t, k.chain), NEW n \in Nat
      PROVE  IsTable([t EXCEPT !.chains[k.chain][k.rule] = n])
  <2> DEFINE rules  == [t.chains[k.chain] EXCEPT ![k.rule] = n]
             chains == [t.chains EXCEPT ![k.chain] = rules]
  <2>1. rules \in [Rules -> Nat]
    BY <1>3 DEF IsTable, Exists
  <2>2. chains \in [DOMAIN t.chains -> [Rules -> Nat]]
    BY <1>3, <2>1 DEF IsTable, Exists
  <2>3. [t EXCEPT !.chains = chains] = [chains |-> chains, policy |-> t.policy]
    BY DEF IsTable
  <2>4. IsTable([t EXCEPT !.chains = chains])
    <3> HIDE DEF chains
    <3> QED
      BY <2>2, <2>3 DEF IsTable
  <2> QED
    BY <2>4
<1>4. ASSUME k.op = "EnsurePolicy"
      PROVE  IsTable([t EXCEPT !.policy[k.chain] = k.policy])
  BY <1>4 DEF IsTable
<1>5. CASE k.op = "EnsureRule" /\ Exists(t, k.chain)
  <2>1. t.chains[k.chain][k.rule] + 1 \in Nat
    BY <1>5 DEF IsTable, Exists
  <2> QED
    BY <1>5, <1>3, <2>1 DEF Applied
<1>6. CASE k.op = "DeleteRule" /\ Exists(t, k.chain) /\ t.chains[k.chain][k.rule] > 0
  <2>1. t.chains[k.chain][k.rule] - 1 \in Nat
    BY <1>6 DEF IsTable, Exists
  <2> QED
    BY <1>6, <1>3, <2>1 DEF Applied
<1> QED
  BY <1>1, <1>2, <1>4, <1>5, <1>6 DEF Applied, Ops

\* A restored chain has what the input says, or what it had.
LEMMA RestoredTable ==
    ASSUME NEW t, IsTable(t), NEW k \in Calls, k.op = "Restore"
    PROVE  /\ IsTable(Restored(k, t))
           /\ \A c \in DOMAIN Restored(k, t).chains, r \in Rules :
                Restored(k, t).chains[c][r] \in {0, 1}
                \/ (c \in DOMAIN t.chains /\ Restored(k, t).chains[c][r] = t.chains[c][r])
<1>1. PICK C \in SUBSET Chains : k.data \in [C -> SUBSET Rules]
  BY CallArguments, ConstantFacts
<1> DEFINE kept == IF k.flush THEN Builtin ELSE DOMAIN t.chains
           Rule(c, r) == IF c \in DOMAIN k.data THEN IF r \in k.data[c] THEN 1 ELSE 0
                         ELSE IF k.flush THEN 0 ELSE t.chains[c][r]
           chains == [c \in kept \cup DOMAIN k.data |-> [r \in Rules |-> Rule(c, r)]]
<1>2. Restored(k, t) = [t EXCEPT !.chains = chains]
  BY DEF Restored
<1>3. kept \cup DOMAIN k.data \subseteq Chains
  BY <1>1, ConstantFacts DEF IsTable
<1>4. ASSUME NEW c \in kept \cup DOMAIN k.data, NEW r \in Rules
      PROVE  /\ Rule(c, r) \in Nat
             /\ Rule(c, r) \in {0, 1} \/ (c \in DOMAIN t.chains /\ Rule(c, r) = t.chains[c][r])
  <2>1. \A x \in DOMAIN t.chains : t.chains[x][r] \in Nat
    BY DEF IsTable
  <2>2. CASE c \in DOMAIN k.data \/ k.flush
    BY <2>2
  <2>3. CASE ~(c \in DOMAIN k.data \/ k.flush)
    BY <2>1, <2>3
  <2> QED
    BY <2>2, <2>3
<1>5. chains \in [kept \cup DOMAIN k.data -> [Rules -> Nat]]
  BY <1>4
<1> HIDE DEF chains
<1>6. Restored(k, t) = [chains |-> chains, policy |-> t.policy]
  BY <1>2 DEF IsTable
<1>7. IsTable(Restored(k, t))
  BY <1>3, <1>5, <1>6 DEF IsTable
<1>8. DOMAIN chains = kept \cup DOMAIN k.data
      /\ \A c \in kept \cup DOMAIN k.data, r \in Rules : chains[c][r] = Rule(c, r)
  BY DEF chains
<1> QED
  BY <1>4, <1>6, <1>7, <1>8

-----------------------------------------------------------------------------
(* The inductive invariant. *)

\* p holds the lock that the installed programs use.
Held(p) ==
    /\ LockKind(installed) = "lock14" => lock14 = p
    /\ LockKind(installed) = "lock16" => lock16 = p

\* Where a goroutine can be in which call.
Control ==
    \A t \in Callers :
        /\ pc[t] # "idle" => call[t] \in Calls
        /\ pc[t] = "lock" => call[t].op # "EnsurePolicy"
        /\ pc[t] = "check" => call[t].op \in {"EnsureRule", "DeleteRule"}
        /\ pc[t] = "run" => call[t].op # "Restore"
        /\ pc[t] \in {"open16", "poll16", "poll14", "restore", "commit", "close"} => call[t].op = "Restore"

\* Which xtables locks it holds there.  An iptables-restore that is told to wait
\* is one that locks.
LockPlaces ==
    /\ restoreWaitFlag => RestoreLocks(installed)
    /\ \A t \in Callers :
        /\ t \in {lock16, lock14} => pc[t] \in {"poll14", "restore", "commit", "close"}
        /\ pc[t] = "poll14" => lock16 = t
        /\ pc[t] = "restore" /\ ~restoreWaitFlag => lock16 = t /\ lock14 = t
        /\ pc[t] = "commit" => Held(t)

\* A table that was read is kept only while its reader holds the lock.
Snaps ==
    /\ \A t \in Callers : /\ snap[t] # None => pc[t] = "commit"
                          /\ pc[t] = "commit" => IsTable(snap[t])
    /\ snap[Other] # None => other = "editing"
    /\ other = "editing" => Held(Other) /\ IsTable(snap[Other])

\* Under the lock, what was read is still the table.
Fresh ==
    Locking => /\ \A t \in Callers : pc[t] = "commit" => snap[t] = table
               /\ other = "editing" => snap[Other] = table

\* The rule that EnsureRule is about to insert is still missing.
Checked ==
    Locking => \A t \in Callers :
        pc[t] = "run" /\ call[t].op = "EnsureRule" /\ Exists(table, call[t].chain)
            => table.chains[call[t].chain][call[t].rule] = 0

RunnerInv ==
    TypeOK /\ Control /\ LockPlaces /\ Snaps /\ Fresh /\ Checked /\ RuleOnce

\* The steps that change the table, and all others.
Writes(t) == run(t) \/ restoreCommits(t)

Quiet(t) ==
    \/ LockMutex(t) \/ checkRule(t) \/ runFails(t) \/ openFile(t) \/ grabIptablesFileLock(t)
    \/ listenUnix(t) \/ pollTimesOut(t) \/ restoreReads(t) \/ restoreFails(t) \/ closeLocks(t)
    \/ \E k \in Calls : Call(t, k)

\* A failure counts towards the bound.
LEMMA UpsetsBounded ==
    ASSUME TypeOK, Upset \/ UNCHANGED upsets
    PROVE  upsets' \in 0..MaxUpsets
BY ConstantFacts DEF TypeOK, Upset

\* A new runner satisfies the invariant.
LEMMA InitInv == Init => RunnerInv
<1> SUFFICES ASSUME Init PROVE RunnerInv
  OBVIOUS
<1> USE ConstantFacts
<1>1. IsTable(Empty) /\ \A c \in DOMAIN Empty.chains, r \in Rules : Empty.chains[c][r] = 0
  BY DEF IsTable, Empty, NoRules
<1>2. calls \in 0..MaxCalls /\ upsets \in 0..MaxUpsets
  BY DEF Init
<1>3. hasCheck \in BOOLEAN /\ restoreWaitFlag \in BOOLEAN /\ waitFlag \in {"none", "-w", "-w5"}
  BY DEF Init, getIPTablesHasCheckCommand, getIPTablesWaitFlag, getIPTablesRestoreWaitFlag, RestoreLocks, AtLeast
<1>4. TypeOK
  BY <1>1, <1>2, <1>3 DEF Init, TypeOK, Steps, Inside
<1>5. restoreWaitFlag => RestoreLocks(installed)
  BY DEF Init, getIPTablesRestoreWaitFlag
<1> QED
  BY <1>1, <1>4, <1>5 DEF Init, RunnerInv, Control, LockPlaces, Snaps, Fresh, Checked, RuleOnce

\* A step that does not write the table keeps types, the mutex and the order of steps.
LEMMA QuietTypes ==
    ASSUME RunnerInv, NEW t \in Callers, Quiet(t)
    PROVE  TypeOK' /\ Control'
<1> USE ConstantFacts, CallArguments DEF RunnerInv, flags, locks, counts, Steps, Inside
<1>1. CASE LockMutex(t)
  BY <1>1, UpsetsBounded DEF LockMutex, MutexFree, Goto, TypeOK, Control
<1>2. CASE checkRule(t)
  BY <1>2, UpsetsBounded DEF checkRule, Return, Goto, TypeOK, Control
<1>3. CASE runFails(t)
  BY <1>3, UpsetsBounded DEF runFails, Return, Goto, Upset, TypeOK, Control
<1>4. CASE openFile(t)
  BY <1>4, UpsetsBounded DEF openFile, Return, Goto, Upset, TypeOK, Control
<1>5. CASE grabIptablesFileLock(t)
  BY <1>5, UpsetsBounded DEF grabIptablesFileLock, AfterFileLock, Goto, TypeOK, Control
<1>6. CASE listenUnix(t)
  BY <1>6, UpsetsBounded DEF listenUnix, Goto, TypeOK, Control
<1>7. CASE pollTimesOut(t)
  BY <1>7, UpsetsBounded DEF pollTimesOut, Return, Goto, Close, TypeOK, Control
<1>8. CASE restoreReads(t)
  BY <1>8, UpsetsBounded DEF restoreReads, TakeLock, Goto, TypeOK, Control
<1>9. CASE restoreFails(t)
  BY <1>9, UpsetsBounded DEF restoreFails, Goto, Upset, TypeOK, Control
<1>10. CASE closeLocks(t)
  BY <1>10, UpsetsBounded DEF closeLocks, Close, Return, Goto, TypeOK, Control
<1>11. ASSUME NEW k \in Calls, Call(t, k)
      PROVE  TypeOK' /\ Control'
  <2>1. calls' \in 0..MaxCalls
    BY <1>11 DEF Call, TypeOK
  <2> QED
    BY <1>11, <2>1 DEF Call, Enter, FirstStep, TypeOK, Control
<1> QED
  BY <1>1, <1>2, <1>3, <1>4, <1>5, <1>6, <1>7, <1>8, <1>9, <1>10, <1>11 DEF Quiet

\* Nor does it lose or keep a lock it should not.
LEMMA QuietLocks ==
    ASSUME RunnerInv, NEW t \in Callers, Quiet(t)
    PROVE  LockPlaces' /\ Snaps'
<1> USE ConstantFacts, LockKinds DEF RunnerInv, flags, locks, counts, Steps, Held
<1>1. CASE LockMutex(t)
  BY <1>1 DEF LockMutex, MutexFree, Goto, TypeOK, Control, LockPlaces, Snaps
<1>2. CASE checkRule(t)
  BY <1>2 DEF checkRule, Return, Goto, TypeOK, Control, LockPlaces, Snaps
<1>3. CASE runFails(t)
  BY <1>3 DEF runFails, Return, Goto, Upset, TypeOK, Control, LockPlaces, Snaps
<1>4. CASE openFile(t)
  BY <1>4 DEF openFile, Return, Goto, Upset, TypeOK, Control, LockPlaces, Snaps
<1>5. CASE grabIptablesFileLock(t)
  BY <1>5 DEF grabIptablesFileLock, AfterFileLock, Goto, TypeOK, Control, LockPlaces, Snaps
<1>6. CASE listenUnix(t)
  BY <1>6 DEF listenUnix, Goto, TypeOK, Control, LockPlaces, Snaps
<1>7. CASE pollTimesOut(t)
  BY <1>7 DEF pollTimesOut, Return, Goto, Close, TypeOK, Control, LockPlaces, Snaps
<1>8. CASE restoreReads(t)
  BY <1>8 DEF restoreReads, TakeLock, Goto, Locked, TypeOK, Control, LockPlaces, Snaps
<1>9. CASE restoreFails(t)
  BY <1>9 DEF restoreFails, Goto, Upset, TypeOK, Control, LockPlaces, Snaps
<1>10. CASE closeLocks(t)
  BY <1>10 DEF closeLocks, Close, Return, Goto, TypeOK, Control, LockPlaces, Snaps
<1>11. ASSUME NEW k \in Calls, Call(t, k)
      PROVE  LockPlaces' /\ Snaps'
  BY <1>11 DEF Call, Enter, FirstStep, TypeOK, Control, LockPlaces, Snaps
<1> QED
  BY <1>1, <1>2, <1>3, <1>4, <1>5, <1>6, <1>7, <1>8, <1>9, <1>10, <1>11 DEF Quiet

\* Nor does it disturb what was read or checked.
LEMMA QuietRules ==
    ASSUME RunnerInv, NEW t \in Callers, Quiet(t)
    PROVE  Fresh' /\ Checked' /\ RuleOnce'
<1> USE ConstantFacts DEF RunnerInv, flags, locks, counts, Steps
<1>1. UNCHANGED <<table, installed>>
  BY DEF Quiet, LockMutex, checkRule, runFails, openFile, grabIptablesFileLock, listenUnix, pollTimesOut, restoreReads, restoreFails, closeLocks, Call
<1>2. RuleOnce'
  BY <1>1 DEF RuleOnce, Locking
<1>3. Fresh'
  <2>1. /\ \A s \in Callers : pc'[s] = "commit" => snap'[s] = table \/ (pc[s] = "commit" /\ snap'[s] = snap[s])
        /\ other' = other /\ snap'[Other] = snap[Other]
    BY DEF Quiet, LockMutex, checkRule, runFails, openFile, grabIptablesFileLock, listenUnix, pollTimesOut,
           restoreReads, restoreFails, closeLocks, Call, Enter, FirstStep, Goto, Return, AfterFileLock, TypeOK
  <2> QED
    BY <1>1, <2>1 DEF Fresh, Locking
<1>4. Checked'
  <2>1. CASE checkRule(t)
    <3> SUFFICES ASSUME Locking, NEW s \in Callers, pc'[s] = "run", call'[s].op = "EnsureRule",
                        Exists(table, call'[s].chain)
                 PROVE  table.chains[call'[s].chain][call'[s].rule] = 0
      BY <1>1 DEF Checked, Locking, Exists
    <3>1. CASE s # t
      <4>1. pc'[s] = pc[s] /\ call'[s] = call[s]
        BY <2>1, <3>1 DEF checkRule, Return, Goto, TypeOK
      <4> QED
        BY <4>1 DEF Checked
    <3>2. CASE s = t
      <4>1. call'[t] = call[t] /\ call[t] \in Calls /\ ~Found(call[t])
        BY <2>1, <3>2 DEF checkRule, Return, Goto, TypeOK, Control, Found
      <4>2. table.chains[call[t].chain][call[t].rule] \in Nat
        BY <3>2, <4>1, CallArguments DEF TypeOK, IsTable, Exists
      <4> QED
        BY <3>2, <4>1, <4>2 DEF Found, Exists
    <3> QED
      BY <3>1, <3>2
  <2>2. CASE ~checkRule(t)
    <3>1. \A s \in Callers : pc'[s] = "run" /\ call'[s].op = "EnsureRule" => pc[s] = "run" /\ call'[s] = call[s]
      BY <2>2 DEF Quiet, LockMutex, MutexFree, Goto, checkRule, Return, runFails, Upset, openFile, grabIptablesFileLock, AfterFileLock, listenUnix, pollTimesOut, Close, restoreReads, TakeLock, Locked, restoreFails, closeLocks, Call, Enter, FirstStep, TypeOK, Control
    <3> QED
      BY <1>1, <3>1 DEF Checked, Locking, Exists
  <2> QED
    BY <2>1, <2>2
<1> QED
  BY <1>2, <1>3, <1>4

\* No rule of the table is there twice.
OnceIn(t) == \A c \in DOMAIN t.chains, r \in Rules : t.chains[c][r] <= 1

\* EnsureRule inserts what is missing, the other calls insert nothing.
LEMMA AppliedOnce ==
    ASSUME NEW t, IsTable(t), OnceIn(t), NEW k \in Calls,
           k.op = "EnsureRule" /\ Exists(t, k.chain) => t.chains[k.chain][k.rule] = 0
    PROVE  OnceIn(Applied(k, t))
<1> USE CallArguments, ConstantFacts
<1>1. \A c \in DOMAIN t.chains, r \in Rules : t.chains[c][r] \in Nat
  BY DEF IsTable
<1>2. \A c \in Chains : OnceIn(WithChain(t, c, NoRules))
  BY DEF IsTable, WithChain, NoRules, OnceIn
<1>3. \A c : OnceIn(WithoutChain(t, c))
  BY DEF IsTable, WithoutChain, OnceIn
<1>4. CASE k.op = "EnsureRule" /\ Exists(t, k.chain)
  <2>1. t.chains[k.chain][k.rule] + 1 = 1
    BY <1>4, <1>1
  <2>2. Applied(k, t) = [t EXCEPT !.chains[k.chain][k.rule] = 1]
    BY <1>4, <2>1 DEF Applied
  <2> QED
    BY <1>4, <2>2 DEF OnceIn, IsTable, Exists
<1>5. CASE k.op = "DeleteRule" /\ Exists(t, k.chain) /\ t.chains[k.chain][k.rule] > 0
  <2>1. t.chains[k.chain][k.rule] - 1 <= 1
    BY <1>5, <1>1 DEF OnceIn, Exists
  <2>2. Applied(k, t) = [t EXCEPT !.chains[k.chain][k.rule] = @ - 1]
    BY <1>5 DEF Applied
  <2> QED
    BY <1>5, <2>1, <2>2 DEF OnceIn, IsTable, Exists
<1>6. CASE k.op = "EnsurePolicy"
  BY <1>6 DEF Applied, OnceIn, IsTable
<1> QED
  BY <1>2, <1>3, <1>4, <1>5, <1>6 DEF Applied, Ops

\* Without a lock holder nothing that was read is waiting to be written.
LEMMA UnlockedMeansNoSnap ==
    ASSUME RunnerInv, Locking, ~Locked
    PROVE  other = "idle" /\ \A t \in Callers : pc[t] # "commit"
BY ConstantFacts, LockKinds DEF RunnerInv, TypeOK, LockPlaces, Snaps, Held, Locking, Locked

\* Only one goroutine is between the check of EnsureRule and its insertion,
\* and the only call that may run meanwhile is EnsurePolicy.
LEMMA MutexExcludes ==
    ASSUME RunnerInv, NEW t \in Callers, NEW s \in Callers, s # t,
           pc[s] = "run", call[s].op = "EnsureRule", pc[t] \notin {"idle", "lock"}
    PROVE  call[t].op = "EnsurePolicy"
BY DEF RunnerInv, TypeOK, Inside

\* A program that runs for a call keeps the invariant.
LEMMA RunInv ==
    ASSUME RunnerInv, NEW t \in Callers, run(t)
    PROVE  RunnerInv'
<1> USE ConstantFacts DEF flags, locks, counts
<1>1. call[t] \in Calls /\ call[t].op # "Restore" /\ IsTable(table) /\ pc[t] = "run"
  BY DEF RunnerInv, run, Control, TypeOK
<1>2. IsTable(table)'
  BY <1>1, AppliedTable DEF run
<1>3. TypeOK'
  BY <1>1, <1>2 DEF RunnerInv, TypeOK, run, Return, Goto, Steps, Inside
<1>4. Control' /\ LockPlaces' /\ Snaps'
  BY DEF RunnerInv, TypeOK, Control, LockPlaces, Snaps, Held, run, Return, Goto
<1>5. Fresh'
  <2>1. CASE call[t].op = "SaveInto"
    <3>1. table' = table
      BY <2>1 DEF run, Applied
    <3> QED
      BY <3>1 DEF RunnerInv, TypeOK, Fresh, Locking, run, Return, Goto
  <2>2. CASE call[t].op # "SaveInto"
    <3>1. Locking => other = "idle" /\ \A s \in Callers : pc[s] # "commit"
      BY <2>2, UnlockedMeansNoSnap DEF run, CanRun
    <3> QED
      BY <3>1 DEF RunnerInv, TypeOK, Fresh, Locking, run, Return, Goto
  <2> QED
    BY <2>1, <2>2
<1>6. Checked'
  <2> SUFFICES ASSUME Locking, NEW s \in Callers, pc'[s] = "run", call'[s].op = "EnsureRule",
                      Exists(table', call'[s].chain)
               PROVE  table'.chains[call'[s].chain][call'[s].rule] = 0
    BY DEF Checked, Locking, run
  <2>1. s # t /\ pc[s] = "run" /\ call'[s] = call[s]
    BY DEF RunnerInv, TypeOK, run, Return, Goto
  <2>2. call[t].op = "EnsurePolicy"
    BY <1>1, <2>1, MutexExcludes
  <2>3. table'.chains = table.chains
    BY <1>1, <2>2 DEF run, Applied, IsTable
  <2> QED
    BY <2>1, <2>3 DEF RunnerInv, Checked, Exists
<1>7. RuleOnce'
  <2> SUFFICES ASSUME Locking PROVE OnceIn(table')
    BY DEF RuleOnce, OnceIn, Locking, run
  <2>1. OnceIn(table)
    BY DEF RunnerInv, RuleOnce, OnceIn
  <2>2. call[t].op = "EnsureRule" /\ Exists(table, call[t].chain)
           => table.chains[call[t].chain][call[t].rule] = 0
    BY <1>1 DEF RunnerInv, Checked
  <2> QED
    BY <1>1, <2>1, <2>2, AppliedOnce DEF run
<1> QED
  BY <1>3, <1>4, <1>5, <1>6, <1>7 DEF RunnerInv

\* Who holds the lock keeps every other reader out.
LEMMA HolderIsAlone ==
    ASSUME RunnerInv, Locking
    PROVE  /\ \A t, s \in Callers : pc[t] = "commit" /\ pc[s] = "commit" => s = t
           /\ \A t \in Callers : pc[t] = "commit" => other = "idle"
BY ConstantFacts, LockKinds DEF RunnerInv, TypeOK, LockPlaces, Snaps, Held, Locking

\* iptables-restore replaces the table that it read under the lock.
LEMMA RestoreCommitsInv ==
    ASSUME RunnerInv, NEW t \in Callers, restoreCommits(t)
    PROVE  RunnerInv'
<1> USE ConstantFacts DEF flags, locks, counts
<1>1. call[t] \in Calls /\ call[t].op = "Restore" /\ IsTable(snap[t]) /\ pc[t] = "commit"
  BY DEF RunnerInv, restoreCommits, Control, Snaps
<1>2. IsTable(table)'
  BY <1>1, RestoredTable DEF restoreCommits
<1>3. TypeOK'
  BY <1>1, <1>2 DEF RunnerInv, TypeOK, restoreCommits, Goto, Steps, Inside
<1>4. Control' /\ LockPlaces' /\ Snaps'
  BY <1>1 DEF RunnerInv, TypeOK, Control, LockPlaces, Snaps, Held, restoreCommits, Goto
<1>5. Fresh'
  BY <1>1, HolderIsAlone DEF RunnerInv, TypeOK, Fresh, Locking, restoreCommits, Goto
<1>6. Checked'
  <2>1. \A s \in Callers : ~(pc'[s] = "run" /\ call'[s].op = "EnsureRule")
    BY <1>1, MutexExcludes DEF RunnerInv, TypeOK, restoreCommits, Goto
  <2> QED
    BY <2>1 DEF Checked
<1>7. RuleOnce'
  <2> SUFFICES ASSUME Locking PROVE OnceIn(table')
    BY DEF RuleOnce, OnceIn, Locking, restoreCommits
  <2>1. OnceIn(snap[t])
    BY <1>1 DEF RunnerInv, RuleOnce, OnceIn, Fresh
  <2> QED
    BY <1>1, <2>1, RestoredTable DEF OnceIn, restoreCommits
<1> QED
  BY <1>3, <1>4, <1>5, <1>6, <1>7 DEF RunnerInv

\* Another program that reads the table takes the lock.
LEMMA OtherReadsInv ==
    ASSUME RunnerInv, OtherReads
    PROVE  RunnerInv'
<1> USE ConstantFacts DEF flags, locks, counts
<1>1. TypeOK'
  BY UpsetsBounded DEF RunnerInv, TypeOK, OtherReads, TakeLock, Upset, Inside
<1>2. Control' /\ Checked' /\ RuleOnce'
  BY DEF RunnerInv, Control, Checked, RuleOnce, Locking, OtherReads
<1>3. LockPlaces' /\ Snaps'
  BY LockKinds, UnlockedMeansNoSnap
     DEF RunnerInv, TypeOK, LockPlaces, Snaps, Held, Locking, Locked, OtherReads, TakeLock
<1>4. Fresh'
  BY DEF RunnerInv, TypeOK, Fresh, Locking, OtherReads
<1> QED
  BY <1>1, <1>2, <1>3, <1>4 DEF RunnerInv

\* And writes it back with its own change, which is not about rules.
LEMMA OtherWritesInv ==
    ASSUME RunnerInv, OtherWrites
    PROVE  RunnerInv'
<1> USE ConstantFacts DEF flags, locks, counts
<1>1. IsTable(snap[Other]) /\ other = "editing" /\ Held(Other)
  BY DEF RunnerInv, Snaps, OtherWrites
<1>2. /\ IsTable(table')
      /\ \A c \in DOMAIN table'.chains :
            \/ c \in DOMAIN snap[Other].chains /\ table'.chains[c] = snap[Other].chains[c]
            \/ table'.chains[c] = NoRules
  <2>1. CASE \E c \in Builtin, p \in Policies : table' = [snap[Other] EXCEPT !.policy[c] = p]
    BY <1>1, <2>1 DEF IsTable
  <2>2. CASE \E c \in Chains \ DOMAIN snap[Other].chains : table' = WithChain(snap[Other], c, NoRules)
    BY <1>1, <2>2 DEF IsTable, WithChain, NoRules
  <2> QED
    BY <2>1, <2>2 DEF OtherWrites
<1>3. TypeOK'
  BY <1>2 DEF RunnerInv, TypeOK, OtherWrites, Close, Inside
<1>4. Control' /\ LockPlaces' /\ Snaps'
  BY DEF RunnerInv, TypeOK, Control, LockPlaces, Snaps, Held, OtherWrites, Close
<1>5. Fresh'
  BY <1>1, HolderIsAlone DEF RunnerInv, TypeOK, Fresh, Locking, OtherWrites
<1>6. Checked' /\ RuleOnce'
  <2> SUFFICES ASSUME Locking PROVE Checked' /\ RuleOnce'
    BY DEF Checked, RuleOnce, Locking, OtherWrites
  <2>1. snap[Other] = table
    BY <1>1 DEF RunnerInv, Fresh
  <2>2. RuleOnce'
    BY <1>2, <2>1 DEF RunnerInv, RuleOnce, NoRules
  <2>3. Checked'
    <3> SUFFICES ASSUME NEW s \in Callers, pc[s] = "run", call[s].op = "EnsureRule",
                        Exists(table', call[s].chain)
                 PROVE  table'.chains[call[s].chain][call[s].rule] = 0
      BY DEF Checked, OtherWrites
    <3>1. call[s].rule \in Rules
      BY CallArguments DEF RunnerInv, Control
    <3> QED
      BY <1>2, <2>1, <3>1 DEF RunnerInv, Checked, Exists, NoRules
  <2> QED
    BY <2>2, <2>3
<1> QED
  BY <1>3, <1>4, <1>5, <1>6 DEF RunnerInv

\* Every step keeps the invariant.
LEMMA NextInv == RunnerInv /\ [Next]_vars => RunnerInv'
<1> SUFFICES ASSUME RunnerInv, [Next]_vars PROVE RunnerInv'
  OBVIOUS
<1>1. ASSUME NEW t \in Callers, Quiet(t) PROVE RunnerInv'
  BY <1>1, QuietTypes, QuietLocks, QuietRules DEF RunnerInv
<1>2. ASSUME NEW t \in Callers, Writes(t) PROVE RunnerInv'
  BY <1>2, RunInv, RestoreCommitsInv DEF Writes
<1>3. CASE UNCHANGED vars
  BY <1>3 DEF vars, flags, locks, counts, RunnerInv, TypeOK, Inside, Control, LockPlaces, Snaps, Held,
              Fresh, Locking, Checked, RuleOnce
<1>4. Next => OtherReads \/ OtherWrites \/ \E t \in Callers : Quiet(t) \/ Writes(t)
  BY DEF Next, Proceed, restoreInternal, Quiet, Writes
<1> QED
  BY <1>1, <1>2, <1>3, <1>4, OtherReadsInv, OtherWritesInv

\* The invariant holds in every reachable state.
LEMMA AlwaysRunnerInv == Spec => []RunnerInv
BY InitInv, NextInv, PTL DEF Spec

-----------------------------------------------------------------------------
(* The theorems. *)

\* The types of the runner's state, and runner.mu is held exactly by the goroutine
\* between its Lock and its deferred Unlock, on every way out.
THEOREM TypeCorrect == Spec => []TypeOK
<1>1. RunnerInv => TypeOK
  BY DEF RunnerInv
<1> QED
  BY AlwaysRunnerInv, <1>1, PTL

\* EnsureRule never puts a rule into a chain a second time, for any number of
\* goroutines, failures and other programs, with any iptables that has a lock.
THEOREM RulesAreUnique == Spec => []RuleOnce
<1>1. RunnerInv => RuleOnce
  BY DEF RunnerInv
<1> QED
  BY AlwaysRunnerInv, <1>1, PTL

\* What iptables-restore or another locking program has read is still the
\* table when it is written back: grabIptablesLocks keeps lost updates out.
THEOREM NoLostUpdate == Spec => []SnapshotsStayFresh
<1>1. RunnerInv => SnapshotsStayFresh
  BY DEF RunnerInv, SnapshotsStayFresh, Fresh, Snaps
<1> QED
  BY AlwaysRunnerInv, <1>1, PTL

\* A goroutine holds an xtables lock only inside Restore and under runner.mu:
\* every failure and timeout gives the locks back.
THEOREM NoLockLeaks == Spec => []LocksAreReturned
<1>1. RunnerInv => LocksAreReturned
  BY DEF RunnerInv, LocksAreReturned, LockPlaces, Control, TypeOK, Inside
<1> QED
  BY AlwaysRunnerInv, <1>1, PTL

=============================================================================
