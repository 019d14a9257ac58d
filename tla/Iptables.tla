------------------------------ MODULE Iptables ------------------------------
(* The runner of utils/iptables: its callers share one mutex, every call   *)
(* runs one or more iptables programs, Restore holds the two xtables locks *)
(* around iptables-restore.  The kernel table, the iptables programs and   *)
(* another program that edits the same table are external.                 *)
EXTENDS Integers, Sequences, FiniteSets, FiniteSetsExt

CONSTANTS Callers,       \* goroutines that use the runner
          Other,         \* another program that edits the table
          None,
          Chains, Builtin, Rules, Policies,
          Extends,       \* pairs of chains: the second's name begins with the first's
          RestoreData,   \* what Restore is given: chains and their rules
          Versions,      \* iptables versions that may be installed
          MaxCalls,      \* bounds: calls of the callers
          MaxUpsets      \* and failures and edits by others

ASSUME RunnerAssumption ==
    /\ Builtin \subseteq Chains /\ "ACCEPT" \in Policies
    /\ Extends \subseteq Chains \X Chains
    /\ RestoreData \subseteq UNION {[C -> SUBSET Rules] : C \in SUBSET Chains}
    /\ Versions \subseteq Seq(Nat)
    /\ Other \notin Callers /\ None \notin Callers \cup {Other}
    /\ {MaxCalls, MaxUpsets} \subseteq Nat

VARIABLES
    table,        \* the kernel's table: rules of each existing chain, policies
    installed,    \* version of the iptables programs
    hasCheck, waitFlag, restoreWaitFlag,   \* what newInternal found out
    mu,           \* runner.mu: its holder or None
    lock16, lock14,   \* /run/xtables.lock and @xtables: holder or None
    pc, call,     \* of each goroutine: where it is and in which call
    snap,         \* the table that a restore or the other program read and will write back
    other,        \* the other program: "idle" or "editing"
    calls, upsets \* how much of the bounds is used up

flags   == <<installed, hasCheck, waitFlag, restoreWaitFlag>>
locks   == <<lock16, lock14>>
counts  == <<calls, upsets>>
vars    == <<table, flags, mu, locks, pc, call, snap, other, counts>>

-----------------------------------------------------------------------------
(* Versions, as sequences of numbers.                                      *)

onlyZeros(s) == \A i \in DOMAIN s : s[i] = 0

compareInternal(v, o) ==
    LET differ == {i \in DOMAIN v \cap DOMAIN o : v[i] # o[i]}
        first  == Min(differ)
    IN  IF differ # {} THEN IF v[first] > o[first] THEN 1 ELSE -1
        ELSE IF ~onlyZeros(SubSeq(v, Len(o) + 1, Len(v))) THEN 1
        ELSE IF ~onlyZeros(SubSeq(o, Len(v) + 1, Len(o))) THEN -1
        ELSE 0

AtLeast(v, o)  == compareInternal(v, o) # -1
LessThan(v, o) == compareInternal(v, o) = -1

MinCheckVersion       == <<1, 4, 11>>
WaitMinVersion        == <<1, 4, 20>>
WaitSecondsMinVersion == <<1, 4, 22>>

getIPTablesHasCheckCommand(v) == AtLeast(v, MinCheckVersion)

getIPTablesWaitFlag(v) ==
    IF LessThan(v, WaitMinVersion) THEN "none"
    ELSE IF LessThan(v, WaitSecondsMinVersion) THEN "-w" ELSE "-w5"

\* External: since 1.6.2 iptables-restore takes the xtables lock by itself; it
\* knows --version and --wait from then on.
RestoreLocks(v) == AtLeast(v, <<1, 6, 2>>)

getIPTablesRestoreWaitFlag(v, answers) == RestoreLocks(v) /\ answers

-----------------------------------------------------------------------------
(* The kernel table and what each program does to it.                      *)

NoRules == [r \in Rules |-> 0]
Empty   == [chains |-> [c \in Builtin |-> NoRules], policy |-> [c \in Builtin |-> "ACCEPT"]]

Exists(t, c) == c \in DOMAIN t.chains

WithChain(t, c, rules) == [t EXCEPT !.chains = [x \in DOMAIN t.chains \cup {c} |->
                                                  IF x = c THEN rules ELSE t.chains[x]]]

WithoutChain(t, c) == [t EXCEPT !.chains = [x \in DOMAIN t.chains \ {c} |-> t.chains[x]]]

\* The table after iptables has run for call k: unchanged when it refuses.
Applied(k, t) ==
    CASE k.op = "EnsureChain" /\ ~Exists(t, k.chain) -> WithChain(t, k.chain, NoRules)
      [] k.op = "FlushChain" /\ Exists(t, k.chain)   -> WithChain(t, k.chain, NoRules)
      [] k.op = "DeleteChain" /\ k.chain \notin Builtin /\ Exists(t, k.chain)
         /\ t.chains[k.chain] = NoRules              -> WithoutChain(t, k.chain)
      [] k.op = "EnsureRule" /\ Exists(t, k.chain)   -> [t EXCEPT !.chains[k.chain][k.rule] = @ + 1]
      [] k.op = "DeleteRule" /\ Exists(t, k.chain)
         /\ t.chains[k.chain][k.rule] > 0            -> [t EXCEPT !.chains[k.chain][k.rule] = @ - 1]
      [] k.op = "EnsurePolicy"                       -> [t EXCEPT !.policy[k.chain] = k.policy]
      [] OTHER                                       -> t

\* iptables-restore replaces the chains it is given and, without --noflush,
\* empties the others.
Restored(k, t) ==
    LET kept == IF k.flush THEN Builtin ELSE DOMAIN t.chains
        Rule(c, r) == IF c \in DOMAIN k.data THEN IF r \in k.data[c] THEN 1 ELSE 0
                      ELSE IF k.flush THEN 0 ELSE t.chains[c][r]
    IN  [t EXCEPT !.chains = [c \in kept \cup DOMAIN k.data |-> [r \in Rules |-> Rule(c, r)]]]

Calls ==
    [op : {"EnsureChain", "FlushChain", "DeleteChain", "ListRule"}, chain : Chains]
    \cup [op : {"EnsureRule", "DeleteRule"}, chain : Chains, rule : Rules]
    \cup [op : {"EnsurePolicy"}, chain : Builtin, policy : Policies]
    \cup [op : {"SaveInto"}]
    \cup [op : {"Restore"}, data : RestoreData, flush : BOOLEAN]

-----------------------------------------------------------------------------
(* The xtables lock: none before 1.4.20, the socket before 1.6.0, then the *)
(* file.                                                                   *)

LockKind(v) == IF LessThan(v, WaitMinVersion) THEN "none"
               ELSE IF LessThan(v, <<1, 6>>) THEN "lock14" ELSE "lock16"

Locked ==
    \/ LockKind(installed) = "lock14" /\ lock14 # None
    \/ LockKind(installed) = "lock16" /\ lock16 # None

TakeLock(p) ==
    /\ lock14' = IF LockKind(installed) = "lock14" THEN p ELSE lock14
    /\ lock16' = IF LockKind(installed) = "lock16" THEN p ELSE lock16

\* Close of the locker: what p holds is free again.
Close(p) ==
    /\ lock16' = IF lock16 = p THEN None ELSE lock16
    /\ lock14' = IF lock14 = p THEN None ELSE lock14

-----------------------------------------------------------------------------
(* newInternal probes the versions.                                        *)

\* A version that cannot be read is taken for MinCheckVersion.
getIPTablesVersionString(answers) == IF answers THEN installed ELSE MinCheckVersion

Init ==
    /\ installed \in Versions
    /\ \E answers, restoreAnswers \in BOOLEAN :
         LET vstring == getIPTablesVersionString(answers)
         IN  /\ hasCheck = getIPTablesHasCheckCommand(vstring)
             /\ waitFlag = getIPTablesWaitFlag(vstring)
             /\ restoreWaitFlag = getIPTablesRestoreWaitFlag(installed, restoreAnswers)
    /\ table = Empty
    /\ mu = None /\ lock16 = None /\ lock14 = None
    /\ pc = [t \in Callers |-> "idle"] /\ call = [t \in Callers |-> None]
    /\ snap = [p \in Callers \cup {Other} |-> None] /\ other = "idle"
    /\ calls = 0 /\ upsets = 0

-----------------------------------------------------------------------------
(* One call, from entry to return.                                         *)

\* EnsurePolicy is the only call that does not take the mutex.
FirstStep(k) == IF k.op = "EnsurePolicy" THEN "run" ELSE "lock"

Enter(t, k) == pc' = [pc EXCEPT ![t] = FirstStep(k)] /\ call' = [call EXCEPT ![t] = k]

Upset == upsets < MaxUpsets /\ upsets' = upsets + 1

Goto(t, step) == pc' = [pc EXCEPT ![t] = step]

\* Back to the caller, with the deferred Unlock.
Return(t) ==
    /\ Goto(t, "idle") /\ call' = [call EXCEPT ![t] = None]
    /\ mu' = IF mu = t THEN None ELSE mu

Call(t, k) ==
    /\ pc[t] = "idle" /\ calls < MaxCalls
    /\ Enter(t, k) /\ calls' = calls + 1
    /\ UNCHANGED <<table, flags, mu, locks, snap, other, upsets>>

\* Mutant: the mutex is not taken.
MutexFree_always == TRUE

MutexFree == mu = None

LockMutex(t) ==
    /\ pc[t] = "lock" /\ MutexFree /\ mu' = t
    /\ Goto(t, CASE call[t].op \in {"EnsureRule", "DeleteRule"} -> "check"
                 [] call[t].op = "Restore" -> IF restoreWaitFlag THEN "restore" ELSE "open16"
                 [] OTHER -> "run")
    /\ UNCHANGED <<table, flags, locks, call, snap, other, counts>>

\* A program that takes the xtables lock runs when nobody else holds it.
\* iptables-save reads without it.
CanRun(t) == call[t].op = "SaveInto" \/ ~Locked

\* checkRule: iptables -C, or a search of what iptables-save prints, which
\* takes every chain whose name begins with this one's for this one.
Found(k) ==
    \E c \in DOMAIN table.chains :
        /\ c = k.chain \/ (~hasCheck /\ <<k.chain, c>> \in Extends)
        /\ table.chains[c][k.rule] > 0

checkRule(t) ==
    /\ pc[t] = "check" /\ (hasCheck => CanRun(t))
    /\ IF Found(call[t]) = (call[t].op = "EnsureRule")
       THEN Return(t)
       ELSE Goto(t, "run") /\ UNCHANGED <<call, mu>>
    /\ UNCHANGED <<table, flags, locks, snap, other, counts>>

run(t) ==
    /\ pc[t] = "run" /\ CanRun(t)
    /\ table' = Applied(call[t], table)
    /\ Return(t)
    /\ UNCHANGED <<flags, locks, snap, other, counts>>

\* The lock is not free: no waiting without -w (EnsurePolicy never passes it),
\* five seconds with -w5, for ever with -w.
GivesUp(t) ==
    /\ Locked /\ call[t].op # "SaveInto"
    /\ waitFlag # "-w" \/ call[t].op = "EnsurePolicy"

\* Mutant: an error return forgets the Unlock.
runFails_keepsMutex(t) ==
    /\ pc[t] \in {"check", "run"} /\ Upset
    /\ Goto(t, "idle") /\ call' = [call EXCEPT ![t] = None]
    /\ UNCHANGED <<table, flags, mu, locks, snap, other, calls>>

runFails(t) ==
    /\ pc[t] \in {"check", "run"}
    /\ \/ GivesUp(t) /\ (pc[t] = "check" => hasCheck) /\ UNCHANGED upsets
       \/ Upset
    /\ Return(t)
    /\ UNCHANGED <<table, flags, locks, snap, other, calls>>

-----------------------------------------------------------------------------
(* restoreInternal after the mutex: grabIptablesLocks unless the program   *)
(* waits by itself, iptables-restore, Close.                               *)

openFile(t) ==
    /\ pc[t] = "open16"
    /\ \/ Goto(t, "poll16") /\ UNCHANGED <<mu, call, upsets>>
       \/ Upset /\ Return(t)
    /\ UNCHANGED <<table, flags, locks, snap, other, calls>>

\* Mutant: the old lock is not taken.
AfterFileLock_restore == "restore"

AfterFileLock == "poll14"

grabIptablesFileLock(t) ==
    /\ pc[t] = "poll16" /\ lock16 = None
    /\ lock16' = t /\ Goto(t, AfterFileLock)
    /\ UNCHANGED <<table, flags, mu, lock14, call, snap, other, counts>>

listenUnix(t) ==
    /\ pc[t] = "poll14" /\ lock14 = None
    /\ lock14' = t /\ Goto(t, "restore")
    /\ UNCHANGED <<table, flags, mu, lock16, call, snap, other, counts>>

\* Mutant: the first lock is kept when the second cannot be had.
pollTimesOut_noClose(t) ==
    /\ \/ pc[t] = "poll16" /\ lock16 # None
       \/ pc[t] = "poll14" /\ lock14 # None
    /\ Return(t)
    /\ UNCHANGED <<table, flags, locks, snap, other, counts>>

\* Two seconds of polling were in vain: the deferred Close frees what was taken.
pollTimesOut(t) ==
    /\ \/ pc[t] = "poll16" /\ lock16 # None
       \/ pc[t] = "poll14" /\ lock14 # None
    /\ Close(t) /\ Return(t)
    /\ UNCHANGED <<table, flags, snap, other, counts>>

\* iptables-restore reads the table, under its own lock if it takes one.
restoreReads(t) ==
    /\ pc[t] = "restore"
    /\ IF RestoreLocks(installed) THEN ~Locked /\ TakeLock(t) ELSE UNCHANGED locks
    /\ snap' = [snap EXCEPT ![t] = table] /\ Goto(t, "commit")
    /\ UNCHANGED <<table, flags, mu, call, other, counts>>

restoreCommits(t) ==
    /\ pc[t] = "commit"
    /\ table' = Restored(call[t], snap[t])
    /\ snap' = [snap EXCEPT ![t] = None] /\ Goto(t, "close")
    /\ UNCHANGED <<flags, mu, locks, call, other, counts>>

\* --wait ran out, or the program met the runner's own lock because newInternal
\* could not read its version, or it failed before it wrote anything.
restoreFails(t) ==
    /\ \/ pc[t] = "restore" /\ RestoreLocks(installed) /\ Locked /\ UNCHANGED upsets
       \/ pc[t] \in {"restore", "commit"} /\ Upset
    /\ snap' = [snap EXCEPT ![t] = None] /\ Goto(t, "close")
    /\ UNCHANGED <<table, flags, mu, locks, call, other, calls>>

closeLocks(t) ==
    /\ pc[t] = "close"
    /\ Close(t) /\ Return(t)
    /\ UNCHANGED <<table, flags, snap, other, counts>>

restoreInternal(t) ==
    \/ openFile(t) \/ grabIptablesFileLock(t) \/ listenUnix(t) \/ pollTimesOut(t)
    \/ restoreReads(t) \/ restoreCommits(t) \/ restoreFails(t) \/ closeLocks(t)

Proceed(t) == LockMutex(t) \/ checkRule(t) \/ run(t) \/ runFails(t) \/ restoreInternal(t)

-----------------------------------------------------------------------------
(* External: another program reads the table under the xtables lock of the *)
(* installed version and writes it back with a chain or a policy changed.  *)

OtherReads ==
    /\ other = "idle" /\ Upset /\ ~Locked
    /\ other' = "editing" /\ TakeLock(Other)
    /\ snap' = [snap EXCEPT ![Other] = table]
    /\ UNCHANGED <<table, flags, mu, pc, call, calls>>

OtherWrites ==
    /\ other = "editing"
    /\ \/ \E c \in Builtin, p \in Policies : table' = [snap[Other] EXCEPT !.policy[c] = p]
       \/ \E c \in Chains \ DOMAIN snap[Other].chains : table' = WithChain(snap[Other], c, NoRules)
    /\ other' = "idle" /\ Close(Other) /\ snap' = [snap EXCEPT ![Other] = None]
    /\ UNCHANGED <<flags, mu, pc, call, counts>>

-----------------------------------------------------------------------------
Next ==
    \/ \E t \in Callers : Proceed(t) \/ \E k \in Calls : Call(t, k)
    \/ OtherReads \/ OtherWrites

Spec == Init /\ [][Next]_vars

\* Goroutines go on when they can, and another program ends the edit it began.
FairSpec == Spec /\ WF_vars(OtherWrites) /\ \A t \in Callers : WF_vars(Proceed(t))

-----------------------------------------------------------------------------
\* A table has some of the chains and a policy for each built-in one.
IsTable(t) ==
    /\ t = [chains |-> t.chains, policy |-> t.policy]
    /\ DOMAIN t.chains \subseteq Chains
    /\ t.chains \in [DOMAIN t.chains -> [Rules -> Nat]]
    /\ t.policy \in [Builtin -> Policies]

Steps == {"idle", "lock", "check", "run", "open16", "poll16", "poll14", "restore", "commit", "close"}

Inside(t) == pc[t] \notin {"idle", "lock"} /\ call[t].op # "EnsurePolicy"

\* Type invariant, with what ties the control state together: runner.mu is held
\* by the caller that is between Lock and its deferred Unlock, and by no other.
TypeOK ==
    /\ IsTable(table)
    /\ installed \in Versions /\ hasCheck \in BOOLEAN /\ restoreWaitFlag \in BOOLEAN
    /\ waitFlag \in {"none", "-w", "-w5"}
    /\ mu \in Callers \cup {None}
    /\ {lock16, lock14} \subseteq Callers \cup {Other, None}
    /\ pc \in [Callers -> Steps] /\ call \in [Callers -> Calls \cup {None}]
    /\ DOMAIN snap = Callers \cup {Other}
    /\ \A p \in Callers \cup {Other} : snap[p] = None \/ IsTable(snap[p])
    /\ \A t \in Callers : mu = t <=> Inside(t)
    /\ other \in {"idle", "editing"} /\ calls \in 0..MaxCalls /\ upsets \in 0..MaxUpsets

Locking == LockKind(installed) # "none"

\* EnsureRule never leaves a rule twice in a chain, whoever else calls the
\* runner: what could happen between its check and its insertion is kept out
\* by the mutex or, from 1.4.20 on, by the xtables lock.  (Other programs
\* leave the runner's rules alone.)
RuleOnce ==
    Locking => \A c \in DOMAIN table.chains, r \in Rules : table.chains[c][r] <= 1

\* The reason for grabIptablesLocks: what iptables-restore or another locking
\* program read is still the table when it writes back, so neither undoes a
\* change of the other.
SnapshotsStayFresh ==
    Locking => \A p \in Callers \cup {Other} : snap[p] # None => snap[p] = table

\* The runner holds an xtables lock only inside Restore, on the way in or
\* around the program, whatever times out or fails.
LocksAreReturned ==
    \A t \in Callers : t \in {lock16, lock14} =>
        mu = t /\ pc[t] \in {"poll14", "restore", "commit", "close"}

\* Every call returns: nobody waits for ever on the mutex or a lock.
CallsReturn == \A t \in Callers : (pc[t] # "idle") ~> (pc[t] = "idle")

=============================================================================
