-------------------------------- MODULE Bits --------------------------------
(***************************************************************************)
(* utils/bits: an allocator of the ordinals min..max that concurrent       *)
(* callers share without a lock.  Bits are kept in words; a call loads a   *)
(* word and then tries one compare-and-swap on it, so that a change of any *)
(* other bit of that word in between makes the call fail.                  *)
(***************************************************************************)
EXTENDS Integers

CONSTANTS
    Callers,   \* goroutines
    min, max,  \* arguments of NewBits, in order
    WordSize   \* bits of a word, 32 in the code

\* max is below the largest int32: i++ in Allocate does not wrap around.
ASSUME BitsAssumption ==
    /\ min \in Int /\ max \in Int /\ min <= max
    /\ WordSize \in Nat \ {0}

VARIABLES
    allocated, \* index -> positions of the bits that are set
    pc,        \* caller -> where it is
    op,        \* caller -> the method it is in, or was in last
    i,         \* caller -> the ordinal it is trying
    old,       \* caller -> the word it loaded
    holds,     \* caller -> ordinals granted to it and not revoked
    alone      \* history: caller -> no other caller changed a word since the call

vars == <<allocated, pc, op, i, old, holds, alone>>

Ordinals  == min..max
index(o)  == (o - min) \div WordSize
pos(o)    == (o - min) % WordSize
Indexes   == 0..index(max)
Positions == 0..(WordSize - 1)

IsSet(o) == pos(o) \in allocated[index(o)]

-----------------------------------------------------------------------------
Init ==
    /\ allocated = [x \in Indexes |-> {}]
    /\ pc = [c \in Callers |-> "idle"]
    /\ op = [c \in Callers |-> "Allocate"]
    /\ i = [c \in Callers |-> min]
    /\ old = [c \in Callers |-> {}]
    /\ holds = [c \in Callers |-> {}]
    /\ alone = [c \in Callers |-> TRUE]

Enter(c, method, o) ==
    /\ pc[c] = "idle"
    /\ pc' = [pc EXCEPT ![c] = "load"]
    /\ op' = [op EXCEPT ![c] = method]
    /\ i' = [i EXCEPT ![c] = o]
    /\ alone' = [alone EXCEPT ![c] = TRUE]
    /\ UNCHANGED <<allocated, old, holds>>

\* Mutant: the first ordinal is left out.
Allocate_second(c) == Enter(c, "Allocate", IF min < max THEN min + 1 ELSE min)

Allocate(c) == Enter(c, "Allocate", min)

\* Take one given ordinal.  Calls outside of min..max return false at once.
Allocated(c) == \E o \in Ordinals : Enter(c, "Allocated", o)

\* Callers give back only what was granted to them.
Revoke(c) == \E o \in holds[c] : Enter(c, "Revoke", o)

\* atomic.LoadUint32
Load(c) ==
    /\ pc[c] = "load"
    /\ pc' = [pc EXCEPT ![c] = "cas"]
    /\ old' = [old EXCEPT ![c] = allocated[index(i[c])]]
    /\ UNCHANGED <<allocated, op, i, holds, alone>>

\* The word a compare-and-swap expects and the one it leaves.
Expected(c) == IF op[c] = "Revoke" THEN old[c] \cup {pos(i[c])} ELSE old[c] \ {pos(i[c])}
Desired(c)  == IF op[c] = "Revoke" THEN old[c] \ {pos(i[c])} ELSE old[c] \cup {pos(i[c])}

\* Mutant: the loaded word is not compared.
Matches_always(c) == TRUE

\* Mutant: only the bit is compared, and the rest of the word overwritten.
Matches_bitOnly(c) == (pos(i[c]) \in Expected(c)) = IsSet(i[c])

Matches(c) == allocated[index(i[c])] = Expected(c)

Swap(c) ==
    /\ pc[c] = "cas"
    /\ Matches(c)
    /\ allocated' = [allocated EXCEPT ![index(i[c])] = Desired(c)]
    /\ holds' = [holds EXCEPT ![c] = IF op[c] = "Revoke" THEN @ \ {i[c]} ELSE @ \cup {i[c]}]
    /\ pc' = [pc EXCEPT ![c] = "idle"]
    /\ alone' = [d \in Callers |-> d = c /\ alone[c]]
    /\ UNCHANGED <<op, i, old>>

\* Mutant: one ordinal too many.
NextOrdinal_beyond(c) ==
    /\ pc[c] = "cas"
    /\ ~Matches(c)
    /\ op[c] = "Allocate"
    /\ i[c] <= max
    /\ i' = [i EXCEPT ![c] = @ + 1]
    /\ pc' = [pc EXCEPT ![c] = "load"]
    /\ UNCHANGED <<allocated, op, old, holds, alone>>

\* Mutant: the same ordinal is tried until it is free.
NextOrdinal_retry(c) ==
    /\ pc[c] = "cas"
    /\ ~Matches(c)
    /\ op[c] = "Allocate"
    /\ i[c] < max
    /\ pc' = [pc EXCEPT ![c] = "load"]
    /\ UNCHANGED <<allocated, op, i, old, holds, alone>>

\* Allocate goes on to the next ordinal.
NextOrdinal(c) ==
    /\ pc[c] = "cas"
    /\ ~Matches(c)
    /\ op[c] = "Allocate"
    /\ i[c] < max
    /\ i' = [i EXCEPT ![c] = @ + 1]
    /\ pc' = [pc EXCEPT ![c] = "load"]
    /\ UNCHANGED <<allocated, op, old, holds, alone>>

\* nil, or false.
Refuse(c) ==
    /\ pc[c] = "cas"
    /\ ~Matches(c)
    /\ op[c] = "Allocate" => i[c] = max
    /\ pc' = [pc EXCEPT ![c] = "idle"]
    /\ UNCHANGED <<allocated, op, i, old, holds, alone>>

Step(c) == Load(c) \/ Swap(c) \/ NextOrdinal(c) \/ Refuse(c)

Next == \E c \in Callers : Allocate(c) \/ Allocated(c) \/ Revoke(c) \/ Step(c)

Spec == Init /\ [][Next]_vars

\* A goroutine inside a call goes on.
FairSpec == Spec /\ \A c \in Callers : WF_vars(Step(c))

-----------------------------------------------------------------------------
(* Properties. *)

TypeOK ==
    /\ allocated \in [Indexes -> SUBSET Positions]
    /\ pc \in [Callers -> {"idle", "load", "cas"}]
    /\ op \in [Callers -> {"Allocate", "Allocated", "Revoke"}]
    /\ i \in [Callers -> Ordinals]
    /\ old \in [Callers -> SUBSET Positions]
    /\ holds \in [Callers -> SUBSET Ordinals]
    /\ alone \in [Callers -> BOOLEAN]

\* However Load and CompareAndSwap of concurrent calls interleave, an ordinal
\* has at most one owner.
OneOwner == \A c, d \in Callers : c # d => holds[c] \cap holds[d] = {}

\* A bit is set exactly while somebody owns its ordinal: no swap loses the bit
\* of another caller, and no refused call leaves one behind.
SetMeansOwned == \A o \in Ordinals : IsSet(o) <=> \E c \in Callers : o \in holds[c]

\* An Allocate that nobody disturbs grants the smallest free ordinal, and
\* answers nil only when there is none.
AloneIsExact ==
    [][\A c \in Callers :
         op[c] = "Allocate" /\ alone[c] /\ pc[c] = "cas" =>
            /\ Swap(c) => \A o \in min..(i[c] - 1) : IsSet(o)
            /\ Refuse(c) => \A o \in Ordinals : IsSet(o)]_vars

\* Every call returns, whatever the others do.
CallsReturn == \A c \in Callers : pc[c] # "idle" ~> pc[c] = "idle"
=============================================================================
