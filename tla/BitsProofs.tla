------------------------------ MODULE BitsProofs ------------------------------
(* Theorems about Bits, for any callers, range and word size. *)
EXTENDS Bits, TLAPS

\* Two ordinals never share a bit.
LEMMA BitsAreDistinct ==
  ASSUME NEW o \in Ordinals, NEW q \in Ordinals, index(o) = index(q), pos(o) = pos(q)
  PROVE  o = q
<1>1. ASSUME NEW n \in Int PROVE n = (WordSize * (n \div WordSize)) + (n % WordSize)
  BY <1>1, BitsAssumption
<1>2. o - min = q - min
  BY <1>1, BitsAssumption DEF index, pos, Ordinals
<1> QED
  BY <1>2, BitsAssumption DEF Ordinals

\* Every ordinal has a bit in the array.
LEMMA BitsInRange ==
  ASSUME NEW o \in Ordinals
  PROVE  index(o) \in Indexes /\ pos(o) \in Positions
<1>1. pos(o) \in Positions
  BY BitsAssumption DEF pos, Positions, Ordinals
<1>2. index(o) \in Indexes
  BY BitsAssumption DEF index, Indexes, Ordinals
<1> QED
  BY <1>1, <1>2

-----------------------------------------------------------------------------
(* The inductive invariant adds that a caller inside Revoke still owns the *)
(* ordinal it gives back: only its own swap can end that ownership.        *)

RevokesOwn == \A c \in Callers : pc[c] # "idle" /\ op[c] = "Revoke" => i[c] \in holds[c]

BitsInv == TypeOK /\ OneOwner /\ SetMeansOwned /\ RevokesOwn

\* A fresh array from NewBits satisfies the invariant.
LEMMA InitInv == Init => BitsInv
<1> SUFFICES ASSUME Init PROVE BitsInv
  OBVIOUS
<1>1. TypeOK
  BY BitsAssumption DEF Init, TypeOK, Ordinals
<1>2. SetMeansOwned
  BY BitsInRange DEF Init, SetMeansOwned, IsSet
<1> QED
  BY <1>1, <1>2 DEF Init, BitsInv, OneOwner, RevokesOwn

\* A successful compare-and-swap changes exactly the bit of its ordinal: from
\* clear to set for a grant, from set to clear for a Revoke.
LEMMA SwapChangesOneBit ==
  ASSUME TypeOK, NEW c \in Callers, Swap(c)
  PROVE  /\ op[c] # "Revoke" => ~IsSet(i[c]) /\ IsSet(i[c])'
         /\ op[c] = "Revoke" => IsSet(i[c]) /\ ~(pos(i[c]) \in allocated'[index(i[c])])
         /\ \A o \in Ordinals : o # i[c] => (IsSet(o)' <=> IsSet(o))
<1>1. i[c] \in Ordinals /\ index(i[c]) \in Indexes /\ pos(i[c]) \in Positions
  BY BitsInRange DEF TypeOK
<1>2. i' = i
  BY DEF Swap
<1>3. allocated'[index(i[c])] = Desired(c) /\ allocated[index(i[c])] = Expected(c)
  BY <1>1 DEF Swap, Matches, TypeOK
<1>4. ASSUME NEW o \in Ordinals, o # i[c] PROVE IsSet(o)' <=> IsSet(o)
  <2>1. CASE index(o) = index(i[c])
    <3>1. pos(o) # pos(i[c])
      BY <1>1, <1>4, <2>1, BitsAreDistinct
    <3> QED
      BY <1>3, <2>1, <3>1 DEF IsSet, Desired, Expected
  <2>2. CASE index(o) # index(i[c])
    BY <2>2, <1>1, BitsInRange DEF Swap, IsSet, TypeOK
  <2> QED
    BY <2>1, <2>2
<1> QED
  BY <1>2, <1>3, <1>4 DEF IsSet, Desired, Expected

\* The types are kept by every step.
LEMMA NextType == TypeOK /\ [Next]_vars => TypeOK'
<1> SUFFICES ASSUME TypeOK, [Next]_vars PROVE TypeOK'
  OBVIOUS
<1> USE DEF TypeOK
<1>1. ASSUME NEW c \in Callers, NEW method \in {"Allocate", "Allocated", "Revoke"},
             NEW o \in Ordinals, Enter(c, method, o)
      PROVE  TypeOK'
  BY <1>1 DEF Enter
<1>2. ASSUME NEW c \in Callers, Allocate(c) \/ Allocated(c) \/ Revoke(c) PROVE TypeOK'
  <2>1. min \in Ordinals
    BY BitsAssumption DEF Ordinals
  <2> QED
    BY <1>1, <1>2, <2>1 DEF Allocate, Allocated, Revoke
<1>3. ASSUME NEW c \in Callers, Load(c) PROVE TypeOK'
  BY <1>3, BitsInRange DEF Load
<1>4. ASSUME NEW c \in Callers, Swap(c) PROVE TypeOK'
  <2>1. Desired(c) \in SUBSET Positions
    BY BitsInRange DEF Desired
  <2> QED
    BY <1>4, <2>1 DEF Swap
<1>5. ASSUME NEW c \in Callers, NextOrdinal(c) PROVE TypeOK'
  <2>1. i[c] + 1 \in Ordinals
    BY <1>5, BitsAssumption DEF NextOrdinal, Ordinals
  <2> QED
    BY <1>5, <2>1 DEF NextOrdinal
<1>6. ASSUME NEW c \in Callers, Refuse(c) PROVE TypeOK'
  BY <1>6 DEF Refuse
<1>7. CASE UNCHANGED vars
  BY <1>7 DEF vars
<1> QED
  BY <1>2, <1>3, <1>4, <1>5, <1>6, <1>7 DEF Next, Step

\* The invariant is inductive: only Swap changes bits and owners.
LEMMA NextInv == BitsInv /\ [Next]_vars => BitsInv'
<1> SUFFICES ASSUME BitsInv, [Next]_vars PROVE OneOwner' /\ SetMeansOwned' /\ RevokesOwn'
  BY NextType DEF BitsInv
<1> USE DEF BitsInv
<1>1. ASSUME UNCHANGED <<allocated, holds>> PROVE OneOwner' /\ SetMeansOwned'
  BY <1>1 DEF OneOwner, SetMeansOwned, IsSet
<1>2. ASSUME NEW c \in Callers, Allocate(c) \/ Allocated(c) \/ Revoke(c)
      PROVE  OneOwner' /\ SetMeansOwned' /\ RevokesOwn'
  <2>1. RevokesOwn'
    BY <1>2 DEF Allocate, Allocated, Revoke, Enter, RevokesOwn, TypeOK
  <2> QED
    BY <1>1, <1>2, <2>1 DEF Allocate, Allocated, Revoke, Enter
<1>3. ASSUME NEW c \in Callers, Load(c) \/ NextOrdinal(c) \/ Refuse(c)
      PROVE  OneOwner' /\ SetMeansOwned' /\ RevokesOwn'
  <2>1. RevokesOwn'
    BY <1>3 DEF Load, NextOrdinal, Refuse, RevokesOwn, TypeOK
  <2> QED
    BY <1>1, <1>3, <2>1 DEF Load, NextOrdinal, Refuse
<1>4. ASSUME NEW c \in Callers, Swap(c)
      PROVE  OneOwner' /\ SetMeansOwned' /\ RevokesOwn'
  <2>1. i[c] \in Ordinals /\ i' = i /\ op' = op
    BY <1>4 DEF Swap, TypeOK
  <2>2. /\ \A d \in Callers : d # c => holds'[d] = holds[d]
        /\ holds'[c] = IF op[c] = "Revoke" THEN holds[c] \ {i[c]} ELSE holds[c] \cup {i[c]}
    BY <1>4 DEF Swap, TypeOK
  <2>3. op[c] = "Revoke" => i[c] \in holds[c]
    BY <1>4 DEF Swap, RevokesOwn
  <2>4. op[c] # "Revoke" => \A d \in Callers : i[c] \notin holds[d]
    BY <1>4, <2>1, SwapChangesOneBit DEF SetMeansOwned
  <2>5. OneOwner'
    BY <2>2, <2>4 DEF OneOwner
  <2>6. SetMeansOwned'
    <3> SUFFICES ASSUME NEW o \in Ordinals
                 PROVE  IsSet(o)' <=> \E d \in Callers : o \in holds'[d]
      BY DEF SetMeansOwned
    <3>1. CASE o # i[c]
      <4>1. IsSet(o)' <=> IsSet(o)
        BY <1>4, <3>1, SwapChangesOneBit
      <4>2. \A d \in Callers : o \in holds'[d] <=> o \in holds[d]
        BY <2>2, <3>1
      <4> QED
        BY <4>1, <4>2 DEF SetMeansOwned
    <3>2. CASE o = i[c] /\ op[c] # "Revoke"
      <4>1. IsSet(o)'
        BY <1>4, <2>1, <3>2, SwapChangesOneBit DEF IsSet
      <4> QED
        BY <2>2, <3>2, <4>1
    <3>3. CASE o = i[c] /\ op[c] = "Revoke"
      <4>1. ~IsSet(o)'
        BY <1>4, <3>3, SwapChangesOneBit DEF IsSet
      <4>2. \A d \in Callers : o \notin holds'[d]
        BY <2>2, <2>3, <3>3 DEF OneOwner
      <4> QED
        BY <4>1, <4>2
    <3> QED
      BY <3>1, <3>2, <3>3
  <2>7. RevokesOwn'
    BY <1>4, <2>1, <2>2 DEF Swap, RevokesOwn, TypeOK
  <2> QED
    BY <2>5, <2>6, <2>7
<1>5. CASE UNCHANGED vars
  BY <1>1, <1>5 DEF vars, RevokesOwn
<1> QED
  BY <1>2, <1>3, <1>4, <1>5 DEF Next, Step

\* Whatever the word size and the number of callers, an ordinal handed out by
\* Allocate or Allocated has one owner until that owner's Revoke succeeds.
THEOREM NoDoubleGrant == Spec => []OneOwner
<1>1. BitsInv => OneOwner
  BY DEF BitsInv
<1> QED
  BY <1>1, InitInv, NextInv, PTL DEF Spec

\* No compare-and-swap of utils/bits loses or leaks a bit: the set bits are
\* exactly the owned ordinals.
THEOREM NoLostBit == Spec => []SetMeansOwned
<1>1. BitsInv => SetMeansOwned
  BY DEF BitsInv
<1> QED
  BY <1>1, InitInv, NextInv, PTL DEF Spec

\* Callers only try ordinals from min to max, and only positions of a word are set.
THEOREM TypeCorrect == Spec => []TypeOK
<1>1. BitsInv => TypeOK
  BY DEF BitsInv
<1> QED
  BY <1>1, InitInv, NextInv, PTL DEF Spec


-----------------------------------------------------------------------------
(* An Allocate that nobody disturbs has found every ordinal before the one *)
(* it is trying taken, and the word it loaded is still the current one.    *)

AloneInv ==
    \A c \in Callers : op[c] = "Allocate" /\ alone[c] /\ pc[c] # "idle" =>
        /\ \A o \in min..(i[c] - 1) : IsSet(o)
        /\ pc[c] = "cas" => old[c] = allocated[index(i[c])]

\* If the swap fails all the same, the bit itself was set.
LEMMA AloneFindsTaken ==
  ASSUME AloneInv, NEW c \in Callers, op[c] = "Allocate", alone[c], pc[c] = "cas", ~Matches(c)
  PROVE  IsSet(i[c])
BY DEF AloneInv, Matches, Expected, IsSet

\* The ordinals up to the one that is tried.
LEMMA UpTo ==
  ASSUME NEW k \in Ordinals
  PROVE  \A o \in min..k : o = k \/ o \in min..(k - 1)
BY BitsAssumption DEF Ordinals

\* The invariant is inductive: a change of a word by somebody else ends it.
LEMMA AloneNext == TypeOK /\ AloneInv /\ [Next]_vars => AloneInv'
<1> SUFFICES ASSUME TypeOK, AloneInv, [Next]_vars, NEW c \in Callers,
                    op'[c] = "Allocate", alone'[c], pc'[c] # "idle"
             PROVE  /\ \A o \in min..(i'[c] - 1) : IsSet(o)'
                    /\ pc'[c] = "cas" => old'[c] = allocated'[index(i'[c])]
  BY DEF AloneInv, index
<1> DEFINE Goal == /\ \A o \in min..(i'[c] - 1) : IsSet(o)'
                   /\ pc'[c] = "cas" => old'[c] = allocated'[index(i'[c])]
<1>0. i[c] \in Ordinals /\ i[c] \in Int /\ min \in Int
  BY BitsAssumption DEF TypeOK, Ordinals
<1>1. ASSUME UNCHANGED allocated PROVE \A o : IsSet(o)' <=> IsSet(o)
  BY <1>1 DEF IsSet, index, pos
<1>2. ASSUME UNCHANGED allocated, op'[c] = op[c], alone'[c] = alone[c], pc'[c] = pc[c], i'[c] = i[c], old'[c] = old[c]
      PROVE  Goal
  BY <1>1, <1>2 DEF AloneInv
<1>3. ASSUME NEW d \in Callers, Allocate(d) \/ Allocated(d) \/ Revoke(d) PROVE Goal
  <2>1. PICK m, o : Enter(d, m, o) /\ (m = "Allocate" => o = min)
    BY <1>3 DEF Allocate, Allocated, Revoke
  <2>2. CASE d = c
    <3>1. i'[c] = min /\ pc'[c] = "load"
      BY <2>1, <2>2 DEF Enter, TypeOK
    <3>2. min..(min - 1) = {}
      BY <1>0
    <3> QED
      BY <3>1, <3>2
  <2>3. CASE d # c
    BY <1>2, <2>1, <2>3 DEF Enter, TypeOK
  <2> QED
    BY <2>2, <2>3
<1>4. ASSUME NEW d \in Callers, Load(d) PROVE Goal
  <2>1. CASE d = c
    BY <1>1, <1>4, <2>1 DEF Load, TypeOK, AloneInv
  <2>2. CASE d # c
    BY <1>2, <1>4, <2>2 DEF Load, TypeOK
  <2> QED
    BY <2>1, <2>2
<1>5. ASSUME NEW d \in Callers, Swap(d) PROVE Goal
  BY <1>5 DEF Swap, TypeOK
<1>6. ASSUME NEW d \in Callers, NextOrdinal(d) PROVE Goal
  <2>1. CASE d = c
    <3>1. /\ i'[c] = i[c] + 1 /\ pc'[c] = "load" /\ allocated' = allocated
          /\ op[c] = "Allocate" /\ alone[c] /\ pc[c] = "cas" /\ ~Matches(c)
      BY <1>6, <2>1 DEF NextOrdinal, TypeOK
    <3>2. IsSet(i[c])
      BY <3>1, AloneFindsTaken
    <3>3. \A o \in min..(i[c] - 1) : IsSet(o)
      BY <3>1 DEF AloneInv
    <3>4. i'[c] - 1 = i[c]
      BY <1>0, <3>1
    <3> QED
      BY <1>0, <1>1, <3>1, <3>2, <3>3, <3>4, UpTo
  <2>2. CASE d # c
    BY <1>2, <1>6, <2>2 DEF NextOrdinal, TypeOK
  <2> QED
    BY <2>1, <2>2
<1>7. ASSUME NEW d \in Callers, Refuse(d) PROVE Goal
  BY <1>2, <1>7 DEF Refuse, TypeOK
<1>8. CASE UNCHANGED vars
  BY <1>2, <1>8 DEF vars
<1> QED
  BY <1>3, <1>4, <1>5, <1>6, <1>7, <1>8 DEF Next, Step

\* An Allocate that no other call disturbs grants the smallest free ordinal,
\* and answers nil only when every ordinal is taken.
THEOREM AloneAllocates == Spec => AloneIsExact
<1>1. Init => AloneInv
  BY DEF Init, AloneInv
<1>2. ASSUME TypeOK, AloneInv
      PROVE  \A c \in Callers :
               op[c] = "Allocate" /\ alone[c] /\ pc[c] = "cas" =>
                  /\ Swap(c) => \A o \in min..(i[c] - 1) : IsSet(o)
                  /\ Refuse(c) => \A o \in Ordinals : IsSet(o)
  <2> SUFFICES ASSUME NEW c \in Callers, op[c] = "Allocate", alone[c], pc[c] = "cas"
               PROVE  /\ \A o \in min..(i[c] - 1) : IsSet(o)
                      /\ Refuse(c) => \A o \in Ordinals : IsSet(o)
    OBVIOUS
  <2>1. \A o \in min..(i[c] - 1) : IsSet(o)
    BY <1>2 DEF AloneInv
  <2>2. ASSUME Refuse(c) PROVE \A o \in Ordinals : IsSet(o)
    <3>1. i[c] = max /\ IsSet(i[c])
      BY <1>2, <2>2, AloneFindsTaken DEF Refuse
    <3>2. max \in Ordinals
      BY BitsAssumption DEF Ordinals
    <3> QED
      BY <2>1, <3>1, <3>2, UpTo DEF Ordinals
  <2> QED
    BY <2>1, <2>2
<1>3. TypeOK /\ AloneInv /\ [Next]_vars =>
        [\A c \in Callers :
           op[c] = "Allocate" /\ alone[c] /\ pc[c] = "cas" =>
              /\ Swap(c) => \A o \in min..(i[c] - 1) : IsSet(o)
              /\ Refuse(c) => \A o \in Ordinals : IsSet(o)]_vars
  BY <1>2
<1> QED
  BY <1>1, <1>3, AloneNext, TypeCorrect, PTL DEF Spec, AloneIsExact

=============================================================================
