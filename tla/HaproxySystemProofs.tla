------------------------- MODULE HaproxySystemProofs -------------------------
(* Theorems about HaproxySystem: what HaproxyAdaptor renders is what the   *)
(* reference asks for, for any services and endpoints in any order, and    *)
(* that is what haproxy runs.                                              *)
EXTENDS HaproxySystem, HaproxyProofs, SequenceTheorems, WellFoundedInduction

-----------------------------------------------------------------------------
(* Flattening sequences of sequences, by induction on the number of them.  *)

\* A nonempty set of numbers has a least one.
LEMMA LeastNumber ==
  ASSUME NEW T, T \subseteq Nat, T # {}
  PROVE  \E n \in T : \A m \in T : ~ (m < n)
<1>1. PICK n \in T : \A m \in T : ~ (<<m, n>> \in OpToRel(<, Nat))
  BY NatLessThanWellFounded, WFMin
<1> QED
  BY <1>1 DEF OpToRel

\* The function that FlattenSeq defines, on its first n sequences.
Partial(f, seqs, n) == f = [i \in 1..n |-> IF i = 1 THEN seqs[i] ELSE f[i - 1] \o seqs[i]]

\* That function exists.
LEMMA PartialExists ==
  ASSUME NEW seqs, NEW n \in Nat
  PROVE  \E f : Partial(f, seqs, n)
<1> DEFINE Bad == {m \in Nat : ~ \E f : Partial(f, seqs, m)}
<1>1. SUFFICES ASSUME Bad # {} PROVE FALSE
  OBVIOUS
<1>2. PICK m \in Bad : \A k \in Bad : ~ (k < m)
  BY <1>1, LeastNumber
<1>3. m \in Nat /\ m # 0
  <2>1. Partial([i \in 1..0 |-> {}], seqs, 0)
    BY DEF Partial
  <2> QED
    BY <1>2, <2>1
<1>4. PICK f : Partial(f, seqs, m - 1)
  BY <1>2, <1>3
<1> DEFINE g == [i \in 1..m |-> IF i = 1 THEN seqs[i] ELSE f[i - 1] \o seqs[i]]
<1>5. \A i \in 1..(m - 1) : g[i] = f[i]
  <2>1. \A i \in 1..(m - 1) : f[i] = IF i = 1 THEN seqs[i] ELSE f[i - 1] \o seqs[i]
    BY <1>4 DEF Partial
  <2> QED
    BY <1>3, <2>1
<1>6. \A i \in 1..m : g[i] = IF i = 1 THEN seqs[i] ELSE g[i - 1] \o seqs[i]
  <2> SUFFICES ASSUME NEW i \in 1..m, i # 1 PROVE g[i] = g[i - 1] \o seqs[i]
    BY <1>3
  <2>1. i - 1 \in 1..(m - 1)
    BY <1>3
  <2>2. g[i - 1] = f[i - 1]
    BY <1>5, <2>1
  <2>3. g[i] = f[i - 1] \o seqs[i]
    OBVIOUS
  <2> HIDE DEF g
  <2> QED
    BY <2>2, <2>3
<1>7. Partial(g, seqs, m)
  BY <1>6 DEF Partial
<1> QED
  BY <1>2, <1>7

\* What is flattened is the function's last value.
LEMMA FlattenPartial ==
  ASSUME NEW seqs, Len(seqs) \in Nat, Len(seqs) # 0
  PROVE  \E f : Partial(f, seqs, Len(seqs)) /\ FlattenSeq(seqs) = f[Len(seqs)]
<1> DEFINE f == CHOOSE f : Partial(f, seqs, Len(seqs))
<1>1. Partial(f, seqs, Len(seqs))
  BY PartialExists
<1>2. FlattenSeq(seqs) = f[Len(seqs)]
  BY Zenon DEF FlattenSeq, Partial
<1> QED
  BY <1>1, <1>2

\* The elements of a concatenation.
LEMMA ToSetConcat ==
  ASSUME NEW S, NEW s \in Seq(S), NEW t \in Seq(S)
  PROVE  s \o t \in Seq(S) /\ ToSet(s \o t) = ToSet(s) \cup ToSet(t)
<1>1. ToSet(s \o t) = Range(s \o t) /\ ToSet(s) = Range(s) /\ ToSet(t) = Range(t)
  BY DEF Range, ToSet
<1>2. Range(s \o t) = Range(s) \cup Range(t)
  BY RangeConcatenation
<1> QED
  BY <1>1, <1>2

\* Flattening keeps every element of every sequence and adds none.
LEMMA FlattenElements ==
  ASSUME NEW S, NEW seqs \in Seq(Seq(S))
  PROVE  /\ FlattenSeq(seqs) \in Seq(S)
         /\ ToSet(FlattenSeq(seqs)) = UNION {ToSet(seqs[j]) : j \in 1..Len(seqs)}
<1>1. CASE Len(seqs) = 0
  <2>1. FlattenSeq(seqs) = seqs
    BY <1>1, Zenon DEF FlattenSeq
  <2>2. seqs = << >>
    BY <1>1
  <2> QED
    BY <2>1, <2>2 DEF ToSet
<1>2. CASE Len(seqs) # 0
  <2> DEFINE n == Len(seqs)
             All(i) == UNION {ToSet(seqs[j]) : j \in 1..i}
  <2>1. n \in Nat /\ n # 0
    BY <1>2
  <2>2. PICK f : Partial(f, seqs, n) /\ FlattenSeq(seqs) = f[n]
    BY <2>1, FlattenPartial
  <2>3. \A i \in 1..n : f[i] = IF i = 1 THEN seqs[i] ELSE f[i - 1] \o seqs[i]
    BY <2>2 DEF Partial
  <2>4. \A i \in 1..n : seqs[i] \in Seq(S)
    OBVIOUS
  <2> DEFINE Bad == {i \in 1..n : ~ (f[i] \in Seq(S) /\ ToSet(f[i]) = All(i))}
  <2>5. Bad = {}
    <3>1. SUFFICES ASSUME Bad # {} PROVE FALSE
      OBVIOUS
    <3>2. Bad \subseteq Nat
      BY <2>1
    <3>3. PICK i \in Bad : \A k \in Bad : ~ (k < i)
      BY <3>1, <3>2, LeastNumber
    <3>4. i \in 1..n
      OBVIOUS
    <3>5. CASE i = 1
      <4>1. All(1) = ToSet(seqs[1])
        OBVIOUS
      <4>2. f[1] = seqs[1]
        BY <2>3, <3>4, <3>5
      <4>3. f[1] \in Seq(S) /\ ToSet(f[1]) = All(1)
        BY <2>4, <3>4, <3>5, <4>1, <4>2
      <4> QED
        BY <3>3, <3>5, <4>3
    <3>6. CASE i # 1
      <4>1. i - 1 \in 1..n /\ i - 1 < i
        BY <2>1, <3>4, <3>6
      <4>2. f[i - 1] \in Seq(S) /\ ToSet(f[i - 1]) = All(i - 1)
        BY <3>3, <4>1
      <4>3. f[i] = f[i - 1] \o seqs[i]
        BY <2>3, <3>4, <3>6
      <4>4. All(i) = All(i - 1) \cup ToSet(seqs[i])
        <5>1. 1..i = (1..(i - 1)) \cup {i}
          BY <2>1, <3>4
        <5> QED
          BY <5>1
      <4>5. f[i] \in Seq(S) /\ ToSet(f[i]) = All(i)
        <5>1. seqs[i] \in Seq(S)
          BY <2>4, <3>4
        <5> HIDE DEF All
        <5> QED
          BY <4>2, <4>3, <4>4, <5>1, ToSetConcat
      <4> QED
        BY <3>3, <4>5
    <3> QED
      BY <3>5, <3>6
  <2>6. n \in 1..n
    BY <2>1
  <2>7. f[n] \in Seq(S) /\ ToSet(f[n]) = All(n)
    BY <2>5, <2>6
  <2> QED
    BY <2>2, <2>7
<1> QED
  BY <1>1, <1>2

\* Appending a sequence of one element, ...
LEMMA ConcatOne ==
  ASSUME NEW S, NEW s \in Seq(S), NEW t \in Seq(S), Len(t) = 1
  PROVE  s \o t \in Seq(S) /\ Len(s \o t) = Len(s) + 1
BY ConcatProperties

\* ... and adding a new element to a set.
LEMMA AddOne ==
  ASSUME NEW S, NEW x, IsFiniteSet(S), x \notin S
  PROVE  IsFiniteSet(S \cup {x}) /\ Cardinality(S \cup {x}) = Cardinality(S) + 1
BY FS_AddElement

\* Of sequences with at most one element, as many elements as are not empty.
LEMMA FlattenLength ==
  ASSUME NEW S, NEW seqs \in Seq(Seq(S)),
         \A j \in 1..Len(seqs) : seqs[j] = << >> \/ Len(seqs[j]) = 1
  PROVE  Len(FlattenSeq(seqs)) = Cardinality({j \in 1..Len(seqs) : seqs[j] # << >>})
<1> DEFINE Kept(i) == {j \in 1..i : seqs[j] # << >>}
<1>0. Len(seqs) \in Nat /\ \A i \in 1..Len(seqs) : seqs[i] \in Seq(S)
  OBVIOUS
<1>1. CASE Len(seqs) = 0
  <2>1. FlattenSeq(seqs) = seqs
    BY <1>1, Zenon DEF FlattenSeq
  <2>2. Kept(0) = {}
    OBVIOUS
  <2> QED
    BY <1>1, <2>1, <2>2, FS_EmptySet
<1>2. CASE Len(seqs) # 0
  <2> DEFINE n == Len(seqs)
  <2>2. PICK f : Partial(f, seqs, n) /\ FlattenSeq(seqs) = f[n]
    BY <1>0, <1>2, FlattenPartial
  <2>3. \A i \in 1..n : f[i] = IF i = 1 THEN seqs[i] ELSE f[i - 1] \o seqs[i]
    BY <2>2 DEF Partial
  <2> DEFINE Good(i) == /\ f[i] \in Seq(S)
                        /\ IsFiniteSet(Kept(i))
                        /\ Len(f[i]) = Cardinality(Kept(i))
             Bad == {i \in 1..n : ~ Good(i)}
  <2>5. Bad = {}
    <3>1. SUFFICES ASSUME Bad # {} PROVE FALSE
      OBVIOUS
    <3>2. Bad \subseteq Nat
      BY <1>0
    <3>3. PICK i \in Bad : \A k \in Bad : ~ (k < i)
      BY <3>1, <3>2, LeastNumber
    <3>4. i \in 1..n /\ ~ Good(i)
      OBVIOUS
    <3>a. seqs[i] \in Seq(S) /\ (seqs[i] = << >> \/ Len(seqs[i]) = 1)
      BY <1>0, <3>4
    <3>5. CASE i = 1
      <4>1. f[1] = seqs[1]
        BY <1>0, <1>2, <2>3
      <4>2. CASE seqs[1] = << >>
        <5>1. Kept(1) = {}
          BY <4>2
        <5>2. Len(<< >>) = 0 /\ f[1] = << >> /\ f[1] \in Seq(S)
          BY <3>5, <3>a, <4>1, <4>2
        <5>3. IsFiniteSet({}) /\ Cardinality({}) = 0
          BY FS_EmptySet
        <5>4. Good(1)
          BY <5>1, <5>2, <5>3
        <5> QED
          BY <3>4, <3>5, <5>4
      <4>3. CASE seqs[1] # << >>
        <5>1. Kept(1) = {1}
          BY <4>3
        <5> QED
          BY <3>4, <3>5, <3>a, <4>1, <4>3, <5>1, FS_Singleton
      <4> QED
        BY <4>2, <4>3
    <3>6. CASE i # 1
      <4>1. i - 1 \in 1..n /\ i - 1 < i
        BY <1>0, <3>4, <3>6
      <4>2. Good(i - 1)
        BY <3>3, <4>1
      <4>3. f[i] = f[i - 1] \o seqs[i]
        BY <2>3, <3>4, <3>6
      <4>4. 1..i = (1..(i - 1)) \cup {i} /\ i \notin 1..(i - 1)
        BY <1>0, <3>4
      <4>5. CASE seqs[i] = << >>
        <5>1. Kept(i) = Kept(i - 1)
          BY <4>4, <4>5
        <5>2. f[i] = f[i - 1]
          BY <4>2, <4>3, <4>5
        <5> QED
          BY <3>4, <4>2, <5>1, <5>2
      <4>6. CASE seqs[i] # << >>
        <5>1. Kept(i) = Kept(i - 1) \cup {i} /\ i \notin Kept(i - 1)
          BY <4>4, <4>6
        <5>2. IsFiniteSet(Kept(i)) /\ Cardinality(Kept(i)) = Cardinality(Kept(i - 1)) + 1
          <6>1. IsFiniteSet(Kept(i - 1))
            BY <4>2
          <6> HIDE DEF Kept, Good, Bad
          <6>2. /\ IsFiniteSet(Kept(i - 1) \cup {i})
                /\ Cardinality(Kept(i - 1) \cup {i}) = Cardinality(Kept(i - 1)) + 1
            BY <5>1, <6>1, AddOne
          <6> QED
            BY <5>1, <6>2
        <5>3. f[i] \in Seq(S) /\ Len(f[i]) = Len(f[i - 1]) + 1
          <6>1. f[i - 1] \in Seq(S)
            BY <4>2
          <6>2. seqs[i] \in Seq(S) /\ Len(seqs[i]) = 1
            BY <3>a, <4>6
          <6>3. /\ f[i - 1] \o seqs[i] \in Seq(S)
                /\ Len(f[i - 1] \o seqs[i]) = Len(f[i - 1]) + 1
            BY <6>1, <6>2, ConcatOne, Zenon
          <6> QED
            BY <4>3, <6>3, Zenon
        <5> QED
          BY <3>4, <4>2, <5>2, <5>3
      <4> QED
        BY <4>5, <4>6
    <3> QED
      BY <3>5, <3>6
  <2>6. n \in 1..n
    BY <1>0, <1>2
  <2> QED
    BY <2>2, <2>5, <2>6
<1> QED
  BY <1>1, <1>2

-----------------------------------------------------------------------------
(* Sequences, whatever their elements.                                     *)

\* A function on 1..n is a sequence.
LEMMA FunctionIsSeq ==
  ASSUME NEW n \in Nat, NEW s, s = [i \in 1..n |-> s[i]]
  PROVE  IsSeq(s) /\ Len(s) = n /\ ToSet(s) = {s[i] : i \in 1..n}
<1>1. DOMAIN s = 1..n
  OBVIOUS
<1>2. ToSet(s) = {s[i] : i \in 1..n}
  BY <1>1 DEF ToSet
<1>3. s \in [1..n -> ToSet(s)]
  BY <1>1, <1>2
<1>4. s \in Seq(ToSet(s))
  BY <1>3, SeqDef
<1>5. Len(s) = n
  BY <1>1, <1>4, LenProperties
<1> QED
  BY <1>2, <1>4, <1>5 DEF IsSeq

\* ... and the other way around.
LEMMA SeqIsFunction ==
  ASSUME NEW s, IsSeq(s)
  PROVE  /\ Len(s) \in Nat
         /\ DOMAIN s = 1..Len(s)
         /\ ToSet(s) = {s[i] : i \in 1..Len(s)}
<1>1. s \in Seq(ToSet(s))
  BY DEF IsSeq
<1>2. Len(s) \in Nat /\ DOMAIN s = 1..Len(s)
  BY <1>1
<1> QED
  BY <1>2 DEF ToSet

\* Sequences of none and of one element.
LEMMA SmallSeqs ==
  ASSUME NEW x
  PROVE  /\ IsSeq(<< >>) /\ ToSet(<< >>) = {} /\ Len(<< >>) = 0
         /\ IsSeq(<<x>>) /\ ToSet(<<x>>) = {x} /\ Len(<<x>>) = 1 /\ <<x>> # << >>
<1>1. ToSet(<< >>) = {} /\ ToSet(<<x>>) = {x}
  BY DEF ToSet
<1> QED
  BY <1>1 DEF IsSeq

\* Flattening, whatever the sequences hold.
LEMMA FlattenAny ==
  ASSUME NEW n \in Nat, NEW seqs, seqs = [i \in 1..n |-> seqs[i]],
         \A i \in 1..n : IsSeq(seqs[i])
  PROVE  /\ IsSeq(FlattenSeq(seqs))
         /\ ToSet(FlattenSeq(seqs)) = UNION {ToSet(seqs[i]) : i \in 1..n}
         /\ (\A i \in 1..n : seqs[i] = << >> \/ Len(seqs[i]) = 1)
              => Len(FlattenSeq(seqs)) = Cardinality({i \in 1..n : seqs[i] # << >>})
<1> DEFINE S == UNION {ToSet(seqs[i]) : i \in 1..n}
<1>1. \A i \in 1..n : seqs[i] \in Seq(S)
  <2> TAKE i \in 1..n
  <2>1. seqs[i] \in Seq(ToSet(seqs[i]))
    BY DEF IsSeq
  <2>2. ToSet(seqs[i]) \subseteq S
    OBVIOUS
  <2> QED
    BY <2>1, <2>2, SeqMonotonic
<1> HIDE DEF S
<1>2. seqs \in [1..n -> Seq(S)]
  BY <1>1
<1>3. seqs \in Seq(Seq(S)) /\ Len(seqs) = n
  <2>1. seqs \in Seq(Seq(S))
    BY <1>2, SeqDef
  <2> QED
    BY <2>1, FunctionIsSeq
<1>4. FlattenSeq(seqs) \in Seq(S) /\ ToSet(FlattenSeq(seqs)) = S
  BY <1>3, FlattenElements DEF S
<1>5. ASSUME \A i \in 1..n : seqs[i] = << >> \/ Len(seqs[i]) = 1
      PROVE  Len(FlattenSeq(seqs)) = Cardinality({i \in 1..n : seqs[i] # << >>})
  BY <1>3, <1>5, FlattenLength, Zenon
<1> QED
  BY <1>4, <1>5 DEF S, IsSeq

\* An order in which an informer's cache lists a finite set of objects.
LEMMA ListingFacts ==
  ASSUME NEW X, IsFiniteSet(X), NEW s \in SetToSeqs(X)
  PROVE  /\ Len(s) \in Nat
         /\ s = [i \in 1..Len(s) |-> s[i]]
         /\ ToSet(s) = X
         /\ X = {s[i] : i \in 1..Len(s)}
         /\ \A i, j \in 1..Len(s) : s[i] = s[j] => i = j
<1> DEFINE n == Cardinality(X)
<1>1. n \in Nat
  BY FS_CardinalityType
<1>2. s \in [1..n -> X] /\ \A i, j \in 1..n : i # j => s[i] # s[j]
  BY DEF SetToSeqs
<1>3. s \in Injection(1..n, X)
  BY <1>2 DEF Injection, IsInjective
<1>4. Cardinality(1..n) = n /\ IsFiniteSet(1..n)
  BY <1>1, FS_Interval
<1>5. s \in Surjection(1..n, X)
  BY <1>3, <1>4, FS_Injection, Zenon
<1>6. X = {s[i] : i \in 1..n}
  BY <1>2, <1>5 DEF Surjection
<1>7. Len(s) = n /\ ToSet(s) = {s[i] : i \in 1..n}
  BY <1>1, <1>2, FunctionIsSeq
<1> QED
  BY <1>1, <1>2, <1>6, <1>7

-----------------------------------------------------------------------------
(* HaproxyAdaptor: what Build renders is what the reference asks for.      *)

Belongs(e, svc) == e.ns = svc.ns /\ e.name = svc.name

\* endpointsMap holds the service's Endpoints objects, whatever their order.
LEMMA EndpointsFound ==
  ASSUME NEW svc, NEW X, IsFiniteSet(X), NEW eps \in SetToSeqs(X)
  PROVE  /\ IsSeq(endpointsOf(svc, eps))
         /\ ToSet(endpointsOf(svc, eps)) = {e \in X : Belongs(e, svc)}
<1> DEFINE n == Len(eps)
           seqs == [i \in 1..n |-> IF Belongs(eps[i], svc) THEN <<eps[i]>> ELSE << >>]
<1>1. n \in Nat /\ X = {eps[i] : i \in 1..n}
  BY ListingFacts
<1>2. endpointsOf(svc, eps) = FlattenSeq(seqs)
  BY DEF endpointsOf, Belongs
<1>3. \A i \in 1..n : IsSeq(seqs[i]) /\ ToSet(seqs[i]) = {e \in {eps[i]} : Belongs(e, svc)}
  <2> TAKE i \in 1..n
  <2>1. CASE Belongs(eps[i], svc)
    BY <2>1, SmallSeqs
  <2>2. CASE ~ Belongs(eps[i], svc)
    BY <2>2, SmallSeqs
  <2> QED
    BY <2>1, <2>2
<1>4. seqs = [i \in 1..n |-> seqs[i]]
  OBVIOUS
<1> HIDE DEF seqs, n
<1>5. IsSeq(FlattenSeq(seqs)) /\ ToSet(FlattenSeq(seqs)) = UNION {ToSet(seqs[i]) : i \in 1..n}
  BY <1>1, <1>3, <1>4, FlattenAny
<1>6. UNION {ToSet(seqs[i]) : i \in 1..n} = {e \in X : Belongs(e, svc)}
  BY <1>1, <1>3
<1> QED
  BY <1>2, <1>5, <1>6

Pairs(s) == {[ip |-> a, port |-> p.port] : a \in ToSet(s.addrs), p \in ToSet(s.ports)}

\* The servers of one subset: every address with every port.
LEMMA SubsetServersFacts ==
  ASSUME NEW s, IsSeq(s.addrs), IsSeq(s.ports)
  PROVE  IsSeq(subsetServers(s)) /\ ToSet(subsetServers(s)) = Pairs(s)
<1> DEFINE k == Len(s.addrs)
           n == Len(s.ports)
           row(a) == [j \in 1..n |-> [ip |-> a, port |-> s.ports[j].port]]
           seqs == [i \in 1..k |-> row(s.addrs[i])]
<1>1. k \in Nat /\ n \in Nat
  BY SeqIsFunction
<1>2. ToSet(s.addrs) = {s.addrs[i] : i \in 1..k} /\ ToSet(s.ports) = {s.ports[j] : j \in 1..n}
  BY SeqIsFunction
<1>3. subsetServers(s) = FlattenSeq(seqs)
  BY DEF subsetServers
<1>4. \A a : IsSeq(row(a)) /\ ToSet(row(a)) = {[ip |-> a, port |-> p.port] : p \in ToSet(s.ports)}
  <2> TAKE a
  <2>1. row(a) = [j \in 1..n |-> row(a)[j]] /\ \A j \in 1..n : row(a)[j] = [ip |-> a, port |-> s.ports[j].port]
    OBVIOUS
  <2> HIDE DEF row
  <2>2. IsSeq(row(a)) /\ ToSet(row(a)) = {row(a)[j] : j \in 1..n}
    BY <1>1, <2>1, FunctionIsSeq
  <2>3. {row(a)[j] : j \in 1..n} = {[ip |-> a, port |-> s.ports[j].port] : j \in 1..n}
    BY <2>1
  <2>4. {[ip |-> a, port |-> s.ports[j].port] : j \in 1..n} = {[ip |-> a, port |-> p.port] : p \in ToSet(s.ports)}
    BY <1>2
  <2> QED
    BY <2>2, <2>3, <2>4
<1>5. seqs = [i \in 1..k |-> seqs[i]] /\ \A i \in 1..k : seqs[i] = row(s.addrs[i])
  OBVIOUS
<1> HIDE DEF seqs, row
<1>6. IsSeq(FlattenSeq(seqs)) /\ ToSet(FlattenSeq(seqs)) = UNION {ToSet(seqs[i]) : i \in 1..k}
  <2>1. \A i \in 1..k : IsSeq(seqs[i])
    BY <1>4, <1>5
  <2> QED
    BY <1>1, <1>5, <2>1, FlattenAny
<1>7. UNION {ToSet(seqs[i]) : i \in 1..k} = Pairs(s)
  <2>1. \A i \in 1..k : ToSet(seqs[i]) = {[ip |-> s.addrs[i], port |-> p.port] : p \in ToSet(s.ports)}
    BY <1>4, <1>5
  <2>2. UNION {ToSet(seqs[i]) : i \in 1..k}
          = UNION {{[ip |-> s.addrs[i], port |-> p.port] : p \in ToSet(s.ports)} : i \in 1..k}
    BY <2>1
  <2>3. @ = UNION {{[ip |-> a, port |-> p.port] : p \in ToSet(s.ports)} : a \in ToSet(s.addrs)}
    BY <1>2
  <2>4. @ = Pairs(s)
    BY DEF Pairs
  <2> QED
    BY <2>2, <2>3, <2>4
<1> QED
  BY <1>3, <1>6, <1>7

HasSeqs(e) ==
    /\ IsSeq(e.subsets)
    /\ \A j \in DOMAIN e.subsets : IsSeq(e.subsets[j].addrs) /\ IsSeq(e.subsets[j].ports)

ObjectServers(e) == FlattenSeq([j \in 1..Len(e.subsets) |-> subsetServers(e.subsets[j])])

\* The servers of one Endpoints object, over all its subsets.
LEMMA ObjectServersFacts ==
  ASSUME NEW e, HasSeqs(e)
  PROVE  /\ IsSeq(ObjectServers(e))
         /\ ToSet(ObjectServers(e)) = UNION {Pairs(e.subsets[j]) : j \in DOMAIN e.subsets}
<1> DEFINE n == Len(e.subsets)
           seqs == [j \in 1..n |-> subsetServers(e.subsets[j])]
<1>1. n \in Nat /\ DOMAIN e.subsets = 1..n
  BY SeqIsFunction DEF HasSeqs
<1>2. \A j \in 1..n : IsSeq(subsetServers(e.subsets[j])) /\ ToSet(subsetServers(e.subsets[j])) = Pairs(e.subsets[j])
  BY <1>1, SubsetServersFacts DEF HasSeqs
<1>3. ObjectServers(e) = FlattenSeq(seqs)
  BY DEF ObjectServers
<1>4. seqs = [j \in 1..n |-> seqs[j]] /\ \A j \in 1..n : seqs[j] = subsetServers(e.subsets[j])
  OBVIOUS
<1> HIDE DEF seqs, n
<1>5. \A j \in 1..n : IsSeq(seqs[j]) /\ ToSet(seqs[j]) = Pairs(e.subsets[j])
  BY <1>2, <1>4
<1>6. IsSeq(FlattenSeq(seqs)) /\ ToSet(FlattenSeq(seqs)) = UNION {ToSet(seqs[j]) : j \in 1..n}
  BY <1>1, <1>4, <1>5, FlattenAny
<1>7. UNION {ToSet(seqs[j]) : j \in 1..n} = UNION {Pairs(e.subsets[j]) : j \in 1..n}
  BY <1>5
<1> QED
  BY <1>1, <1>3, <1>6, <1>7

\* Where the servers of one subset are.
Ends(sub) == {<<a, q.port>> : a \in ToSet(sub.addrs), q \in ToSet(sub.ports)}

\* A server's address and port, without its name.
LEMMA PairEnds ==
  ASSUME NEW sub
  PROVE  {<<x.ip, x.port>> : x \in Pairs(sub)} = Ends(sub)
<1>1. ASSUME NEW x \in Pairs(sub) PROVE <<x.ip, x.port>> \in Ends(sub)
  <2>1. PICK a \in ToSet(sub.addrs), q \in ToSet(sub.ports) : x = [ip |-> a, port |-> q.port]
    BY DEF Pairs
  <2>2. <<a, q.port>> \in Ends(sub)
    BY DEF Ends
  <2> QED
    BY <2>1, <2>2
<1>2. ASSUME NEW t \in Ends(sub) PROVE \E x \in Pairs(sub) : t = <<x.ip, x.port>>
  <2>1. PICK a \in ToSet(sub.addrs), q \in ToSet(sub.ports) : t = <<a, q.port>>
    BY DEF Ends
  <2>2. [ip |-> a, port |-> q.port] \in Pairs(sub)
    BY DEF Pairs
  <2> QED
    BY <2>1, <2>2
<1> QED
  BY <1>1, <1>2

\* The subsets of a service's endpoints.
LEMMA SubsetsFound ==
  ASSUME NEW in, NEW svc
  PROVE  /\ \A sub : sub \in SubsetsOf(in, svc) <=>
               \E e \in in.eps : Belongs(e, svc) /\ \E j \in DOMAIN e.subsets : sub = e.subsets[j]
         /\ SubsetsOf(in, svc) # {} => HasEndpoints(in, svc)
<1>1. \A e \in in.eps : ToSet(e.subsets) = {e.subsets[j] : j \in DOMAIN e.subsets}
  BY DEF ToSet
<1>2. \A sub : sub \in SubsetsOf(in, svc) <=>
        \E e \in in.eps : Belongs(e, svc) /\ \E j \in DOMAIN e.subsets : sub = e.subsets[j]
  BY <1>1 DEF SubsetsOf, Belongs
<1> QED
  BY <1>2 DEF HasEndpoints, Belongs

\* A backend's servers: every address of every subset with every port number.
AllServers(in, svc) == UNION {Ends(sub) : sub \in SubsetsOf(in, svc)}

\* The servers of a backend are these, and no two have one name.
LEMMA ServersFacts ==
  ASSUME NEW svc, NEW in, WellFormed(in), NEW eps \in SetToSeqs(in.eps)
  PROVE  /\ {<<s.ip, s.port>> : s \in ToSet(servers(svc, eps))} = AllServers(in, svc)
         /\ \A i, j \in DOMAIN servers(svc, eps) :
              servers(svc, eps)[i].name = servers(svc, eps)[j].name => i = j
<1> DEFINE found == endpointsOf(svc, eps)
           n == Len(found)
           seqs == [i \in 1..n |-> ObjectServers(found[i])]
           flat == FlattenSeq(seqs)
           named == [i \in 1..Len(flat) |->
                       [name |-> <<svc.name, i - 1>>, ip |-> flat[i].ip, port |-> flat[i].port]]
           mine == {e \in in.eps : Belongs(e, svc)}
           All == UNION {UNION {Pairs(e.subsets[j]) : j \in DOMAIN e.subsets} : e \in mine}
<1>1. servers(svc, eps) = named
  BY DEF servers, ObjectServers
<1>2. IsFiniteSet(in.eps) /\ \A e \in in.eps : HasSeqs(e)
  BY DEF WellFormed, HasSeqs
<1>3. IsSeq(found) /\ ToSet(found) = mine
  BY <1>2, EndpointsFound
<1>4. n \in Nat /\ mine = {found[i] : i \in 1..n}
  BY <1>3, SeqIsFunction
<1>5. seqs = [i \in 1..n |-> seqs[i]] /\ \A i \in 1..n : seqs[i] = ObjectServers(found[i])
  OBVIOUS
<1>6. \A e \in mine : /\ IsSeq(ObjectServers(e))
                      /\ ToSet(ObjectServers(e)) = UNION {Pairs(e.subsets[j]) : j \in DOMAIN e.subsets}
  BY <1>2, ObjectServersFacts
<1>7. \A i \in 1..n : found[i] \in mine
  BY <1>4
<1>8. IsSeq(flat) /\ ToSet(flat) = All
  <2> HIDE DEF found, n, seqs, mine
  <2>1. \A i \in 1..n : IsSeq(seqs[i])
    BY <1>5, <1>6, <1>7
  <2>2. IsSeq(flat) /\ ToSet(flat) = UNION {ToSet(seqs[i]) : i \in 1..n}
    BY <1>4, <1>5, <2>1, FlattenAny
  <2>3. UNION {ToSet(seqs[i]) : i \in 1..n} = UNION {ToSet(ObjectServers(found[i])) : i \in 1..n}
    BY <1>5
  <2>4. @ = UNION {ToSet(ObjectServers(e)) : e \in mine}
    BY <1>4
  <2>5. @ = All
    BY <1>6
  <2> QED
    BY <2>2, <2>3, <2>4, <2>5
<1>9. Len(flat) \in Nat /\ ToSet(flat) = {flat[i] : i \in 1..Len(flat)}
  BY <1>8, SeqIsFunction
<1>10. DOMAIN named = 1..Len(flat)
       /\ \A i \in 1..Len(flat) : named[i] = [name |-> <<svc.name, i - 1>>, ip |-> flat[i].ip, port |-> flat[i].port]
  OBVIOUS
<1> HIDE DEF named, flat
<1>11. ToSet(named) = {named[i] : i \in 1..Len(flat)}
  BY <1>10 DEF ToSet
<1>12. {<<s.ip, s.port>> : s \in ToSet(named)} = {<<s.ip, s.port>> : s \in ToSet(flat)}
  <2>1. {<<s.ip, s.port>> : s \in ToSet(named)} = {<<named[i].ip, named[i].port>> : i \in 1..Len(flat)}
    BY <1>11
  <2>2. @ = {<<flat[i].ip, flat[i].port>> : i \in 1..Len(flat)}
    BY <1>10
  <2>3. @ = {<<s.ip, s.port>> : s \in ToSet(flat)}
    BY <1>9
  <2> QED
    BY <2>1, <2>2, <2>3
<1>13. {<<s.ip, s.port>> : s \in All} = AllServers(in, svc)
  <2>1. All = UNION {Pairs(sub) : sub \in SubsetsOf(in, svc)}
    <3> HIDE DEF found
    <3> QED
      BY SubsetsFound
  <2>2. \A sub : {<<x.ip, x.port>> : x \in Pairs(sub)} = Ends(sub)
    BY PairEnds
  <2> HIDE DEF All
  <2>3. {<<x.ip, x.port>> : x \in All} = UNION {{<<x.ip, x.port>> : x \in Pairs(sub)} : sub \in SubsetsOf(in, svc)}
    BY <2>1
  <2>4. @ = UNION {Ends(sub) : sub \in SubsetsOf(in, svc)}
    BY <2>2
  <2> QED
    BY <2>3, <2>4 DEF AllServers
<1>14. \A i, j \in DOMAIN named : named[i].name = named[j].name => i = j
  BY <1>9, <1>10
<1> HIDE DEF All
<1> QED
  BY <1>1, <1>8, <1>12, <1>13, <1>14

\* A service is rendered if and only if it has an Endpoints object.
LEMMA RenderedIfServed ==
  ASSUME NEW svc, NEW in, WellFormed(in), NEW eps \in SetToSeqs(in.eps)
  PROVE  endpointsOf(svc, eps) # << >> <=> HasEndpoints(in, svc)
<1> DEFINE found == endpointsOf(svc, eps)
<1>1. IsSeq(found) /\ ToSet(found) = {e \in in.eps : Belongs(e, svc)}
  BY EndpointsFound DEF WellFormed
<1>2. HasEndpoints(in, svc) <=> ToSet(found) # {}
  BY <1>1 DEF HasEndpoints, Belongs
<1>3. found \in Seq(ToSet(found))
  BY <1>1 DEF IsSeq
<1> HIDE DEF found
<1>4. found # << >> => ToSet(found) # {}
  <2> SUFFICES ASSUME found # << >> PROVE ToSet(found) # {}
    OBVIOUS
  <2>1. Len(found) \in Nat \ {0}
    BY <1>3, EmptySeq
  <2>2. found[1] \in ToSet(found)
    BY <1>3, <2>1, ElementOfSeq
  <2> QED
    BY <2>2
<1>5. found = << >> => ToSet(found) = {}
  BY SmallSeqs
<1> QED
  BY <1>2, <1>4, <1>5 DEF found

\* The sections after the header: one for each service with Endpoints.
LEMMA SectionsFacts ==
  ASSUME NEW in, WellFormed(in), NEW s \in SetToSeqs(in.svcs), NEW eps \in SetToSeqs(in.eps)
  PROVE  LET served == {svc \in in.svcs : HasEndpoints(in, svc)}
         IN  /\ IsSeq(sections(s, eps))
             /\ IsFiniteSet(served)
             /\ Len(sections(s, eps)) = Cardinality(served)
             /\ ToSet(sections(s, eps)) = {section(svc, eps) : svc \in served}
<1> DEFINE served == {svc \in in.svcs : HasEndpoints(in, svc)}
           n == Len(s)
           seqs == [i \in 1..n |-> IF endpointsOf(s[i], eps) = << >> THEN << >> ELSE <<section(s[i], eps)>>]
           kept == {i \in 1..n : seqs[i] # << >>}
<1>1. IsFiniteSet(in.svcs)
  BY DEF WellFormed
<1>2. /\ n \in Nat
      /\ in.svcs = {s[i] : i \in 1..n}
      /\ \A i, j \in 1..n : s[i] = s[j] => i = j
  BY <1>1, ListingFacts
<1>3. sections(s, eps) = FlattenSeq(seqs)
  BY DEF sections
<1>4. \A i \in 1..n : /\ HasEndpoints(in, s[i]) => seqs[i] = <<section(s[i], eps)>>
                      /\ ~ HasEndpoints(in, s[i]) => seqs[i] = << >>
  BY RenderedIfServed
<1>5. seqs = [i \in 1..n |-> seqs[i]]
  OBVIOUS
<1> HIDE DEF seqs, n
<1>6. \A i \in 1..n : /\ IsSeq(seqs[i])
                      /\ seqs[i] = << >> \/ Len(seqs[i]) = 1
                      /\ seqs[i] # << >> <=> HasEndpoints(in, s[i])
                      /\ ToSet(seqs[i]) = {section(svc, eps) : svc \in {x \in {s[i]} : HasEndpoints(in, x)}}
  <2> TAKE i \in 1..n
  <2>1. CASE HasEndpoints(in, s[i])
    <3>1. seqs[i] = <<section(s[i], eps)>>
      BY <1>4, <2>1
    <3>2. {section(svc, eps) : svc \in {x \in {s[i]} : HasEndpoints(in, x)}} = {section(s[i], eps)}
      BY <2>1
    <3> QED
      BY <2>1, <3>1, <3>2, SmallSeqs
  <2>2. CASE ~ HasEndpoints(in, s[i])
    BY <1>4, <2>2, SmallSeqs
  <2> QED
    BY <2>1, <2>2
<1>7. /\ IsSeq(FlattenSeq(seqs))
      /\ ToSet(FlattenSeq(seqs)) = UNION {ToSet(seqs[i]) : i \in 1..n}
      /\ Len(FlattenSeq(seqs)) = Cardinality(kept)
  <2>1. (\A i \in 1..n : IsSeq(seqs[i])) /\ \A i \in 1..n : seqs[i] = << >> \/ Len(seqs[i]) = 1
    BY <1>6
  <2>2. /\ IsSeq(FlattenSeq(seqs))
        /\ ToSet(FlattenSeq(seqs)) = UNION {ToSet(seqs[i]) : i \in 1..n}
        /\ (\A i \in 1..n : seqs[i] = << >> \/ Len(seqs[i]) = 1)
              => Len(FlattenSeq(seqs)) = Cardinality({i \in 1..n : seqs[i] # << >>})
    BY <1>2, <1>5, <2>1, FlattenAny, Zenon
  <2> QED
    BY <2>1, <2>2, Zenon
<1>8. UNION {ToSet(seqs[i]) : i \in 1..n} = {section(svc, eps) : svc \in served}
  <2>1. \A i \in 1..n : \A c : c \in ToSet(seqs[i]) <=> HasEndpoints(in, s[i]) /\ c = section(s[i], eps)
    BY <1>6
  <2> QED
    BY <1>2, <2>1
<1>9. kept = {i \in 1..n : s[i] \in served} /\ \A svc \in served : \E i \in kept : s[i] = svc
  BY <1>2, <1>6
<1>10. IsFiniteSet(kept)
  <2>1. IsFiniteSet(1..n) /\ kept \subseteq 1..n
    BY <1>2, FS_Interval
  <2> QED
    BY <2>1, FS_Subset
<1>11. IsFiniteSet(served) /\ Cardinality(served) = Cardinality(kept)
  <2> DEFINE f == [i \in kept |-> s[i]]
  <2> HIDE DEF kept, served
  <2>1. f \in [kept -> served] /\ \A i \in kept : f[i] = s[i]
    BY <1>9
  <2>2. f \in Surjection(kept, served)
    BY <1>9, <2>1 DEF Surjection
  <2>3. kept \subseteq 1..n
    BY <1>9
  <2>4. f \in Injection(kept, served)
    BY <1>2, <2>1, <2>3 DEF Injection, IsInjective
  <2>5. ExistsBijection(kept, served)
    BY <2>2, <2>4, Zenon DEF ExistsBijection, Bijection
  <2> QED
    BY <1>10, <2>5, FS_Bijection
<1> QED
  BY <1>3, <1>7, <1>8, <1>11

\* The whole configuration: the header's section and these.
LEMMA ConfFacts ==
  ASSUME NEW in, WellFormed(in), NEW s \in SetToSeqs(in.svcs), NEW eps \in SetToSeqs(in.eps)
  PROVE  LET served == {svc \in in.svcs : HasEndpoints(in, svc)}
         IN  /\ IsSeq(Conf(s, eps))
             /\ IsFiniteSet(served)
             /\ Len(Conf(s, eps)) = Cardinality(served) + 1
             /\ ToSet(Conf(s, eps)) = {header} \cup {section(svc, eps) : svc \in served}
<1> DEFINE served == {svc \in in.svcs : HasEndpoints(in, svc)}
           rest == sections(s, eps)
           S == {header} \cup ToSet(rest)
<1>1. /\ IsSeq(rest)
      /\ IsFiniteSet(served)
      /\ Len(rest) = Cardinality(served)
      /\ ToSet(rest) = {section(svc, eps) : svc \in served}
  BY SectionsFacts
<1>2. Cardinality(served) \in Nat
  BY <1>1, FS_CardinalityType
<1>3. Conf(s, eps) = <<header>> \o rest
  BY DEF Conf
<1> HIDE DEF rest, served
<1>4. rest \in Seq(S) /\ <<header>> \in Seq(S)
  <2>1. rest \in Seq(ToSet(rest))
    BY <1>1 DEF IsSeq
  <2>2. rest \in Seq(S)
    BY <2>1, SeqMonotonic
  <2> QED
    BY <2>2
<1> HIDE DEF S
<1>5. <<header>> \o rest \in Seq(S) /\ ToSet(<<header>> \o rest) = {header} \cup ToSet(rest)
  <2>1. ToSet(<<header>>) = {header}
    BY SmallSeqs
  <2>2. <<header>> \o rest \in Seq(S) /\ ToSet(<<header>> \o rest) = ToSet(<<header>>) \cup ToSet(rest)
    BY <1>4, ToSetConcat
  <2> QED
    BY <2>1, <2>2
<1>6. Len(<<header>> \o rest) = 1 + Len(rest)
  <2>1. Len(<<header>>) = 1
    BY SmallSeqs
  <2>2. Len(<<header>> \o rest) = Len(<<header>>) + Len(rest)
    BY <1>4, ConcatProperties
  <2> QED
    BY <2>1, <2>2
<1>7. Len(<<header>> \o rest) = Cardinality(served) + 1
  BY <1>1, <1>2, <1>6
<1>8. IsSeq(<<header>> \o rest)
  BY <1>5 DEF IsSeq, S
<1> QED
  BY <1>1, <1>3, <1>5, <1>7, <1>8 DEF served

\* A number in the text for each port of the service.
LEMMA SectionBinds ==
  ASSUME NEW svc, IsSeq(svc.ports), NEW eps
  PROVE  /\ section(svc, eps).name = svc.name
         /\ section(svc, eps).servers = servers(svc, eps)
         /\ ToSet(section(svc, eps).binds) = {p.port : p \in ToSet(svc.ports)}
<1> DEFINE n == Len(svc.ports)
           binds == [i \in 1..n |-> svc.ports[i].port]
<1>1. n \in Nat /\ ToSet(svc.ports) = {svc.ports[i] : i \in 1..n}
  BY SeqIsFunction
<1>2. ToSet(binds) = {svc.ports[i].port : i \in 1..n}
  <2>1. binds = [i \in 1..n |-> binds[i]] /\ \A i \in 1..n : binds[i] = svc.ports[i].port
    OBVIOUS
  <2> HIDE DEF binds
  <2>2. ToSet(binds) = {binds[i] : i \in 1..n}
    BY <1>1, <2>1, FunctionIsSeq
  <2> QED
    BY <2>1, <2>2
<1>3. @ = {p.port : p \in ToSet(svc.ports)}
  BY <1>1
<1>4. section(svc, eps) = [name |-> svc.name, binds |-> binds, servers |-> servers(svc, eps)]
  BY DEF section
<1> HIDE DEF binds
<1> QED
  BY <1>2, <1>3, <1>4

\* A connection that the configuration makes possible.
Possible(in, svc, sub, p, q, a, r) ==
    /\ svc \in in.svcs /\ sub \in SubsetsOf(in, svc)
    /\ p \in ToSet(svc.ports) /\ q \in ToSet(sub.ports) /\ a \in ToSet(sub.addrs)
    /\ r = <<svc.name, p.port, a, q.port>>

\* Every port of a service leads to every endpoint port of the service.
LEMMA ConfRoutes ==
  ASSUME NEW in, WellFormed(in), NEW s \in SetToSeqs(in.svcs), NEW eps \in SetToSeqs(in.eps), NEW r
  PROVE  r \in Routes(Conf(s, eps)) <=> \E svc, sub, p, q, a : Possible(in, svc, sub, p, q, a, r)
<1> DEFINE served == {svc \in in.svcs : HasEndpoints(in, svc)}
           Of(c) == {<<c.name, b, x.ip, x.port>> : b \in ToSet(c.binds), x \in ToSet(c.servers)}
<1>1. ToSet(Conf(s, eps)) = {header} \cup {section(svc, eps) : svc \in served}
  BY ConfFacts
<1>2. Of(header) = {}
  BY SmallSeqs DEF header
<1>3. r \in Routes(Conf(s, eps)) <=> \E svc \in served : r \in Of(section(svc, eps))
  <2>1. Routes(Conf(s, eps)) = UNION {Of(c) : c \in ToSet(Conf(s, eps))}
    BY DEF Routes
  <2> HIDE DEF Of, served
  <2> QED
    BY <1>1, <1>2, <2>1
<1>4. ASSUME NEW svc \in served
      PROVE  r \in Of(section(svc, eps)) <=> \E sub, p, q, a : Possible(in, svc, sub, p, q, a, r)
  <2>1. /\ section(svc, eps).name = svc.name
        /\ section(svc, eps).servers = servers(svc, eps)
        /\ ToSet(section(svc, eps).binds) = {p.port : p \in ToSet(svc.ports)}
    BY SectionBinds DEF WellFormed
  <2>2. {<<x.ip, x.port>> : x \in ToSet(servers(svc, eps))} = AllServers(in, svc)
    BY ServersFacts
  <2>3. ASSUME r \in Of(section(svc, eps)) PROVE \E sub, p, q, a : Possible(in, svc, sub, p, q, a, r)
    <3>1. PICK p \in ToSet(svc.ports), x \in ToSet(servers(svc, eps)) : r = <<svc.name, p.port, x.ip, x.port>>
      BY <2>1, <2>3
    <3>2. <<x.ip, x.port>> \in AllServers(in, svc)
      BY <2>2
    <3>3. PICK sub \in SubsetsOf(in, svc) : <<x.ip, x.port>> \in Ends(sub)
      BY <3>2 DEF AllServers
    <3>4. PICK a \in ToSet(sub.addrs), q \in ToSet(sub.ports) : <<x.ip, x.port>> = <<a, q.port>>
      BY <3>3 DEF Ends
    <3>5. r = <<svc.name, p.port, a, q.port>>
      BY <3>1, <3>4
    <3> QED
      BY <3>5 DEF Possible
  <2>4. ASSUME NEW sub, NEW p, NEW q, NEW a, Possible(in, svc, sub, p, q, a, r) PROVE r \in Of(section(svc, eps))
    <3>1. <<a, q.port>> \in Ends(sub)
      BY <2>4 DEF Possible, Ends
    <3>2. <<a, q.port>> \in AllServers(in, svc)
      BY <2>4, <3>1 DEF Possible, AllServers
    <3>3. PICK x \in ToSet(servers(svc, eps)) : <<a, q.port>> = <<x.ip, x.port>>
      BY <2>2, <3>2
    <3>4. r = <<svc.name, p.port, x.ip, x.port>> /\ p.port \in ToSet(section(svc, eps).binds)
      BY <2>1, <2>4, <3>3 DEF Possible
    <3> QED
      BY <2>1, <3>4
  <2> HIDE DEF Of
  <2> QED
    BY <2>3, <2>4
<1>5. ASSUME NEW svc, NEW sub, NEW p, NEW q, NEW a, Possible(in, svc, sub, p, q, a, r) PROVE svc \in served
  BY <1>5, SubsetsFound DEF Possible
<1> HIDE DEF served, Of
<1> QED
  BY <1>3, <1>4, <1>5

\* The reference asks for those whose ports have one name.
LEMMA NamedRoutesFacts ==
  ASSUME NEW in, NEW r
  PROVE  r \in ReferenceRoutes(in) <=>
           \E svc, sub, p, q, a : Possible(in, svc, sub, p, q, a, r) /\ p.name = q.name
<1>1. r \in ReferenceRoutes(in) <=> \E svc \in in.svcs : \E sub \in SubsetsOf(in, svc) : r \in NamedRoutes(svc, sub)
  BY DEF ReferenceRoutes
<1>2. ASSUME NEW svc, NEW sub
      PROVE  r \in NamedRoutes(svc, sub) <=>
               \E p \in ToSet(svc.ports), q \in ToSet(sub.ports), a \in ToSet(sub.addrs) :
                  p.name = q.name /\ r = <<svc.name, p.port, a, q.port>>
  <2> DEFINE M == {x \in ToSet(svc.ports) \X ToSet(sub.ports) : x[1].name = x[2].name}
  <2>1. r \in NamedRoutes(svc, sub) <=>
          \E m \in M, a \in ToSet(sub.addrs) : r = <<svc.name, m[1].port, a, m[2].port>>
    BY DEF NamedRoutes
  <2>2. \A p, q : <<p, q>> \in M <=> p \in ToSet(svc.ports) /\ q \in ToSet(sub.ports) /\ p.name = q.name
    OBVIOUS
  <2>3. \A m \in M : m = <<m[1], m[2]>>
    OBVIOUS
  <2>4. \A p, q : <<p, q>>[1] = p /\ <<p, q>>[2] = q
    OBVIOUS
  <2> HIDE DEF M
  <2>5. ASSUME NEW m \in M, NEW a \in ToSet(sub.addrs), r = <<svc.name, m[1].port, a, m[2].port>>
        PROVE  \E p \in ToSet(svc.ports), q \in ToSet(sub.ports), b \in ToSet(sub.addrs) :
                  p.name = q.name /\ r = <<svc.name, p.port, b, q.port>>
    <3>1. m[1] \in ToSet(svc.ports) /\ m[2] \in ToSet(sub.ports) /\ m[1].name = m[2].name
      BY <2>2, <2>3
    <3> QED
      BY <2>5, <3>1
  <2>6. ASSUME NEW p \in ToSet(svc.ports), NEW q \in ToSet(sub.ports), NEW a \in ToSet(sub.addrs),
               p.name = q.name, r = <<svc.name, p.port, a, q.port>>
        PROVE  \E m \in M, b \in ToSet(sub.addrs) : r = <<svc.name, m[1].port, b, m[2].port>>
    <3>1. <<p, q>> \in M
      BY <2>2, <2>6
    <3>2. r = <<svc.name, <<p, q>>[1].port, a, <<p, q>>[2].port>>
      BY <2>4, <2>6
    <3> QED
      BY <3>1, <3>2
  <2> QED
    BY <2>1, <2>5, <2>6
<1> QED
  BY <1>1, <1>2 DEF Possible

\* What Build renders matches the reference, in whatever order the services
\* and the Endpoints objects are listed.
LEMMA ConfMatches ==
  ASSUME NEW in, WellFormed(in), NEW s \in SetToSeqs(in.svcs), NEW eps \in SetToSeqs(in.eps)
  PROVE  MatchesReference(Conf(s, eps), in)
<1> DEFINE served == {svc \in in.svcs : HasEndpoints(in, svc)}
           conf == Conf(s, eps)
<1>1. Len(conf) = Cardinality(served) + 1 /\ ToSet(conf) = {header} \cup {section(svc, eps) : svc \in served}
  BY ConfFacts
<1>2. {c.name : c \in ToSet(conf)} = {svc.name : svc \in served} \cup {"stats"}
  <2>1. header.name = "stats" /\ \A svc \in served : section(svc, eps).name = svc.name
    BY DEF header, section
  <2> HIDE DEF served, conf
  <2> QED
    BY <1>1, <2>1
<1>3. \A r : r \in Routes(conf) <=> \E svc, sub, p, q, a : Possible(in, svc, sub, p, q, a, r)
  BY ConfRoutes
<1>4. \A r : r \in ReferenceRoutes(in) <=>
        \E svc, sub, p, q, a : Possible(in, svc, sub, p, q, a, r) /\ p.name = q.name
  BY NamedRoutesFacts
<1> HIDE DEF conf, served
<1>5. ReferenceRoutes(in) \subseteq Routes(conf)
  BY <1>3, <1>4
<1>6. ASSUME NEW r \in Routes(conf) PROVE OwnAddress(in, r)
  <2>1. PICK svc, sub, p, q, a : Possible(in, svc, sub, p, q, a, r)
    BY <1>3
  <2> QED
    BY <2>1 DEF Possible, OwnAddress
<1>7. ASSUME OnePort(in) PROVE Routes(conf) = ReferenceRoutes(in)
  <2>1. \A svc, sub, p, q, a, r : Possible(in, svc, sub, p, q, a, r) => p.name = q.name
    BY <1>7 DEF OnePort, Possible
  <2>2. Routes(conf) \subseteq ReferenceRoutes(in)
    BY <1>3, <1>4, <2>1
  <2> QED
    BY <1>5, <2>2
<1> QED
  BY <1>1, <1>2, <1>5, <1>6, <1>7 DEF MatchesReference, conf, served

\* Services whose names differ from each other and from the header's give a
\* configuration that haproxy accepts.
LEMMA ConfAccepted ==
  ASSUME NEW in, WellFormed(in), DistinctNames(in),
         NEW s \in SetToSeqs(in.svcs), NEW eps \in SetToSeqs(in.eps)
  PROVE  Accepts(Conf(s, eps))
<1> DEFINE served == {svc \in in.svcs : HasEndpoints(in, svc)}
           conf == Conf(s, eps)
           n == Len(conf)
           names == {svc.name : svc \in served} \cup {header.name}
<1>1. /\ IsSeq(conf)
      /\ IsFiniteSet(served)
      /\ n = Cardinality(served) + 1
      /\ ToSet(conf) = {header} \cup {section(svc, eps) : svc \in served}
  BY ConfFacts
<1>2. n \in Nat /\ DOMAIN conf = 1..n /\ ToSet(conf) = {conf[i] : i \in 1..n}
  BY <1>1, SeqIsFunction
<1>3. \A svc : section(svc, eps).name = svc.name /\ section(svc, eps).servers = servers(svc, eps)
  BY DEF section
<1>4. /\ \A s1, s2 \in served : s1.name = s2.name => s1 = s2
      /\ header.name \notin {svc.name : svc \in served}
  BY DEF DistinctNames
<1>5. \A c \in ToSet(conf) : \A i, j \in DOMAIN c.servers : c.servers[i].name = c.servers[j].name => i = j
  <2>1. DOMAIN header.servers = {}
    BY DEF header
  <2>2. ASSUME NEW svc \in served
        PROVE  \A i, j \in DOMAIN servers(svc, eps) :
                 servers(svc, eps)[i].name = servers(svc, eps)[j].name => i = j
    BY ServersFacts
  <2> HIDE DEF conf, served
  <2> QED
    BY <1>1, <1>3, <2>1, <2>2
<1> HIDE DEF served, conf
<1>6. Cardinality(names) = n
  <2> DEFINE own == {svc.name : svc \in served}
             f == [svc \in served |-> svc.name]
  <2>1. f \in [served -> own] /\ \A svc \in served : f[svc] = svc.name
    OBVIOUS
  <2>2. f \in Surjection(served, own)
    BY <2>1 DEF Surjection
  <2>3. f \in Injection(served, own)
    BY <1>4, <2>1 DEF Injection, IsInjective
  <2>4. ExistsBijection(served, own)
    BY <2>2, <2>3, Zenon DEF ExistsBijection, Bijection
  <2>5. IsFiniteSet(own) /\ Cardinality(own) = Cardinality(served)
    BY <1>1, <2>4, FS_Bijection
  <2> HIDE DEF own
  <2>6. Cardinality(own \cup {header.name}) = Cardinality(own) + 1
    BY <1>4, <2>5, AddOne DEF own
  <2> QED
    BY <1>1, <2>5, <2>6 DEF own
<1>7. \A i, j \in 1..n : conf[i].name = conf[j].name => i = j
  <2> DEFINE f == [i \in 1..n |-> conf[i].name]
  <2>1. \A i \in 1..n : conf[i] \in ToSet(conf)
    BY <1>2
  <2>2. f \in [1..n -> names] /\ \A i \in 1..n : f[i] = conf[i].name
    BY <1>1, <1>3, <2>1
  <2>3. \A x \in names : \E i \in 1..n : f[i] = x
    <3> TAKE x \in names
    <3>1. \E c \in ToSet(conf) : c.name = x
      BY <1>1, <1>3
    <3> QED
      BY <1>2, <2>2, <3>1
  <2> HIDE DEF f, names, n
  <2>4. f \in Surjection(1..n, names)
    BY <2>2, <2>3 DEF Surjection
  <2>5. IsFiniteSet(1..n) /\ Cardinality(1..n) = n
    BY <1>2, FS_Interval
  <2>6. f \in Injection(1..n, names)
    BY <1>6, <2>4, <2>5, FS_SurjSameCardinalityImpliesInj
  <2> QED
    BY <2>2, <2>6 DEF Injection, IsInjective
<1> QED
  BY <1>2, <1>5, <1>7 DEF Accepts, conf

-----------------------------------------------------------------------------
(* The system: from the lists to the processes.                            *)

\* What waits in the send on ConfigChan, and else what Run took up last, was
\* rendered from the input that Build was last called with.
SentRendered ==
    /\ feed \in Seq(Inputs) /\ feed # << >>
    /\ offer # None => sent \in Inputs /\ offer \in Renderings[sent]
    /\ offer = None /\ lastConf # None => sent \in Inputs /\ lastConf \in Renderings[sent]

SystemInv == HaproxyInv /\ SentRendered

\* Every step of the system is one of Haproxy, or leaves it alone.
LEMMA SystemSteps == SystemNext \/ UNCHANGED systemVars => [Next]_vars
BY DEF SystemNext, systemVars, Build, Change, Next

\* The system starts with nothing sent.
LEMMA SystemInitInv == SystemInit => SystemInv
<1> SUFFICES ASSUME SystemInit PROVE SentRendered
  BY InitInv DEF SystemInit, SystemInv
<1>1. IsSeq(feed) /\ feed # << >> /\ ToSet(feed) \subseteq Inputs
  BY SystemAssumption DEF SystemInit, Inputs
<1>2. feed \in Seq(Inputs)
  BY <1>1, SeqMonotonic DEF IsSeq
<1> QED
  BY <1>1, <1>2 DEF SystemInit, Init, SentRendered

\* The invariant is inductive: Run takes up what was sent or already has it.
LEMMA SystemNextInv == SystemInv /\ [SystemNext]_systemVars => SystemInv'
<1> SUFFICES ASSUME SystemInv, [SystemNext]_systemVars PROVE SentRendered'
  BY SystemSteps, NextInv DEF SystemInv
<1>1. CASE Build
  <2>1. Head(feed) \in Inputs
    BY DEF SystemInv, SentRendered
  <2>2. offer' \in Confs /\ None \notin Confs
    BY <1>1, ConstantFacts DEF Build, Send
  <2> QED
    BY <1>1, <2>1, <2>2 DEF Build, SystemInv, SentRendered
<1>2. CASE Change
  <2>1. feed' \in Seq(Inputs) /\ feed' # << >>
    <3>1. feed \in Seq(Inputs) /\ feed # << >> /\ Len(feed) > 1 /\ feed' = Tail(feed)
      BY <1>2 DEF Change, SystemInv, SentRendered
    <3>2. Tail(feed) \in Seq(Inputs) /\ Len(Tail(feed)) = Len(feed) - 1
      BY <3>1, HeadTailProperties
    <3>3. Len(feed') # 0
      BY <3>1, <3>2
    <3> QED
      BY <3>1, <3>2, <3>3
  <2> QED
    BY <1>2, <2>1 DEF Change, vars, SystemInv, SentRendered
<1>3. CASE (ReceiveUnchanged \/ Receive) /\ UNCHANGED <<feed, sent>>
  BY <1>3 DEF ReceiveUnchanged, Receive, SystemInv, SentRendered
<1>4. CASE (buildConf \/ restart) /\ UNCHANGED <<feed, sent>>
  <2>1. UNCHANGED <<offer, lastConf>>
    BY <1>4 DEF buildConf, restart, WriteFile, checkConfigs, Rename, readPids, StartHaproxy
  <2> QED
    BY <1>4, <2>1 DEF SystemInv, SentRendered
<1>5. CASE RestartContainer /\ UNCHANGED <<feed, sent>>
  BY <1>5 DEF RestartContainer, SystemInv, SentRendered
<1>6. CASE UNCHANGED systemVars
  BY <1>6 DEF systemVars, vars, SystemInv, SentRendered
<1> QED
  BY <1>1, <1>2, <1>3, <1>4, <1>5, <1>6 DEF SystemNext, Run

\* The invariant holds in every reachable state of the system.
LEMMA SystemInvariant == SystemSpec => []SystemInv
BY SystemInitInv, SystemNextInv, PTL DEF SystemSpec

\* What was rendered from an input matches it, and is accepted if the names
\* of the services differ.
LEMMA RenderingFacts ==
  ASSUME NEW in \in Inputs, NEW conf \in Renderings[in]
  PROVE  MatchesReference(conf, in) /\ (DistinctNames(in) => Accepts(conf))
<1>1. WellFormed(in)
  BY SystemAssumption
<1>2. PICK s \in SetToSeqs(in.svcs), eps \in SetToSeqs(in.eps) : conf = Conf(s, eps)
  BY DEF Renderings
<1> QED
  BY <1>1, <1>2, ConfMatches, ConfAccepted

\* End to end, from the lists that Build is given to the processes: when Run
\* waits again and nothing failed, haproxy runs one section per service of the
\* last call that has endpoints, its ports reach every endpoint port of their
\* name and only pods of the service, and exactly the endpoints if each service
\* has one port, in whatever order the objects were listed.
THEOREM LastInputIsServed == SystemSpec => []ServesLastInput
<1>1. SystemInv => ServesLastInput
  <2> SUFFICES ASSUME SystemInv, pc = "recv", offer = None, lastConf # None, ~failed
               PROVE  \E conf \in Running : MatchesReference(conf, sent)
    BY DEF ServesLastInput, Settled
  <2>1. lastConf \in Running
    BY DEF SystemInv, HaproxyInv, AppliedUnlessFailed
  <2>2. MatchesReference(lastConf, sent)
    BY RenderingFacts DEF SystemInv, SentRendered
  <2> QED
    BY <2>1, <2>2
<1> QED
  BY <1>1, SystemInvariant, PTL

\* A bad section stops every service, because haproxy refuses the whole
\* configuration: no services and endpoints, listed in whatever order, give
\* one, unless two services have the same name or one is named "stats" like
\* the section of the header.
THEOREM DistinctNamesAreAccepted == SystemSpec => []DistinctNamesAccepted
<1>1. SystemInv => DistinctNamesAccepted
  <2> SUFFICES ASSUME SystemInv, offer # None, DistinctNames(sent) PROVE offer \in Valid
    BY DEF DistinctNamesAccepted
  <2>1. offer \in Confs /\ Accepts(offer)
    BY RenderingFacts DEF SystemInv, SentRendered, HaproxyInv, TypeOK
  <2> QED
    BY <2>1, SystemAssumption
<1> QED
  BY <1>1, SystemInvariant, PTL

\* Every behaviour of the system is one of Haproxy, fairness aside, so that
\* what HaproxyProofs shows of Haproxy's safety holds in the system too.
THEOREM SystemRunsHaproxy == SystemSpec => Init /\ [][Next]_vars
<1>1. SystemInit => Init
  BY DEF SystemInit
<1>2. [SystemNext]_systemVars => [Next]_vars
  BY SystemSteps
<1> QED
  BY <1>1, <1>2, PTL DEF SystemSpec

=============================================================================
