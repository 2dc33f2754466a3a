---------------------------- MODULE DialogueProofs ----------------------------
(***************************************************************************)
(* That the lines, the answers and the messages of a connection are those   *)
(* of its stream, however recv cuts it up: for streams of any length and    *)
(* buffers of any size.                                                     *)
(***************************************************************************)
EXTENDS Dialogue, SetInduction, FiniteSetTheorems, SequenceTheorems

-----------------------------------------------------------------------------
(* Places in their order                                                    *)

Increasing(e) == \A i, j \in DOMAIN e : i < j => e[i] < e[j]

PlacesOf(e) == {e[i] : i \in DOMAIN e}

(* A sequence has as many places as elements.                               *)
LEMMA PlacesCounted ==
  ASSUME NEW e \in Seq(Nat), Increasing(e)
  PROVE  IsFiniteSet(PlacesOf(e)) /\ Cardinality(PlacesOf(e)) = Len(e)
<1>1. Len(e) \in Nat /\ DOMAIN e = 1 .. Len(e) /\ \A i \in 1 .. Len(e) : e[i] \in Nat
  OBVIOUS
<1> DEFINE f == [i \in 1 .. Len(e) |-> e[i]]
<1>2. f \in [1 .. Len(e) -> PlacesOf(e)]
  BY <1>1 DEF PlacesOf
<1>3. \A i, j \in 1 .. Len(e) : f[i] = f[j] => i = j
  <2> SUFFICES ASSUME NEW i \in 1 .. Len(e), NEW j \in 1 .. Len(e), e[i] = e[j], i # j
               PROVE  FALSE
    OBVIOUS
  <2>1. i < j \/ j < i
    BY <1>1
  <2>2. e[i] < e[j] \/ e[j] < e[i]
    BY <1>1, <2>1 DEF Increasing
  <2> QED
    BY <1>1, <2>2
<1>4. \A p \in PlacesOf(e) : \E i \in 1 .. Len(e) : f[i] = p
  BY <1>1 DEF PlacesOf
<1>5. f \in Bijection(1 .. Len(e), PlacesOf(e))
  <2> HIDE DEF f
  <2> QED
    BY <1>2, <1>3, <1>4 DEF Bijection, Injection, Surjection, IsInjective
<1>6. ExistsBijection(1 .. Len(e), PlacesOf(e))
  BY <1>5 DEF ExistsBijection
<1> QED
  BY <1>1, <1>6, FS_CountingElements, FS_NatBijection

(* The recursion of Ordered.                                                *)
IsNth(g, S) ==
  g = [n \in 0 .. Cardinality(S) |->
         IF n = 0 THEN 0 ELSE Min({k \in S : k > g[n - 1]})]

(* The least of the places behind the n-th is the next.                     *)
LEMMA NextPlace ==
  ASSUME NEW e \in Seq(Nat \ {0}), Increasing(e), NEW n \in 0 .. Len(e) - 1
  PROVE  Min({k \in PlacesOf(e) : k > (IF n = 0 THEN 0 ELSE e[n])}) = e[n + 1]
<1>1. /\ Len(e) \in Nat /\ DOMAIN e = 1 .. Len(e) /\ n + 1 \in 1 .. Len(e)
      /\ \A i \in 1 .. Len(e) : e[i] \in Nat /\ e[i] > 0
  OBVIOUS
<1> DEFINE last == IF n = 0 THEN 0 ELSE e[n]
           later == {k \in PlacesOf(e) : k > last}
<1>2. last \in Nat /\ e[n + 1] \in later
  <2>1. CASE n = 0
    BY <1>1, <2>1 DEF PlacesOf
  <2>2. CASE n # 0
    <3>1. n \in 1 .. Len(e) /\ n < n + 1
      BY <1>1, <2>2
    <3>2. e[n] < e[n + 1]
      BY <1>1, <3>1 DEF Increasing
    <3> QED
      BY <1>1, <2>2, <3>1, <3>2 DEF PlacesOf
  <2> QED
    BY <2>1, <2>2
<1>3. ASSUME NEW k \in later PROVE e[n + 1] <= k
  <2>1. PICK i \in 1 .. Len(e) : k = e[i]
    BY <1>1 DEF PlacesOf
  <2>2. CASE i <= n
    <3>1. n # 0 /\ n \in 1 .. Len(e) /\ (i < n \/ i = n)
      BY <1>1, <2>2
    <3>2. e[i] <= e[n]
      <4>1. CASE i < n
        <5>1. i \in DOMAIN e /\ n \in DOMAIN e
          BY <1>1, <3>1
        <5>2. e[i] < e[n]
          BY <4>1, <5>1 DEF Increasing
        <5> QED
          BY <1>1, <3>1, <5>2
      <4>2. CASE i = n
        BY <1>1, <4>2
      <4> QED
        BY <3>1, <4>1, <4>2
    <3> QED
      BY <1>1, <1>2, <1>3, <2>1, <3>1, <3>2
  <2>3. CASE i = n + 1
    BY <1>1, <2>1, <2>3
  <2>4. CASE i > n + 1
    <3>1. e[n + 1] < e[i]
      BY <1>1, <2>4 DEF Increasing
    <3> QED
      BY <1>1, <2>1, <3>1
  <2> QED
    BY <1>1, <2>2, <2>3, <2>4
<1>4. later \subseteq Nat
  BY <1>1 DEF PlacesOf
<1> HIDE DEF later, last
<1>5. Min(later) = CHOOSE x \in later : \A y \in later : x <= y
  BY DEF Min
<1>6. Min(later) \in later /\ \A y \in later : Min(later) <= y
  BY <1>2, <1>3, <1>5
<1>7. Min(later) <= e[n + 1] /\ e[n + 1] <= Min(later) /\ Min(later) \in Nat /\ e[n + 1] \in Nat
  BY <1>1, <1>2, <1>3, <1>4, <1>6
<1>8. Min(later) = e[n + 1]
  BY <1>7
<1> QED
  BY <1>8 DEF later, last

(* An increasing sequence is its places in their order.                     *)
LEMMA OrderedIs ==
  ASSUME NEW e \in Seq(Nat \ {0}), Increasing(e)
  PROVE  Ordered(PlacesOf(e)) = e
<1> DEFINE S == PlacesOf(e)
           g == [n \in 0 .. Len(e) |-> IF n = 0 THEN 0 ELSE e[n]]
<1>1. /\ Len(e) \in Nat /\ DOMAIN e = 1 .. Len(e)
      /\ \A i \in 1 .. Len(e) : e[i] \in Nat
  OBVIOUS
<1>2. e \in Seq(Nat)
  BY <1>1
<1>3. Cardinality(S) = Len(e)
  BY <1>2, PlacesCounted
<1>4. \A n \in 0 .. Len(e) : g[n] = IF n = 0 THEN 0 ELSE Min({k \in S : k > g[n - 1]})
  <2> SUFFICES ASSUME NEW n \in 0 .. Len(e), n # 0
               PROVE  g[n] = Min({k \in S : k > g[n - 1]})
    OBVIOUS
  <2>1. n - 1 \in 0 .. Len(e) - 1 /\ n - 1 \in 0 .. Len(e) /\ (n - 1) + 1 = n
    BY <1>1
  <2>2. g[n - 1] = IF n - 1 = 0 THEN 0 ELSE e[n - 1]
    BY <2>1
  <2>3. Min({k \in S : k > (IF n - 1 = 0 THEN 0 ELSE e[n - 1])}) = e[(n - 1) + 1]
    BY <2>1, NextPlace
  <2> QED
    BY <2>1, <2>2, <2>3
<1>5. IsNth(g, S)
  BY <1>3, <1>4 DEF IsNth
<1> DEFINE f == CHOOSE h : h = [n \in 0 .. Cardinality(S) |->
                                  IF n = 0 THEN 0 ELSE Min({k \in S : k > h[n - 1]})]
<1>6. IsNth(f, S)
  <2> HIDE DEF g, S
  <2> QED
    BY <1>5 DEF IsNth
<1>7. Ordered(S) = [n \in 1 .. Cardinality(S) |-> f[n]]
  BY DEF Ordered
<1> HIDE DEF f, S
<1>8. \A n \in Nat : n <= Len(e) => f[n] = g[n]
  <2> DEFINE T == {n \in Nat : n <= Len(e) => f[n] = g[n]}
  <2>1. 0 \in T
    BY <1>1, <1>3, <1>6 DEF IsNth
  <2>2. ASSUME NEW n \in T PROVE n + 1 \in T
    <3> SUFFICES ASSUME n + 1 <= Len(e) PROVE f[n + 1] = g[n + 1]
      OBVIOUS
    <3>1. n \in Nat /\ n <= Len(e) /\ f[n] = g[n]
      BY <1>1
    <3>2. n + 1 \in 0 .. Len(e) /\ n + 1 # 0 /\ (n + 1) - 1 = n
      BY <1>1, <3>1
    <3> HIDE DEF g, T
    <3>3. f[n + 1] = Min({k \in S : k > f[n]})
      BY <1>3, <1>6, <3>2 DEF IsNth
    <3>4. g[n + 1] = Min({k \in S : k > g[n]})
      BY <1>4, <3>2
    <3> QED
      BY <3>1, <3>3, <3>4
  <2>3. T = Nat
    <3> HIDE DEF T
    <3>1. T \in SUBSET Nat
      BY DEF T
    <3> QED
      BY <2>1, <2>2, <3>1, Induction
  <2> QED
    BY <2>3
<1>9. \A n \in 1 .. Len(e) : f[n] = e[n]
  BY <1>1, <1>8
<1>10. Ordered(S) = [n \in 1 .. Len(e) |-> e[n]]
  BY <1>3, <1>7, <1>9
<1>11. e = [n \in 1 .. Len(e) |-> e[n]]
  BY <1>1
<1> QED
  BY <1>10, <1>11 DEF S

-----------------------------------------------------------------------------
(* The lines of the bytes seen                                              *)

(* The ends of the lines, in order.                                         *)
IsCut(e, seen) == e \in Seq(Nat \ {0}) /\ Increasing(e) /\ PlacesOf(e) = EndsIn(seen)

LineOf(e, seen, j) == SubSeq(seen, IF j = 1 THEN 1 ELSE e[j - 1] + 1, e[j] - 2)

RawOf(e, seen) == [j \in DOMAIN e |-> LineOf(e, seen, j)]

(* Where the unfinished line starts.                                        *)
StartOf(e) == IF e = <<>> THEN 0 ELSE e[Len(e)]

Rest(e, seen) == SubSeq(seen, StartOf(e) + 1, Len(seen))

(* A place of n + 1 that is not the last.                                   *)
LEMMA Below ==
  ASSUME NEW n \in Nat, NEW j \in 1 .. n + 1, j # n + 1
  PROVE  j \in 1 .. n /\ (j # 1 => j - 1 \in 1 .. n)
  OBVIOUS

(* What a cut gives: the places, and its lines as sequences of bytes.       *)
LEMMA CutType ==
  ASSUME NEW seen \in Seq(Bytes), NEW e, IsCut(e, seen)
  PROVE  /\ e \in Seq(Nat \ {0}) /\ Len(e) \in Nat /\ DOMAIN e = 1 .. Len(e)
         /\ \A i \in 1 .. Len(e) : e[i] \in Nat /\ e[i] > 0 /\ e[i] <= Len(seen)
         /\ RawOf(e, seen) \in Seq(Seq(Bytes)) /\ Len(RawOf(e, seen)) = Len(e)
<1>1. e \in Seq(Nat \ {0}) /\ Len(e) \in Nat /\ DOMAIN e = 1 .. Len(e)
  BY DEF IsCut
<1>2. \A i \in 1 .. Len(e) : e[i] \in Nat /\ e[i] > 0 /\ e[i] <= Len(seen)
  BY <1>1 DEF IsCut, PlacesOf, EndsIn
<1>3. ASSUME NEW a \in Nat \ {0}, NEW b \in Int, b <= Len(seen)
      PROVE  SubSeq(seen, a, b) \in Seq(Bytes)
  BY <1>3
<1>4. ASSUME NEW j \in 1 .. Len(e)
      PROVE  LineOf(e, seen, j) \in Seq(Bytes)
  <2>1. e[j] - 2 \in Int /\ e[j] - 2 <= Len(seen)
    BY <1>2
  <2>2. (IF j = 1 THEN 1 ELSE e[j - 1] + 1) \in Nat \ {0}
    <3>1. j # 1 => j - 1 \in 1 .. Len(e)
      BY <1>1
    <3> QED
      BY <1>2, <3>1
  <2> QED
    BY <1>3, <2>1, <2>2 DEF LineOf
<1>5. RawOf(e, seen) = [j \in 1 .. Len(e) |-> LineOf(e, seen, j)]
  BY <1>1 DEF RawOf
<1>6. RawOf(e, seen) \in [1 .. Len(e) -> Seq(Bytes)]
  BY <1>4, <1>5
<1>7. RawOf(e, seen) \in Seq(Seq(Bytes)) /\ Len(RawOf(e, seen)) = Len(e)
  BY <1>1, <1>6
<1> QED
  BY <1>1, <1>2, <1>7

(* The last line ends where the unfinished one starts.                      *)
LEMMA StartIs ==
  ASSUME NEW seen \in Seq(Bytes), NEW e, IsCut(e, seen)
  PROVE  /\ StartOf(e) \in Nat /\ StartOf(e) <= Len(seen)
         /\ \A i \in 1 .. Len(e) : e[i] <= StartOf(e)
         /\ e = <<>> => StartOf(e) = 0
         /\ e # <<>> => StartOf(e) \in EndsIn(seen)
<1>1. /\ e \in Seq(Nat \ {0}) /\ Len(e) \in Nat /\ DOMAIN e = 1 .. Len(e)
      /\ \A i \in 1 .. Len(e) : e[i] \in Nat /\ e[i] > 0 /\ e[i] <= Len(seen)
  BY CutType
<1>2. CASE e = <<>>
  <2>1. Len(e) = 0 /\ StartOf(e) = 0 /\ Len(seen) \in Nat
    BY <1>2 DEF StartOf
  <2> QED
    BY <1>2, <2>1
<1>3. CASE e # <<>>
  <2>1. Len(e) \in 1 .. Len(e)
    BY <1>1, <1>3
  <2>2. StartOf(e) = e[Len(e)]
    BY <1>3 DEF StartOf
  <2>3. StartOf(e) \in EndsIn(seen)
    BY <1>1, <2>1, <2>2 DEF IsCut, PlacesOf
  <2>4. ASSUME NEW i \in 1 .. Len(e) PROVE e[i] <= e[Len(e)]
    <3>1. CASE i = Len(e)
      BY <1>1, <2>1, <3>1
    <3>2. CASE i # Len(e)
      <4>1. i < Len(e)
        <5>1. Len(e) \in Nat
          BY <1>1
        <5> QED
          BY <3>2, <5>1
      <4>2. e[i] < e[Len(e)]
        BY <1>1, <2>1, <4>1 DEF IsCut, Increasing
      <4> QED
        BY <1>1, <2>1, <4>2
    <3> QED
      BY <3>1, <3>2
  <2> QED
    BY <1>1, <1>3, <2>1, <2>2, <2>3, <2>4
<1> QED
  BY <1>2, <1>3

(* Both definitions of the properties, of RawLines and of the rest, are     *)
(* those of any cut of the bytes.                                           *)
LEMMA CutIs ==
  ASSUME NEW seen \in Seq(Bytes), NEW e, IsCut(e, seen)
  PROVE  /\ Ordered(EndsIn(seen)) = e
         /\ Max({0} \cup EndsIn(seen)) = StartOf(e)
<1>1. Ordered(EndsIn(seen)) = e
  BY OrderedIs DEF IsCut
<1>3. StartOf(e) \in {0} \cup EndsIn(seen)
  BY StartIs
<1>4. ASSUME NEW p \in {0} \cup EndsIn(seen)
      PROVE  StartOf(e) >= p
  <2>1. CASE p \in EndsIn(seen)
    <3>1. PICK i \in DOMAIN e : p = e[i]
      BY <2>1 DEF IsCut, PlacesOf
    <3>2. e[i] \in Nat /\ e[i] <= StartOf(e) /\ StartOf(e) \in Nat
      BY StartIs, CutType
    <3> QED
      BY <3>1, <3>2
  <2>2. CASE p = 0
    BY <2>2, StartIs
  <2> QED
    BY <2>1, <2>2
<1>5. {0} \cup EndsIn(seen) \subseteq Nat
  BY DEF EndsIn
<1> DEFINE T == {0} \cup EndsIn(seen)
<1>6. Max(T) \in T /\ \A p \in T : Max(T) >= p
  <2>1. Max(T) = CHOOSE x \in T : \A y \in T : x >= y
    BY DEF Max
  <2> HIDE DEF T
  <2>2. \E x \in T : \A y \in T : x >= y
    BY <1>3, <1>4 DEF T
  <2> QED
    BY <2>1, <2>2
<1>7. Max(T) \in Nat /\ StartOf(e) \in Nat /\ Max(T) >= StartOf(e) /\ StartOf(e) >= Max(T)
  BY <1>3, <1>4, <1>5, <1>6
<1> QED
  BY <1>1, <1>7

(* A place of the bytes seen before is an end or not, as it was.            *)
LEMMA EndsOfMore ==
  ASSUME NEW seen \in Seq(Bytes), NEW s \in Seq(Bytes)
  PROVE  /\ seen \o s \in Seq(Bytes) /\ Len(seen \o s) = Len(seen) + Len(s)
         /\ Len(seen) \in Nat /\ Len(s) \in Nat
         /\ \A k \in 1 .. Len(seen) : (seen \o s)[k] = seen[k]
         /\ \A k \in 1 .. Len(s) : (seen \o s)[Len(seen) + k] = s[k]
         /\ \A k \in 1 .. Len(seen) : k \in EndsIn(seen \o s) <=> k \in EndsIn(seen)
         /\ \A k \in EndsIn(seen) : k \in 2 .. Len(seen)
         /\ \A k \in EndsIn(seen \o s) : k \in 2 .. Len(seen) + Len(s)
<1>1. /\ seen \o s \in Seq(Bytes) /\ Len(seen \o s) = Len(seen) + Len(s)
      /\ Len(seen) \in Nat /\ Len(s) \in Nat
  OBVIOUS
<1>2. \A k \in 1 .. Len(seen) : (seen \o s)[k] = seen[k]
  OBVIOUS
<1>3. \A k \in 1 .. Len(s) : (seen \o s)[Len(seen) + k] = s[k]
  OBVIOUS
<1>4. ASSUME NEW k \in 1 .. Len(seen)
      PROVE  k \in EndsIn(seen \o s) <=> k \in EndsIn(seen)
  <2>1. CASE k = 1
    BY <1>1, <2>1 DEF EndsIn
  <2>2. CASE k # 1
    <3>1. /\ k \in 2 .. Len(seen) /\ k \in 2 .. Len(seen \o s)
          /\ k - 1 \in 1 .. Len(seen)
      BY <1>1, <2>2
    <3>2. (seen \o s)[k] = seen[k] /\ (seen \o s)[k - 1] = seen[k - 1]
      BY <1>2, <3>1
    <3> QED
      BY <3>1, <3>2 DEF EndsIn
  <2> QED
    BY <2>1, <2>2
<1> QED
  BY <1>1, <1>2, <1>3, <1>4 DEF EndsIn

(* The lines that have ended stay as they are.                              *)
LEMMA RawStays ==
  ASSUME NEW seen \in Seq(Bytes), NEW s \in Seq(Bytes), NEW e, IsCut(e, seen)
  PROVE  RawOf(e, seen \o s) = RawOf(e, seen)
<1>1. /\ e \in Seq(Nat \ {0}) /\ Len(e) \in Nat /\ DOMAIN e = 1 .. Len(e)
      /\ \A i \in 1 .. Len(e) : e[i] \in Nat /\ e[i] > 0 /\ e[i] <= Len(seen)
  BY CutType
<1>2. ASSUME NEW a \in Nat \ {0}, NEW b \in Int, b <= Len(seen)
      PROVE  SubSeq(seen \o s, a, b) = SubSeq(seen, a, b)
  BY <1>2
<1>3. ASSUME NEW j \in 1 .. Len(e)
      PROVE  LineOf(e, seen \o s, j) = LineOf(e, seen, j)
  <2>1. e[j] - 2 \in Int /\ e[j] - 2 <= Len(seen)
    BY <1>1
  <2>2. (IF j = 1 THEN 1 ELSE e[j - 1] + 1) \in Nat \ {0}
    <3>1. j # 1 => j - 1 \in 1 .. Len(e)
      BY <1>1
    <3> QED
      BY <1>1, <3>1
  <2> QED
    BY <1>2, <2>1, <2>2 DEF LineOf
<1> QED
  BY <1>1, <1>3 DEF RawOf

(* Without another terminator the cut is the same.                          *)
LEMMA CutMore ==
  ASSUME NEW seen \in Seq(Bytes), NEW s \in Seq(Bytes), NEW e, IsCut(e, seen),
         \A i \in 1 .. Len(s) : Len(seen) + i \notin EndsIn(seen \o s)
  PROVE  IsCut(e, seen \o s)
<1>1. EndsIn(seen \o s) = EndsIn(seen)
  <2>1. ASSUME NEW k \in EndsIn(seen \o s) PROVE k \in EndsIn(seen)
    <3>1. k \in 2 .. Len(seen) + Len(s) /\ Len(seen) \in Nat /\ Len(s) \in Nat
      BY EndsOfMore
    <3>2. k \in 1 .. Len(seen) \/ \E i \in 1 .. Len(s) : k = Len(seen) + i
      <4>1. CASE k > Len(seen)
        <5>1. k - Len(seen) \in 1 .. Len(s) /\ k = Len(seen) + (k - Len(seen))
          BY <3>1, <4>1
        <5> QED
          BY <5>1
      <4> QED
        BY <3>1, <4>1
    <3> QED
      BY <3>2, EndsOfMore
  <2>2. ASSUME NEW k \in EndsIn(seen) PROVE k \in EndsIn(seen \o s)
    <3>1. k \in 2 .. Len(seen)
      BY EndsOfMore
    <3>2. k \in 1 .. Len(seen)
      BY <3>1
    <3> QED
      BY <3>2, EndsOfMore
  <2> QED
    BY <2>1, <2>2
<1> QED
  BY <1>1 DEF IsCut

(* The next line ends where the next terminator does.                       *)
LEMMA CutLine ==
  ASSUME NEW seen \in Seq(Bytes), NEW s \in Seq(Bytes), NEW e, IsCut(e, seen), s # <<>>,
         Len(seen) + Len(s) \in EndsIn(seen \o s),
         \A i \in 1 .. Len(s) - 1 : Len(seen) + i \notin EndsIn(seen \o s)
  PROVE  LET end == Len(seen) + Len(s)
         IN /\ IsCut(Append(e, end), seen \o s)
            /\ StartOf(Append(e, end)) = end /\ Append(e, end) # <<>>
            /\ RawOf(Append(e, end), seen \o s) =
                 Append(RawOf(e, seen), SubSeq(seen \o s, StartOf(e) + 1, end - 2))
<1> DEFINE end == Len(seen) + Len(s)
           e2 == Append(e, end)
<1>1. /\ e \in Seq(Nat \ {0}) /\ Len(e) \in Nat /\ DOMAIN e = 1 .. Len(e)
      /\ \A i \in 1 .. Len(e) : e[i] \in Nat /\ e[i] > 0 /\ e[i] <= Len(seen)
  BY CutType
<1>2. Len(seen) \in Nat /\ Len(s) \in Nat /\ Len(s) > 0 /\ end \in Nat \ {0} /\ end > Len(seen)
  OBVIOUS
<1>3. /\ e2 \in Seq(Nat \ {0}) /\ Len(e2) = Len(e) + 1 /\ DOMAIN e2 = 1 .. Len(e) + 1
      /\ e2[Len(e) + 1] = end /\ \A i \in 1 .. Len(e) : e2[i] = e[i]
  BY <1>1, <1>2
<1> HIDE DEF e2
<1>4. Increasing(e2)
  <2> SUFFICES ASSUME NEW i \in 1 .. Len(e) + 1, NEW j \in 1 .. Len(e) + 1, i < j
               PROVE  e2[i] < e2[j]
    BY <1>3 DEF Increasing
  <2>1. i \in 1 .. Len(e) /\ e2[i] = e[i]
    BY <1>1, <1>3
  <2>2. CASE j = Len(e) + 1
    BY <1>1, <1>2, <1>3, <2>1, <2>2
  <2>3. CASE j # Len(e) + 1
    <3>1. j \in 1 .. Len(e)
      BY <1>1, <2>3, Below
    <3>2. e2[j] = e[j]
      BY <1>3, <3>1
    <3> QED
      BY <1>1, <2>1, <3>1, <3>2 DEF IsCut, Increasing
  <2> QED
    BY <2>2, <2>3
<1>5. PlacesOf(e2) = EndsIn(seen \o s)
  <2>1. ASSUME NEW p \in PlacesOf(e2) PROVE p \in EndsIn(seen \o s)
    <3>1. PICK i \in 1 .. Len(e) + 1 : p = e2[i]
      BY <1>3 DEF PlacesOf
    <3>2. CASE i = Len(e) + 1
      BY <1>3, <3>1, <3>2
    <3>3. CASE i # Len(e) + 1
      <4>1. i \in 1 .. Len(e) /\ p = e[i]
        BY <1>1, <1>3, <3>1, <3>3
      <4>2. p \in EndsIn(seen) /\ p \in 1 .. Len(seen)
        BY <1>1, <1>2, <4>1 DEF IsCut, PlacesOf
      <4> QED
        BY <4>2, EndsOfMore
    <3> QED
      BY <3>2, <3>3
  <2>2. ASSUME NEW p \in EndsIn(seen \o s) PROVE p \in PlacesOf(e2)
    <3>1. p \in 2 .. Len(seen) + Len(s)
      BY EndsOfMore
    <3>2. CASE p <= Len(seen)
      <4>1. p \in 1 .. Len(seen)
        BY <1>2, <3>1, <3>2
      <4>2. p \in EndsIn(seen)
        BY <4>1, EndsOfMore
      <4>3. PICK i \in 1 .. Len(e) : p = e[i]
        BY <1>1, <4>2 DEF IsCut, PlacesOf
      <4>4. i \in DOMAIN e2 /\ p = e2[i]
        BY <1>1, <1>3, <4>3
      <4> QED
        BY <4>4 DEF PlacesOf
    <3>3. CASE p = end
      <4>1. Len(e) + 1 \in DOMAIN e2
        BY <1>1, <1>3
      <4> QED
        BY <1>3, <3>3, <4>1 DEF PlacesOf
    <3>4. CASE p > Len(seen) /\ p # end
      <4>1. p - Len(seen) \in 1 .. Len(s) - 1 /\ p = Len(seen) + (p - Len(seen))
        BY <1>2, <3>1, <3>4
      <4> QED
        BY <4>1
    <3> QED
      BY <1>2, <3>1, <3>2, <3>3, <3>4
  <2> QED
    BY <2>1, <2>2
<1>6. StartOf(e2) = end /\ e2 # <<>>
  <2>1. e2 # <<>>
    BY <1>1, <1>3
  <2> QED
    BY <1>3, <2>1 DEF StartOf
<1>7. IsCut(e2, seen \o s)
  BY <1>3, <1>4, <1>5 DEF IsCut
<1>8. RawOf(e2, seen \o s) = Append(RawOf(e, seen), SubSeq(seen \o s, StartOf(e) + 1, end - 2))
  <2>1. PICK r \in Seq(Seq(Bytes)) : r = RawOf(e, seen) /\ r = RawOf(e, seen \o s) /\ Len(r) = Len(e)
    BY RawStays, CutType
  <2>2. PICK q \in Seq(Seq(Bytes)) : q = RawOf(e2, seen \o s) /\ Len(q) = Len(e) + 1
    <3>1. seen \o s \in Seq(Bytes)
      BY EndsOfMore
    <3>2. RawOf(e2, seen \o s) \in Seq(Seq(Bytes)) /\ Len(RawOf(e2, seen \o s)) = Len(e2)
      BY <1>7, <3>1, CutType
    <3> QED
      BY <1>3, <3>2
  <2>3. \A j \in 1 .. Len(e) : r[j] = LineOf(e, seen \o s, j)
    BY <1>1, <2>1 DEF RawOf
  <2>4. \A j \in 1 .. Len(e) + 1 : q[j] = LineOf(e2, seen \o s, j)
    BY <1>3, <2>2 DEF RawOf
  <2>5. PICK l : l = SubSeq(seen \o s, StartOf(e) + 1, end - 2)
    OBVIOUS
  <2>6. ASSUME NEW j \in 1 .. Len(e) PROVE q[j] = r[j]
    <3>1. j \in 1 .. Len(e) + 1 /\ (j # 1 => j - 1 \in 1 .. Len(e))
      BY <1>1
    <3>2. e2[j] = e[j] /\ (j # 1 => e2[j - 1] = e[j - 1])
      BY <1>3, <3>1
    <3>3. LineOf(e2, seen \o s, j) = LineOf(e, seen \o s, j)
      BY <3>2 DEF LineOf
    <3> QED
      BY <2>3, <2>4, <3>1, <3>3
  <2>7. q[Len(e) + 1] = l
    <3>1. q[Len(e) + 1] = LineOf(e2, seen \o s, Len(e) + 1)
      BY <1>1, <2>4
    <3>2. (IF Len(e) + 1 = 1 THEN 1 ELSE e2[(Len(e) + 1) - 1] + 1) = StartOf(e) + 1
      <4>1. CASE e = <<>>
        BY <4>1 DEF StartOf
      <4>2. CASE e # <<>>
        <5>1. /\ Len(e) \in 1 .. Len(e) /\ Len(e) + 1 # 1 /\ (Len(e) + 1) - 1 = Len(e)
          BY <1>1, <4>2
        <5>2. e2[Len(e)] = e[Len(e)]
          BY <1>3, <5>1
        <5> QED
          BY <4>2, <5>1, <5>2 DEF StartOf
      <4> QED
        BY <4>1, <4>2
    <3> QED
      BY <1>3, <2>5, <3>1, <3>2 DEF LineOf
  <2>8. l \in Seq(Bytes)
    <3>1. Len(e) + 1 \in 1 .. Len(q)
      BY <1>1, <2>2
    <3> QED
      BY <2>7, <3>1
  <2>9. q = Append(r, l)
    <3>1. /\ Append(r, l) \in Seq(Seq(Bytes)) /\ Len(Append(r, l)) = Len(e) + 1
          /\ Append(r, l)[Len(e) + 1] = l /\ \A j \in 1 .. Len(e) : Append(r, l)[j] = r[j]
      BY <2>1, <2>8
    <3>2. ASSUME NEW j \in 1 .. Len(e) + 1 PROVE q[j] = Append(r, l)[j]
      <4>1. CASE j = Len(e) + 1
        BY <2>7, <3>1, <4>1
      <4>2. CASE j # Len(e) + 1
        BY <1>1, <2>6, <3>1, <4>2, Below
      <4> QED
        BY <4>1, <4>2
    <3>3. \A j \in 1 .. Len(q) : q[j] = Append(r, l)[j]
      BY <2>2, <3>2
    <3> QED
      BY <2>2, <3>1, <3>3, SeqEqual
  <2> QED
    BY <2>1, <2>2, <2>5, <2>9
<1> QED
  BY <1>6, <1>7, <1>8 DEF e2

-----------------------------------------------------------------------------
(* One line reader                                                          *)

(* What LineJoin says of either reader, for the values of its variables:    *)
(* t, b and o are t_check, the buffer and the offset, s what recv returned. *)
EndsOf(t, s) == {i \in DOMAIN s : SubSeq(t \o s, i + 1, i + 2) = <<CR, LF>>}

CopyOf(C, b, o, s) ==
  [k \in 1 .. C |-> IF k > o /\ k <= o + Len(s) THEN s[k - o] ELSE b[k]]

Pairs == [1 .. 2 -> Bytes \cup {NUL}]

Memory(C) == [1 .. C -> Bytes \cup {NUL}]

(* What the symbols and the sizes of the two readers are.                   *)
LEMMA Symbols ==
  /\ CR \in Bytes /\ LF \in Bytes /\ CR # LF /\ NUL # CR /\ NUL # LF
  /\ CmdCapacity \in Nat \ {0} /\ LineCapacity \in Nat \ {0}
  BY ReadersAssumption DEF Cmd!Sensible, Line!Sensible

(* A part of a sequence, from a place on.                                   *)
LEMMA Piece ==
  ASSUME NEW S, NEW q \in Seq(S), NEW a \in Nat, NEW z \in Nat, a <= z, z <= Len(q)
  PROVE  /\ SubSeq(q, a + 1, z) \in Seq(S) /\ Len(SubSeq(q, a + 1, z)) = z - a
         /\ \A k \in 1 .. z - a : SubSeq(q, a + 1, z)[k] = q[a + k]
<1>1. SubSeq(q, a + 1, z) = [k \in 1 .. z - a |-> q[a + k]]
  <2>1. (1 .. (1 + z - (a + 1))) = 1 .. z - a
    OBVIOUS
  <2>2. \A k \in 1 .. z - a : k + (a + 1) - 1 = a + k
    OBVIOUS
  <2> QED
    BY <2>1, <2>2
<1>2. ASSUME NEW k \in 1 .. z - a PROVE q[a + k] \in S
  <2>1. a + k \in 1 .. Len(q)
    <3>1. Len(q) \in Nat
      OBVIOUS
    <3> QED
      BY <3>1
  <2> QED
    BY <2>1, ElementOfSeq
<1>3. z - a \in Nat
  OBVIOUS
<1> QED
  BY <1>1, <1>2, <1>3

(* The first n elements.                                                    *)
LEMMA FrontIs ==
  ASSUME NEW S, NEW q \in Seq(S), NEW n \in Nat, n <= Len(q)
  PROVE  /\ SubSeq(q, 1, n) \in Seq(S) /\ Len(SubSeq(q, 1, n)) = n
         /\ \A k \in 1 .. n : SubSeq(q, 1, n)[k] = q[k]
<1>1. 0 \in Nat /\ 0 <= n /\ 0 + 1 = 1 /\ n - 0 = n /\ \A k \in 1 .. n : 0 + k = k
  OBVIOUS
<1>2. /\ SubSeq(q, 0 + 1, n) \in Seq(S) /\ Len(SubSeq(q, 0 + 1, n)) = n - 0
      /\ \A k \in 1 .. n - 0 : SubSeq(q, 0 + 1, n)[k] = q[0 + k]
  BY <1>1, Piece
<1> QED
  BY <1>1, <1>2

(* The two bytes that are compared with the terminator.                     *)
LEMMA TailOf ==
  ASSUME NEW t \in Pairs, NEW s \in Seq(Bytes), NEW i \in 1 .. Len(s)
  PROVE  SubSeq(t \o s, i + 1, i + 2) = <<IF i = 1 THEN t[2] ELSE s[i - 1], s[i]>>
<1> DEFINE B == Bytes \cup {NUL}
<1>1. t \in Seq(B) /\ Len(t) = 2
  <2>1. t \in [1 .. 2 -> B]
    BY DEF Pairs
  <2> HIDE DEF B
  <2>2. t \in Seq(B)
    <3>1. Seq(B) = UNION {[1 .. n -> B] : n \in Nat}
      BY SeqDef
    <3>2. 2 \in Nat
      OBVIOUS
    <3> QED
      BY <2>1, <3>1, <3>2, Zenon
  <2>3. DOMAIN t = 1 .. 2
    BY <2>1, Zenon
  <2>4. Len(t) = 2
    <3>1. DOMAIN t = 1 .. Len(t) /\ Len(t) \in Nat
      BY <2>2, LenProperties
    <3> QED
      BY <2>3, <3>1
  <2> QED
    BY <2>2, <2>4
<1>2. s \in Seq(B) /\ Len(s) \in Nat
  <2>1. Bytes \subseteq B
    OBVIOUS
  <2> QED
    BY <2>1, SeqMonotonic
<1> HIDE DEF B
<1>3. /\ t \o s \in Seq(B) /\ Len(t \o s) = 2 + Len(s)
      /\ \A k \in 1 .. 2 + Len(s) : (t \o s)[k] = IF k <= 2 THEN t[k] ELSE s[k - 2]
  <2>1. \A X : \A a, c \in Seq(X) :
          /\ a \o c \in Seq(X) /\ Len(a \o c) = Len(a) + Len(c)
          /\ \A k \in 1 .. Len(a) + Len(c) : (a \o c)[k] = IF k <= Len(a) THEN a[k] ELSE c[k - Len(a)]
    BY ConcatProperties
  <2>2. /\ t \o s \in Seq(B) /\ Len(t \o s) = Len(t) + Len(s)
        /\ \A k \in 1 .. Len(t) + Len(s) : (t \o s)[k] = IF k <= Len(t) THEN t[k] ELSE s[k - Len(t)]
    BY <1>1, <1>2, <2>1, Zenon
  <2> QED
    BY <1>1, <2>2
<1>4. i + 1 \in 1 .. 2 + Len(s) /\ i + 2 \in 1 .. 2 + Len(s)
  BY <1>2
<1>5. /\ (t \o s)[i + 1] = IF i = 1 THEN t[2] ELSE s[i - 1]
      /\ (t \o s)[i + 2] = s[i]
  <2>1. /\ (t \o s)[i + 1] = IF i + 1 <= 2 THEN t[i + 1] ELSE s[(i + 1) - 2]
        /\ (t \o s)[i + 2] = IF i + 2 <= 2 THEN t[i + 2] ELSE s[(i + 2) - 2]
    BY <1>3, <1>4
  <2>2. /\ (i + 1 <= 2 <=> i = 1) /\ (i = 1 => i + 1 = 2) /\ (i + 1) - 2 = i - 1
        /\ ~(i + 2 <= 2) /\ (i + 2) - 2 = i
    BY <1>2
  <2> QED
    BY <2>1, <2>2
<1> DEFINE u == t \o s
<1>6. u \in Seq(B) /\ Len(u) = 2 + Len(s) /\ i + 2 <= Len(u) /\ i + 1 \in Nat \ {0} /\ i + 2 \in Nat
  BY <1>2, <1>3
<1> HIDE DEF u
<1>7. SubSeq(u, i + 1, i + 2) = <<u[i + 1], u[i + 2]>>
  <2>1. \A a, z \in Nat : a >= 1 /\ z = a + 1 /\ z <= Len(u) => SubSeq(u, a, z) = <<u[a], u[z]>>
    <3> SUFFICES ASSUME NEW a \in Nat, NEW z \in Nat, a >= 1, z = a + 1, z <= Len(u)
                 PROVE  SubSeq(u, a, z) = <<u[a], u[z]>>
      OBVIOUS
    <3>1. \A k \in a .. z : u[k] \in B
      <4>1. \A k \in a .. z : k \in 1 .. Len(u)
        BY <1>6
      <4> QED
        BY <1>6, <4>1, ElementOfSeq
    <3>2. /\ SubSeq(u, a, z) \in Seq(B)
          /\ Len(SubSeq(u, a, z)) = IF a <= z THEN z - a + 1 ELSE 0
          /\ \A k \in 1 .. z - a + 1 : SubSeq(u, a, z)[k] = u[a + k - 1]
      BY <3>1, SubSeqProperties
    <3> DEFINE v == SubSeq(u, a, z)
    <3> HIDE DEF v
    <3>3. v \in Seq(B) /\ Len(v) = 2 /\ v[1] = u[a] /\ v[2] = u[z]
      <4>1. a <= z /\ z - a + 1 = 2 /\ a + 1 - 1 = a /\ a + 2 - 1 = z /\ 1 \in 1 .. 2 /\ 2 \in 1 .. 2
        OBVIOUS
      <4> QED
        BY <3>2, <4>1 DEF v
    <3>4. v = <<u[a], u[z]>>
      BY <3>3
    <3> QED
      BY <3>4 DEF v
  <2>2. i + 1 >= 1 /\ i + 2 = (i + 1) + 1
    BY <1>2
  <2> QED
    BY <1>6, <2>1, <2>2
<1> QED
  BY <1>5, <1>7 DEF u

(* What has come of the unfinished line, with what is added to it.          *)
LEMMA RestMore ==
  ASSUME NEW seen \in Seq(Bytes), NEW s \in Seq(Bytes), NEW e, IsCut(e, seen)
  PROVE  /\ Rest(e, seen) \in Seq(Bytes) /\ Len(Rest(e, seen)) = Len(seen) - StartOf(e)
         /\ \A k \in 1 .. Len(seen) - StartOf(e) : Rest(e, seen)[k] = seen[StartOf(e) + k]
         /\ Rest(e, seen \o s) = Rest(e, seen) \o s
<1>1. /\ Len(seen) \in Nat /\ Len(s) \in Nat /\ StartOf(e) \in Nat /\ StartOf(e) <= Len(seen)
  BY StartIs
<1>2. PICK p \in Nat : p = StartOf(e)
  BY <1>1
<1>3. p <= Len(seen)
  BY <1>1, <1>2
<1>4. /\ SubSeq(seen, p + 1, Len(seen)) \in Seq(Bytes) /\ Len(SubSeq(seen, p + 1, Len(seen))) = Len(seen) - p
      /\ \A k \in 1 .. Len(seen) - p : SubSeq(seen, p + 1, Len(seen))[k] = seen[p + k]
  BY <1>1, <1>3, Piece
<1> DEFINE r == SubSeq(seen, p + 1, Len(seen))
           w == seen \o s
<1>5. /\ w \in Seq(Bytes) /\ Len(w) = Len(seen) + Len(s)
      /\ \A k \in 1 .. Len(seen) : w[k] = seen[k]
      /\ \A k \in 1 .. Len(s) : w[Len(seen) + k] = s[k]
  BY EndsOfMore
<1>6. p <= Len(w) /\ Len(w) \in Nat
  BY <1>1, <1>3, <1>5
<1>7. /\ SubSeq(w, p + 1, Len(w)) \in Seq(Bytes) /\ Len(SubSeq(w, p + 1, Len(w))) = Len(w) - p
      /\ \A k \in 1 .. Len(w) - p : SubSeq(w, p + 1, Len(w))[k] = w[p + k]
  BY <1>5, <1>6, Piece
<1> HIDE DEF r, w
<1>8. /\ r \o s \in Seq(Bytes) /\ Len(r \o s) = Len(r) + Len(s)
      /\ \A k \in 1 .. Len(r) + Len(s) : (r \o s)[k] = IF k <= Len(r) THEN r[k] ELSE s[k - Len(r)]
  BY <1>4, ConcatProperties DEF r
<1>9. Len(r) = Len(seen) - p
  BY <1>4 DEF r
<1>10. ASSUME NEW k \in 1 .. Len(w) - p PROVE w[p + k] = (r \o s)[k]
  <2>1. CASE k <= Len(seen) - p
    <3>1. k \in 1 .. Len(seen) - p /\ p + k \in 1 .. Len(seen) /\ k \in 1 .. Len(r) + Len(s) /\ k <= Len(r)
      BY <1>1, <1>2, <1>3, <1>5, <1>9, <2>1
    <3>2. r[k] = seen[p + k]
      BY <1>4, <3>1 DEF r
    <3> QED
      BY <1>5, <1>8, <3>1, <3>2
  <2>2. CASE ~(k <= Len(seen) - p)
    <3>1. /\ k - Len(r) \in 1 .. Len(s) /\ p + k = Len(seen) + (k - Len(r)) /\ k \in 1 .. Len(r) + Len(s)
          /\ ~(k <= Len(r))
      BY <1>1, <1>2, <1>3, <1>5, <1>9, <2>2
    <3> QED
      BY <1>5, <1>8, <3>1
  <2> QED
    BY <2>1, <2>2
<1>11. Len(w) - p = Len(r) + Len(s)
  BY <1>1, <1>3, <1>5, <1>9
<1>12. SubSeq(w, p + 1, Len(w)) = r \o s
  <2> DEFINE v == SubSeq(w, p + 1, Len(w))
             z == r \o s
  <2>1. v \in Seq(Bytes) /\ z \in Seq(Bytes) /\ Len(v) = Len(z) /\ \A k \in 1 .. Len(v) : v[k] = z[k]
    BY <1>7, <1>8, <1>10, <1>11
  <2> HIDE DEF v, z
  <2>2. v = z
    BY <2>1, SeqEqual
  <2> QED
    BY <2>2 DEF v, z
<1> QED
  BY <1>2, <1>4, <1>12 DEF Rest, r, w

(* The reader finds the terminators of the stream, also one that has begun  *)
(* in an earlier piece, unless memory makes it one of a first line feed.    *)
LEMMA Enders ==
  ASSUME NEW seen \in Seq(Bytes), NEW s \in Seq(Bytes), NEW e, IsCut(e, seen),
         NEW t \in Pairs,
         Rest(e, seen) # <<>> => t[2] = Last(Rest(e, seen)),
         Rest(e, seen) = <<>> => ~(t[2] = CR /\ s[1] = LF)
  PROVE  /\ EndsOf(t, s) = {i \in 1 .. Len(s) : Len(seen) + i \in EndsIn(seen \o s)}
         /\ \A i \in EndsOf(t, s) : s[i] = LF /\ Len(seen) + i - 2 >= StartOf(e)
<1>1. /\ Len(seen) \in Nat /\ Len(s) \in Nat /\ StartOf(e) \in Nat /\ StartOf(e) <= Len(seen)
  BY StartIs
<1>2. /\ Len(Rest(e, seen)) = Len(seen) - StartOf(e)
      /\ \A k \in 1 .. Len(seen) - StartOf(e) : Rest(e, seen)[k] = seen[StartOf(e) + k]
  BY RestMore
<1>3. /\ seen \o s \in Seq(Bytes) /\ Len(seen \o s) = Len(seen) + Len(s)
      /\ \A k \in 1 .. Len(seen) : (seen \o s)[k] = seen[k]
      /\ \A k \in 1 .. Len(s) : (seen \o s)[Len(seen) + k] = s[k]
  BY EndsOfMore
<1>4. ASSUME NEW i \in 1 .. Len(s)
      PROVE  i \in EndsOf(t, s) <=> (IF i = 1 THEN t[2] ELSE s[i - 1]) = CR /\ s[i] = LF
  <2>1. SubSeq(t \o s, i + 1, i + 2) = <<IF i = 1 THEN t[2] ELSE s[i - 1], s[i]>>
    BY TailOf
  <2> QED
    BY <2>1 DEF EndsOf
<1>5. ASSUME NEW i \in 1 .. Len(s)
      PROVE  Len(seen) + i \in EndsIn(seen \o s) <=>
               Len(seen) + i >= 2 /\ (seen \o s)[Len(seen) + i - 1] = CR /\ s[i] = LF
  <2>1. Len(seen) + i \in Nat /\ Len(seen) + i <= Len(seen \o s)
    BY <1>1, <1>3
  <2> QED
    BY <1>1, <1>3, <2>1 DEF EndsIn
<1>6. ASSUME StartOf(e) # 0 PROVE StartOf(e) \in 2 .. Len(seen) /\ seen[StartOf(e)] = LF
  BY <1>6, StartIs DEF EndsIn
<1>7. ASSUME NEW i \in 1 .. Len(s)
      PROVE  /\ i \in EndsOf(t, s) <=> Len(seen) + i \in EndsIn(seen \o s)
             /\ i \in EndsOf(t, s) => s[i] = LF /\ Len(seen) + i - 2 >= StartOf(e)
  <2>1. CASE i # 1
    <3>1. /\ Len(seen) + i >= 2 /\ i - 1 \in 1 .. Len(s)
          /\ Len(seen) + i - 1 = Len(seen) + (i - 1)
          /\ Len(seen) + i - 2 >= StartOf(e)
      BY <1>1, <2>1
    <3>2. (seen \o s)[Len(seen) + i - 1] = s[i - 1]
      BY <1>3, <3>1
    <3> QED
      BY <1>4, <1>5, <2>1, <3>1, <3>2
  <2>2. CASE i = 1 /\ Len(seen) > StartOf(e)
    <3>1. Rest(e, seen) # <<>> /\ Last(Rest(e, seen)) = seen[Len(seen)]
      <4>1. Len(Rest(e, seen)) > 0 /\ Rest(e, seen) # <<>>
        BY <1>1, <1>2, <2>2
      <4>2. Rest(e, seen)[Len(seen) - StartOf(e)] = seen[Len(seen)]
        <5>1. /\ Len(seen) - StartOf(e) \in 1 .. Len(seen) - StartOf(e)
              /\ StartOf(e) + (Len(seen) - StartOf(e)) = Len(seen)
          BY <1>1, <2>2
        <5> QED
          BY <1>2, <5>1
      <4> QED
        BY <1>2, <4>1, <4>2 DEF Last
    <3>2. /\ Len(seen) + i >= 2 /\ Len(seen) \in 1 .. Len(seen)
          /\ Len(seen) + i - 1 = Len(seen) /\ Len(seen) + i - 2 >= StartOf(e)
      BY <1>1, <2>2
    <3>3. (seen \o s)[Len(seen) + i - 1] = t[2]
      BY <1>3, <3>1, <3>2
    <3> QED
      BY <1>4, <1>5, <2>2, <3>2, <3>3
  <2>3. CASE i = 1 /\ Len(seen) = StartOf(e)
    <3>1. Rest(e, seen) = <<>>
      BY <1>1, <2>3 DEF Rest
    <3>2. i \notin EndsOf(t, s)
      BY <1>4, <2>3, <3>1
    <3>3. Len(seen) + i \notin EndsIn(seen \o s)
      <4>1. CASE StartOf(e) = 0
        BY <1>5, <2>3, <4>1
      <4>2. CASE StartOf(e) # 0
        <5>1. seen[Len(seen)] = LF /\ Len(seen) \in 1 .. Len(seen) /\ Len(seen) + i - 1 = Len(seen)
          BY <1>1, <1>6, <2>3, <4>2
        <5>2. (seen \o s)[Len(seen) + i - 1] = LF
          BY <1>3, <5>1
        <5> QED
          BY <1>5, <5>2, Symbols
      <4> QED
        BY <4>1, <4>2
    <3> QED
      BY <3>2, <3>3
  <2> QED
    BY <1>1, <2>1, <2>2, <2>3
<1>8. EndsOf(t, s) \subseteq 1 .. Len(s)
  BY DEF EndsOf
<1> QED
  BY <1>7, <1>8

(* A piece without a terminator: the reader holds what is there now.        *)
LEMMA MoreHolds ==
  ASSUME NEW C \in Nat, NEW b \in Memory(C), NEW t \in Pairs,
         NEW rest \in Seq(Bytes), NEW o, Holds(b, t, o, rest),
         NEW s \in Seq(Bytes), s # <<>>
  PROVE  Holds(CopyOf(C, b, o, s), SubSeq(t \o s, Len(s) + 1, Len(s) + 2), o + Len(s), rest \o s)
<1>1. /\ Len(s) \in Nat /\ Len(s) \in 1 .. Len(s) /\ Len(rest) \in Nat /\ o = Len(rest)
      /\ \A k \in 1 .. C : k <= Len(rest) => b[k] = rest[k]
  BY DEF Holds, Memory
<1>2. /\ rest \o s \in Seq(Bytes) /\ Len(rest \o s) = o + Len(s)
      /\ \A k \in 1 .. o + Len(s) : (rest \o s)[k] = IF k <= o THEN rest[k] ELSE s[k - o]
  BY <1>1, ConcatProperties
<1>3. ASSUME NEW k \in 1 .. C, k <= o + Len(s)
      PROVE  CopyOf(C, b, o, s)[k] = (rest \o s)[k]
  <2>1. k \in 1 .. o + Len(s)
    BY <1>1, <1>3
  <2> QED
    BY <1>1, <1>2, <1>3, <2>1 DEF CopyOf
<1>4. SubSeq(t \o s, Len(s) + 1, Len(s) + 2)[2] = s[Len(s)]
  <2>1. SubSeq(t \o s, Len(s) + 1, Len(s) + 2) = <<IF Len(s) = 1 THEN t[2] ELSE s[Len(s) - 1], s[Len(s)]>>
    BY <1>1, TailOf
  <2> DEFINE c == IF Len(s) = 1 THEN t[2] ELSE s[Len(s) - 1]
             d == s[Len(s)]
  <2> HIDE DEF c, d
  <2>2. SubSeq(t \o s, Len(s) + 1, Len(s) + 2) = <<c, d>>
    BY <2>1 DEF c, d
  <2>3. <<c, d>>[2] = d
    OBVIOUS
  <2> QED
    BY <2>2, <2>3 DEF d
<1>5. Last(rest \o s) = s[Len(s)]
  <2>1. o + Len(s) \in 1 .. o + Len(s) /\ ~(o + Len(s) <= o) /\ (o + Len(s)) - o = Len(s)
    BY <1>1
  <2> QED
    BY <1>2, <2>1 DEF Last
<1>6. DOMAIN CopyOf(C, b, o, s) = 1 .. C
  BY DEF CopyOf
<1> QED
  BY <1>2, <1>3, <1>4, <1>5, <1>6 DEF Holds

(* What a reader's memory is after a copy.                                  *)
LEMMA CopyType ==
  ASSUME NEW C \in Nat, NEW b \in Memory(C), NEW o \in Nat, NEW s \in Seq(Bytes)
  PROVE  CopyOf(C, b, o, s) \in Memory(C)
<1>1. ASSUME NEW k \in 1 .. C
      PROVE  (IF k > o /\ k <= o + Len(s) THEN s[k - o] ELSE b[k]) \in Bytes \cup {NUL}
  <2>1. CASE k > o /\ k <= o + Len(s)
    <3>1. k - o \in 1 .. Len(s)
      <4>1. Len(s) \in Nat
        OBVIOUS
      <4> QED
        BY <2>1, <4>1
    <3>2. s[k - o] \in Bytes
      BY <3>1, ElementOfSeq
    <3> QED
      BY <2>1, <3>2
  <2>2. CASE ~(k > o /\ k <= o + Len(s))
    BY <2>2 DEF Memory
  <2> QED
    BY <2>1, <2>2
<1> QED
  BY <1>1 DEF CopyOf, Memory

(* The first n of the bytes of rest and of s.                               *)
Begins(v, n, rest, o, s) ==
  /\ v \in Seq(Bytes \cup {NUL}) /\ Len(v) = n
  /\ \A k \in 1 .. n : v[k] = IF k <= o THEN rest[k] ELSE s[k - o]

(* What the buffer begins with behind the copy.                             *)
LEMMA BufferIs ==
  ASSUME NEW C, NEW b, NEW t, NEW rest, NEW o, NEW s, NEW n, C \in Nat,
         b \in Memory(C), rest \in Seq(Bytes), o \in Nat, Holds(b, t, o, rest),
         s \in Seq(Bytes), n \in Nat, n <= C, n <= o + Len(s)
  PROVE  Begins(SubSeq(CopyOf(C, b, o, s), 1, n), n, rest, o, s)
<1>1. PICK u \in Memory(C) : u = CopyOf(C, b, o, s)
  BY CopyType
<1>2. u \in Seq(Bytes \cup {NUL}) /\ Len(u) = C
  BY DEF Memory
<1>3. /\ SubSeq(u, 1, n) \in Seq(Bytes \cup {NUL}) /\ Len(SubSeq(u, 1, n)) = n
      /\ \A k \in 1 .. n : SubSeq(u, 1, n)[k] = u[k]
  <2>1. n <= Len(u)
    BY <1>2
  <2> QED
    BY <1>2, <2>1, FrontIs
<1>4. Len(s) \in Nat /\ o = Len(rest) /\ \A k \in 1 .. C : k <= Len(rest) => b[k] = rest[k]
  BY DEF Holds, Memory
<1>5. ASSUME NEW k \in 1 .. n PROVE u[k] = IF k <= o THEN rest[k] ELSE s[k - o]
  <2>1. k \in 1 .. C /\ k <= o + Len(s) /\ (k > o <=> ~(k <= o))
    BY <1>4
  <2> QED
    BY <1>1, <1>4, <2>1 DEF CopyOf
<1> QED
  BY <1>1, <1>3, <1>5 DEF Begins

(* Two bytes make a tail.                                                   *)
LEMMA PairIs ==
  ASSUME NEW a \in Bytes \cup {NUL}, NEW z \in Bytes \cup {NUL}
  PROVE  <<a, z>> \in Pairs /\ <<a, z>>[2] = z
<1>1. DOMAIN <<a, z>> = 1 .. 2 /\ <<a, z>>[1] = a /\ <<a, z>>[2] = z
  OBVIOUS
<1>2. <<a, z>> = [k \in 1 .. 2 |-> <<a, z>>[k]]
  BY <1>1
<1>3. ASSUME NEW k \in 1 .. 2 PROVE <<a, z>>[k] \in Bytes \cup {NUL}
  BY <1>1
<1> QED
  BY <1>1, <1>2, <1>3 DEF Pairs

(* The tail behind any of the bytes ends in that byte.                      *)
LEMMA TailType ==
  ASSUME NEW t \in Pairs, NEW s \in Seq(Bytes), NEW i \in 1 .. Len(s)
  PROVE  SubSeq(t \o s, i + 1, i + 2) \in Pairs /\ SubSeq(t \o s, i + 1, i + 2)[2] = s[i]
<1>1. PICK a : a = IF i = 1 THEN t[2] ELSE s[i - 1]
  OBVIOUS
<1>2. SubSeq(t \o s, i + 1, i + 2) = <<a, s[i]>>
  BY <1>1, TailOf
<1>3. s[i] \in Bytes
  BY ElementOfSeq
<1>4. a \in Bytes \cup {NUL}
  <2>1. CASE i = 1
    BY <1>1, <2>1 DEF Pairs
  <2>2. CASE i # 1
    <3>1. i - 1 \in 1 .. Len(s)
      BY <2>2
    <3>2. s[i - 1] \in Bytes
      BY <3>1, ElementOfSeq
    <3> QED
      BY <1>1, <2>2, <3>2
  <2> QED
    BY <2>1, <2>2
<1> QED
  BY <1>2, <1>3, <1>4, PairIs

(* The two outcomes of join, on the values before and after.                *)
MoreStep(C, b, t, o, s, ls, b2, t2, o2, s2, ls2) ==
  /\ s # <<>>
  /\ EndsOf(t, s) = {}
  /\ b2 = CopyOf(C, b, o, s)
  /\ t2 = SubSeq(t \o s, Len(s) + 1, Len(s) + 2)
  /\ o2 = o + Len(s)
  /\ s2 = <<>>
  /\ ls2 = ls

LineEndsAt(i, C, b, t, o, s, ls, b2, t2, o2, s2, ls2) ==
  /\ i \in EndsOf(t, s)
  /\ \A j \in EndsOf(t, s) : i <= j
  /\ s2 = SubSeq(s, i + 1, Len(s))
  /\ o2 = 0
  /\ IF o + i >= 2 /\ o + i - 2 <= C
     THEN /\ ls2 = Append(ls, SubSeq(CopyOf(C, b, o, s), 1, o + i - 2))
          /\ b2 = IF o + i - 2 < C THEN [CopyOf(C, b, o, s) EXCEPT ![o + i - 2 + 1] = NUL] ELSE CopyOf(C, b, o, s)
          /\ t2 = IF o + i - 2 < C THEN <<CR, LF>> ELSE <<NUL, LF>>
     ELSE /\ ls2 = Append(ls, TooLong)
          /\ b2 = CopyOf(C, b, o, s)
          /\ t2 = <<CR, LF>>

LineStep(C, b, t, o, s, ls, b2, t2, o2, s2, ls2) ==
  s # <<>> /\ \E i \in DOMAIN s : LineEndsAt(i, C, b, t, o, s, ls, b2, t2, o2, s2, ls2)

(* That these are the actions of both readers.                              *)
LEMMA StepsOfCmd ==
  /\ Cmd!JoinMore => /\ MoreStep(CmdCapacity, cmdTarget, cmdTail, cmdOffset, sp, lines,
                                 cmdTarget', cmdTail', cmdOffset', sp', lines')
                     /\ cmdFirst' = cmdFirst
  /\ Cmd!JoinLine => /\ LineStep(CmdCapacity, cmdTarget, cmdTail, cmdOffset, sp, lines,
                                 cmdTarget', cmdTail', cmdOffset', sp', lines')
                     /\ cmdFirst' = cmdFirst
<1>1. Cmd!Ends = EndsOf(cmdTail, sp)
  BY DEF Cmd!Ends, Cmd!Tail2, EndsOf
<1>2. Cmd!Copied = CopyOf(CmdCapacity, cmdTarget, cmdOffset, sp)
  BY DEF Cmd!Copied, CopyOf
<1>3. ASSUME Cmd!JoinMore
      PROVE  /\ MoreStep(CmdCapacity, cmdTarget, cmdTail, cmdOffset, sp, lines,
                         cmdTarget', cmdTail', cmdOffset', sp', lines')
             /\ cmdFirst' = cmdFirst
  BY <1>1, <1>2, <1>3 DEF Cmd!JoinMore, Cmd!Tail2, MoreStep
<1>4. ASSUME Cmd!JoinLine
      PROVE  /\ LineStep(CmdCapacity, cmdTarget, cmdTail, cmdOffset, sp, lines,
                         cmdTarget', cmdTail', cmdOffset', sp', lines')
             /\ cmdFirst' = cmdFirst
  <2>1. PICK i \in EndsOf(cmdTail, sp) :
          /\ \A j \in EndsOf(cmdTail, sp) : i <= j
          /\ sp' = SubSeq(sp, i + 1, Len(sp))
          /\ IF cmdOffset + i >= 2 /\ cmdOffset + i - 2 <= CmdCapacity
             THEN /\ lines' = Append(lines, SubSeq(Cmd!Copied, 1, cmdOffset + i - 2))
                  /\ cmdTarget' = IF cmdOffset + i - 2 < CmdCapacity
                                  THEN [Cmd!Copied EXCEPT ![cmdOffset + i - 2 + 1] = NUL] ELSE Cmd!Copied
                  /\ cmdTail' = IF cmdOffset + i - 2 < CmdCapacity THEN <<CR, LF>> ELSE <<NUL, LF>>
             ELSE /\ lines' = Append(lines, TooLong)
                  /\ cmdTarget' = Cmd!Copied
                  /\ cmdTail' = <<CR, LF>>
    BY <1>1, <1>4 DEF Cmd!JoinLine, Cmd!Fits
  <2>2. i \in DOMAIN sp
    BY DEF EndsOf
  <2>3. sp # <<>> /\ cmdOffset' = 0 /\ cmdFirst' = cmdFirst
    BY <1>4 DEF Cmd!JoinLine
  <2> QED
    BY <1>2, <2>1, <2>2, <2>3 DEF LineStep, LineEndsAt
<1> QED
  BY <1>3, <1>4

(* The same of the reader of text.                                          *)
LEMMA StepsOfLine ==
  /\ Line!JoinMore => /\ MoreStep(LineCapacity, lineTarget, lineTail, lineOffset, sp, lines,
                                  lineTarget', lineTail', lineOffset', sp', lines')
                      /\ lineFirst' = lineFirst
  /\ Line!JoinLine => /\ LineStep(LineCapacity, lineTarget, lineTail, lineOffset, sp, lines,
                                  lineTarget', lineTail', lineOffset', sp', lines')
                      /\ lineFirst' = lineFirst
<1>1. Line!Ends = EndsOf(lineTail, sp)
  BY DEF Line!Ends, Line!Tail2, EndsOf
<1>2. Line!Copied = CopyOf(LineCapacity, lineTarget, lineOffset, sp)
  BY DEF Line!Copied, CopyOf
<1>3. ASSUME Line!JoinMore
      PROVE  /\ MoreStep(LineCapacity, lineTarget, lineTail, lineOffset, sp, lines,
                         lineTarget', lineTail', lineOffset', sp', lines')
             /\ lineFirst' = lineFirst
  BY <1>1, <1>2, <1>3 DEF Line!JoinMore, Line!Tail2, MoreStep
<1>4. ASSUME Line!JoinLine
      PROVE  /\ LineStep(LineCapacity, lineTarget, lineTail, lineOffset, sp, lines,
                         lineTarget', lineTail', lineOffset', sp', lines')
             /\ lineFirst' = lineFirst
  <2>1. PICK i \in EndsOf(lineTail, sp) :
          /\ \A j \in EndsOf(lineTail, sp) : i <= j
          /\ sp' = SubSeq(sp, i + 1, Len(sp))
          /\ IF lineOffset + i >= 2 /\ lineOffset + i - 2 <= LineCapacity
             THEN /\ lines' = Append(lines, SubSeq(Line!Copied, 1, lineOffset + i - 2))
                  /\ lineTarget' = IF lineOffset + i - 2 < LineCapacity
                                   THEN [Line!Copied EXCEPT ![lineOffset + i - 2 + 1] = NUL] ELSE Line!Copied
                  /\ lineTail' = IF lineOffset + i - 2 < LineCapacity THEN <<CR, LF>> ELSE <<NUL, LF>>
             ELSE /\ lines' = Append(lines, TooLong)
                  /\ lineTarget' = Line!Copied
                  /\ lineTail' = <<CR, LF>>
    BY <1>1, <1>4 DEF Line!JoinLine, Line!Fits
  <2>2. i \in DOMAIN sp
    BY DEF EndsOf
  <2>3. sp # <<>> /\ lineOffset' = 0 /\ lineFirst' = lineFirst
    BY <1>4 DEF Line!JoinLine
  <2> QED
    BY <1>2, <2>1, <2>2, <2>3 DEF LineStep, LineEndsAt
<1> QED
  BY <1>3, <1>4

(* What a step leaves is of its type.                                       *)
LEMMA MoreTypes ==
  ASSUME NEW C, NEW b, NEW t, NEW o, NEW s, NEW ls, NEW b2, NEW t2, NEW o2, NEW s2, NEW ls2, C \in Nat,
         b \in Memory(C), t \in Pairs, o \in Nat, s \in Seq(Bytes),
         MoreStep(C, b, t, o, s, ls, b2, t2, o2, s2, ls2)
  PROVE  /\ b2 \in Memory(C) /\ t2 \in Pairs /\ o2 \in Nat \ {0}
         /\ s2 \in Seq(Bytes) /\ Len(s2) = 0 /\ ls2 = ls
<1>1. Len(s) \in Nat /\ Len(s) \in 1 .. Len(s)
  BY DEF MoreStep
<1>2. b2 \in Memory(C)
  BY CopyType DEF MoreStep
<1>3. t2 \in Pairs
  BY <1>1, TailType DEF MoreStep
<1> QED
  BY <1>1, <1>2, <1>3 DEF MoreStep

(* The types of a reader that has ended a line.                             *)
LEMMA LineTypes ==
  ASSUME NEW C, NEW b, NEW t, NEW o, NEW s, NEW ls, NEW i, NEW b2, NEW t2, NEW o2, NEW s2, NEW ls2,
         C \in Nat, b \in Memory(C), t \in Pairs, o \in Nat, s \in Seq(Bytes),
         i \in 1 .. Len(s), LineEndsAt(i, C, b, t, o, s, ls, b2, t2, o2, s2, ls2)
  PROVE  /\ b2 \in Memory(C) /\ t2 \in Pairs /\ t2[2] = LF /\ o2 = 0
         /\ s2 \in Seq(Bytes) /\ Len(s2) = Len(s) - i
         /\ \E got \in Seq(Bytes \cup {NUL}) \cup {TooLong} : ls2 = Append(ls, got)
<1> DEFINE u == CopyOf(C, b, o, s)
<1>1. u \in Memory(C)
  BY CopyType
<1>2. Len(s) \in Nat /\ i \in Nat /\ i <= Len(s)
  OBVIOUS
<1>3. s2 \in Seq(Bytes) /\ Len(s2) = Len(s) - i
  BY <1>2, Piece DEF LineEndsAt
<1>4. <<CR, LF>> \in Pairs /\ <<CR, LF>>[2] = LF /\ <<NUL, LF>> \in Pairs /\ <<NUL, LF>>[2] = LF
  BY Symbols, PairIs
<1>5. /\ o2 = 0
      /\ b2 = u \/ b2 = [u EXCEPT ![o + i - 2 + 1] = NUL]
      /\ t2 = <<CR, LF>> \/ t2 = <<NUL, LF>>
      /\ \/ ls2 = Append(ls, TooLong)
         \/ o + i >= 2 /\ o + i - 2 <= C /\ ls2 = Append(ls, SubSeq(u, 1, o + i - 2))
  BY DEF LineEndsAt
<1> HIDE DEF u
<1>6. b2 \in Memory(C)
  BY <1>1, <1>5 DEF Memory
<1>7. ASSUME o + i >= 2 /\ o + i - 2 <= C
      PROVE  SubSeq(u, 1, o + i - 2) \in Seq(Bytes \cup {NUL})
  <2>1. PICK n \in Nat : n = o + i - 2
    <3>1. o + i - 2 \in Nat
      BY <1>2, <1>7
    <3> QED
      BY <3>1
  <2>2. 1 .. n \subseteq 1 .. C
    BY <1>7, <2>1
  <2>3. \A k \in 1 .. n : u[k] \in Bytes \cup {NUL}
    BY <1>1, <2>2 DEF Memory
  <2>4. SubSeq(u, 1, n) \in Seq(Bytes \cup {NUL})
    BY <2>3, SubSeqProperties
  <2> QED
    BY <2>1, <2>4
<1>8. \E got \in Seq(Bytes \cup {NUL}) \cup {TooLong} : ls2 = Append(ls, got)
  BY <1>5, <1>7
<1>9. t2 \in Pairs /\ t2[2] = LF
  BY <1>4, <1>5
<1> QED
  BY <1>3, <1>5, <1>6, <1>8, <1>9

(* No line feed ends a line that has not begun.                             *)
Clean(t, o, s) == o = 0 => ~(t[2] = CR /\ s[1] = LF)

ReadMore(e, seen, seen2, b2, t2, o2) ==
  /\ IsCut(e, seen2)
  /\ RawOf(e, seen2) = RawOf(e, seen)
  /\ Holds(b2, t2, o2, Rest(e, seen2))

ReadLine(C, e, seen, e2, l, seen2, ls, ls2, b2, t2, o2) ==
  /\ IsCut(e2, seen2) /\ e2 # <<>>
  /\ l \in Seq(Bytes)
  /\ RawOf(e2, seen2) = Append(RawOf(e, seen), l)
  /\ Rest(e2, seen2) = <<>>
  /\ ls2 = Append(ls, IF Len(l) <= C THEN l ELSE TooLong)
  /\ Holds(b2, t2, o2, <<>>)

(* A piece without a terminator lengthens the unfinished line.              *)
LEMMA MoreIs ==
  ASSUME NEW C, NEW b, NEW t, NEW o, NEW s, NEW ls, NEW b2, NEW t2, NEW o2, NEW s2, NEW ls2, NEW seen, NEW e,
         C \in Nat, b \in Memory(C), t \in Pairs, o \in Nat, s \in Seq(Bytes),
         MoreStep(C, b, t, o, s, ls, b2, t2, o2, s2, ls2), seen \in Seq(Bytes), IsCut(e, seen),
         Holds(b, t, o, Rest(e, seen)), Clean(t, o, s)
  PROVE  ReadMore(e, seen, seen \o s, b2, t2, o2)
<1>1. Rest(e, seen) \in Seq(Bytes) /\ Rest(e, seen \o s) = Rest(e, seen) \o s
  BY RestMore
<1>2. Len(Rest(e, seen)) = o /\ (Rest(e, seen) # <<>> => t[2] = Last(Rest(e, seen)))
  BY DEF Holds
<1>3. Rest(e, seen) = <<>> => ~(t[2] = CR /\ s[1] = LF)
  <2>1. Rest(e, seen) = <<>> => o = 0
    BY <1>2
  <2> QED
    BY <2>1 DEF Clean
<1>4. EndsOf(t, s) = {i \in 1 .. Len(s) : Len(seen) + i \in EndsIn(seen \o s)}
  BY <1>2, <1>3, Enders
<1>5. \A i \in 1 .. Len(s) : Len(seen) + i \notin EndsIn(seen \o s)
  BY <1>4 DEF MoreStep
<1>6. IsCut(e, seen \o s)
  BY <1>5, CutMore
<1>7. Holds(b2, t2, o2, Rest(e, seen) \o s)
  <2>1. s # <<>>
    BY DEF MoreStep
  <2>2. Holds(CopyOf(C, b, o, s), SubSeq(t \o s, Len(s) + 1, Len(s) + 2), o + Len(s), Rest(e, seen) \o s)
    BY <1>1, <2>1, MoreHolds
  <2> QED
    BY <2>2 DEF MoreStep
<1> QED
  BY <1>1, <1>6, <1>7, RawStays DEF ReadMore

(* A terminator hands on the line that it ends, if it fits, and leaves      *)
(* nothing of it in the reader.                                             *)
LEMMA LineIs ==
  ASSUME NEW C, NEW b, NEW t, NEW o, NEW s, NEW ls, NEW i, NEW b2, NEW t2, NEW o2, NEW s2, NEW ls2, NEW seen, NEW e,
         C \in Nat, b \in Memory(C), t \in Pairs, o \in Nat, s \in Seq(Bytes),
         i \in 1 .. Len(s), LineEndsAt(i, C, b, t, o, s, ls, b2, t2, o2, s2, ls2), seen \in Seq(Bytes),
         IsCut(e, seen), Holds(b, t, o, Rest(e, seen)), Clean(t, o, s)
  PROVE  \E e2, l : ReadLine(C, e, seen, e2, l, seen \o SubSeq(s, 1, i), ls, ls2, b2, t2, o2)
<1>0. DOMAIN b2 = 1 .. C /\ o2 = 0
  <2>1. b2 \in Memory(C)
    BY LineTypes
  <2>2. o2 = 0
    BY DEF LineEndsAt
  <2> QED
    BY <2>1, <2>2 DEF Memory
<1>1. /\ Len(seen) \in Nat /\ Len(s) \in Nat /\ StartOf(e) \in Nat /\ StartOf(e) <= Len(seen)
  BY StartIs
<1>2. /\ Rest(e, seen) \in Seq(Bytes) /\ Len(Rest(e, seen)) = Len(seen) - StartOf(e)
      /\ \A k \in 1 .. Len(seen) - StartOf(e) : Rest(e, seen)[k] = seen[StartOf(e) + k]
  BY RestMore
<1>3. Len(Rest(e, seen)) = o /\ (Rest(e, seen) # <<>> => t[2] = Last(Rest(e, seen)))
  BY DEF Holds
<1>4. Rest(e, seen) = <<>> => ~(t[2] = CR /\ s[1] = LF)
  <2>1. Rest(e, seen) = <<>> => o = 0
    BY <1>3
  <2> QED
    BY <2>1 DEF Clean
<1>5. /\ EndsOf(t, s) = {k \in 1 .. Len(s) : Len(seen) + k \in EndsIn(seen \o s)}
      /\ \A k \in EndsOf(t, s) : s[k] = LF /\ Len(seen) + k - 2 >= StartOf(e)
  BY <1>3, <1>4, Enders
<1>6. i \in EndsOf(t, s) /\ \A j \in EndsOf(t, s) : i <= j
  BY DEF LineEndsAt
<1>7. PICK p \in Seq(Bytes) : /\ p = SubSeq(s, 1, i) /\ Len(p) = i
                              /\ \A k \in 1 .. i : p[k] = s[k]
  <2>1. i \in Nat /\ i <= Len(s)
    BY <1>1
  <2>2. /\ SubSeq(s, 1, i) \in Seq(Bytes) /\ Len(SubSeq(s, 1, i)) = i
        /\ \A k \in 1 .. i : SubSeq(s, 1, i)[k] = s[k]
    BY <2>1, FrontIs
  <2> QED
    BY <2>2
<1>8. ASSUME NEW k \in 1 .. i
      PROVE  Len(seen) + k \in EndsIn(seen \o p) <=> Len(seen) + k \in EndsIn(seen \o s)
  <2>1. k \in 1 .. Len(s) /\ k \in Nat
    BY <1>1
  <2>2. /\ (seen \o p)[Len(seen) + k] = s[k] /\ (seen \o s)[Len(seen) + k] = s[k]
        /\ Len(seen \o p) = Len(seen) + i /\ Len(seen \o s) = Len(seen) + Len(s)
    BY <1>7, <2>1, EndsOfMore
  <2>3. (seen \o p)[Len(seen) + k - 1] = (seen \o s)[Len(seen) + k - 1] \/ Len(seen) + k < 2
    <3>1. CASE k = 1 /\ Len(seen) # 0
      <4>1. Len(seen) + k - 1 \in 1 .. Len(seen)
        BY <1>1, <3>1
      <4> QED
        BY <4>1, EndsOfMore
    <3>2. CASE k # 1
      <4>1. k - 1 \in 1 .. i /\ k - 1 \in 1 .. Len(s) /\ Len(seen) + k - 1 = Len(seen) + (k - 1)
        BY <1>1, <3>2
      <4>2. (seen \o p)[Len(seen) + (k - 1)] = p[k - 1] /\ (seen \o s)[Len(seen) + (k - 1)] = s[k - 1]
        <5>1. PICK m : m = k - 1
          OBVIOUS
        <5>2. m \in 1 .. Len(p) /\ m \in 1 .. Len(s)
          BY <1>7, <4>1, <5>1
        <5>3. (seen \o p)[Len(seen) + m] = p[m] /\ (seen \o s)[Len(seen) + m] = s[m]
          BY <5>2, EndsOfMore
        <5> QED
          BY <5>1, <5>3
      <4> QED
        BY <1>7, <4>1, <4>2
    <3>3. CASE k = 1 /\ Len(seen) = 0
      BY <3>3
    <3> QED
      BY <3>1, <3>2, <3>3
  <2>4. Len(seen) + k \in 2 .. Len(seen) + i <=> Len(seen) + k >= 2
    BY <1>1
  <2>5. Len(seen) + k \in 2 .. Len(seen) + Len(s) <=> Len(seen) + k >= 2
    BY <1>1
  <2>6. Len(seen) + k < 2 <=> ~(Len(seen) + k >= 2)
    BY <1>1
  <2> QED
    BY <2>2, <2>3, <2>4, <2>5, <2>6 DEF EndsIn
<1>9. p # <<>> /\ Len(seen) + Len(p) \in EndsIn(seen \o p)
  <2>1. i \in 1 .. i /\ i # 0
    BY <1>1
  <2>2. Len(seen) + i \in EndsIn(seen \o s)
    BY <1>5, <1>6
  <2> QED
    BY <1>7, <1>8, <2>1, <2>2
<1>10. \A k \in 1 .. Len(p) - 1 : Len(seen) + k \notin EndsIn(seen \o p)
  <2> SUFFICES ASSUME NEW k \in 1 .. i - 1, Len(seen) + k \in EndsIn(seen \o p)
               PROVE  FALSE
    BY <1>7
  <2>1. k \in 1 .. i /\ k \in 1 .. Len(s) /\ ~(i <= k)
    BY <1>1
  <2>2. k \in EndsOf(t, s)
    BY <1>5, <1>8, <2>1
  <2> QED
    BY <1>6, <2>1, <2>2
<1> DEFINE w == seen \o p
           end == Len(seen) + Len(p)
           e2 == Append(e, end)
<1>11. /\ IsCut(e2, w) /\ StartOf(e2) = end /\ e2 # <<>>
       /\ RawOf(e2, w) = Append(RawOf(e, seen), SubSeq(w, StartOf(e) + 1, end - 2))
  BY <1>9, <1>10, CutLine
<1>12. w \in Seq(Bytes) /\ Len(w) = end
  BY EndsOfMore
<1> HIDE DEF w, e2
<1>14. PICK n \in Nat : n = o + i - 2 /\ o + i >= 2 /\ end - 2 = StartOf(e) + n /\ end - 2 \in Nat
  <2>1. Len(seen) + i - 2 >= StartOf(e) /\ o = Len(seen) - StartOf(e)
    BY <1>2, <1>3, <1>5, <1>6
  <2>2. o + i - 2 \in Nat /\ o + i >= 2
    BY <1>1, <2>1
  <2>3. end - 2 = StartOf(e) + (o + i - 2) /\ end - 2 \in Nat
    BY <1>1, <1>7, <2>1
  <2> QED
    BY <2>2, <2>3
<1>15. PICK l \in Seq(Bytes) : /\ l = SubSeq(w, StartOf(e) + 1, end - 2) /\ Len(l) = n
                               /\ \A k \in 1 .. n : l[k] = w[StartOf(e) + k]
  <2>1. StartOf(e) <= end - 2 /\ end - 2 <= Len(w) /\ (end - 2) - StartOf(e) = n
    BY <1>1, <1>12, <1>14
  <2>2. /\ SubSeq(w, StartOf(e) + 1, end - 2) \in Seq(Bytes)
        /\ Len(SubSeq(w, StartOf(e) + 1, end - 2)) = (end - 2) - StartOf(e)
        /\ \A k \in 1 .. (end - 2) - StartOf(e) : SubSeq(w, StartOf(e) + 1, end - 2)[k] = w[StartOf(e) + k]
    <3>1. w \in Seq(Bytes) /\ StartOf(e) \in Nat /\ end - 2 \in Nat /\ StartOf(e) <= end - 2 /\ end - 2 <= Len(w)
      BY <1>1, <1>12, <1>14, <2>1
    <3>2. PICK y \in Nat : y = end - 2
      BY <3>1
    <3> HIDE DEF end
    <3>3. /\ SubSeq(w, StartOf(e) + 1, y) \in Seq(Bytes)
          /\ Len(SubSeq(w, StartOf(e) + 1, y)) = y - StartOf(e)
          /\ \A k \in 1 .. y - StartOf(e) : SubSeq(w, StartOf(e) + 1, y)[k] = w[StartOf(e) + k]
      <4>1. \A q \in Seq(Bytes) : \A a, z \in Nat : a <= z /\ z <= Len(q) =>
              /\ SubSeq(q, a + 1, z) \in Seq(Bytes) /\ Len(SubSeq(q, a + 1, z)) = z - a
              /\ \A k \in 1 .. z - a : SubSeq(q, a + 1, z)[k] = q[a + k]
        BY Piece
      <4>2. y \in Nat /\ StartOf(e) <= y /\ y <= Len(w)
        BY <3>1, <3>2
      <4> QED
        BY <3>1, <4>1, <4>2, Zenon
    <3> QED
      BY <3>2, <3>3
  <2> QED
    BY <2>1, <2>2
<1>16. Rest(e2, w) = <<>>
  <2>1. Rest(e2, w) = SubSeq(w, end + 1, end)
    BY <1>11, <1>12 DEF Rest
  <2>2. end \in Nat /\ end < end + 1
    BY <1>1, <1>7
  <2> QED
    BY <2>1, <2>2, SubSeqEmpty
<1>17. ASSUME n <= C
       PROVE  SubSeq(CopyOf(C, b, o, s), 1, o + i - 2) = l
  <2>1. o = Len(seen) - StartOf(e) /\ n <= o + Len(s)
    BY <1>1, <1>2, <1>3, <1>14
  <2>2. PICK v \in Seq(Bytes \cup {NUL}) :
          /\ v = SubSeq(CopyOf(C, b, o, s), 1, n) /\ Len(v) = n
          /\ \A k \in 1 .. n : v[k] = IF k <= o THEN Rest(e, seen)[k] ELSE s[k - o]
    <3>1. o \in Nat
      BY <1>1, <2>1
    <3>2. Begins(SubSeq(CopyOf(C, b, o, s), 1, n), n, Rest(e, seen), o, s)
      BY <1>2, <1>17, <2>1, <3>1, BufferIs
    <3> QED
      BY <3>2 DEF Begins
  <2>3. ASSUME NEW k \in 1 .. n PROVE v[k] = l[k]
    <3>1. l[k] = w[StartOf(e) + k] /\ v[k] = IF k <= o THEN Rest(e, seen)[k] ELSE s[k - o]
      BY <1>15, <2>2
    <3>2. CASE k <= o
      <4>1. k \in 1 .. Len(seen) - StartOf(e) /\ StartOf(e) + k \in 1 .. Len(seen)
        BY <1>1, <2>1, <3>2
      <4>2. Rest(e, seen)[k] = seen[StartOf(e) + k]
        BY <1>2, <4>1
      <4>3. w[StartOf(e) + k] = seen[StartOf(e) + k]
        BY <4>1, EndsOfMore DEF w
      <4> QED
        BY <3>1, <3>2, <4>2, <4>3
    <3>3. CASE ~(k <= o)
      <4>1. PICK j \in 1 .. i : j = k - o /\ StartOf(e) + k = Len(seen) + j
        <5>1. i \in Nat /\ k \in Nat /\ k <= n /\ o \in Nat
          BY <1>1
        <5>2. PICK j \in Nat : j = k - o /\ j >= 1
          BY <3>3, <5>1
        <5>3. k = o + j /\ n = o + i - 2
          BY <1>14, <5>1, <5>2
        <5>4. j <= i
          BY <5>1, <5>3
        <5>5. StartOf(e) + k = Len(seen) + j
          <6>1. PICK a \in Nat, q \in Nat : a = Len(seen) /\ q = StartOf(e)
            BY <1>1
          <6>2. o = a - q
            BY <2>1, <6>1
          <6>3. q + (o + j) = a + j
            BY <6>2
          <6> QED
            BY <5>3, <6>1, <6>3
        <5> QED
          BY <5>1, <5>2, <5>4, <5>5
      <4>2. \A m \in 1 .. Len(p) : (seen \o p)[Len(seen) + m] = p[m]
        BY EndsOfMore
      <4>3. w[Len(seen) + j] = p[j] /\ p[j] = s[j]
        BY <1>7, <4>2 DEF w
      <4> QED
        BY <3>1, <3>3, <4>1, <4>3
    <3> QED
      BY <3>2, <3>3
  <2>4. l \in Seq(Bytes \cup {NUL})
    <3>1. Bytes \subseteq Bytes \cup {NUL}
      OBVIOUS
    <3> QED
      BY <3>1, SeqMonotonic
  <2>5. v = l
    <3>1. Len(v) = Len(l) /\ \A k \in 1 .. Len(v) : v[k] = l[k]
      BY <1>15, <2>2, <2>3
    <3> QED
      BY <2>4, <3>1, SeqEqual
  <2> QED
    BY <1>14, <2>2, <2>5
<1>18. ls2 = Append(ls, IF Len(l) <= C THEN l ELSE TooLong)
  <2>1. CASE n <= C
    <3>1. ls2 = Append(ls, SubSeq(CopyOf(C, b, o, s), 1, o + i - 2))
      BY <1>14, <2>1 DEF LineEndsAt
    <3> QED
      BY <1>15, <1>17, <2>1, <3>1
  <2>2. CASE ~(n <= C)
    <3>1. ls2 = Append(ls, TooLong)
      BY <1>14, <2>2 DEF LineEndsAt
    <3> QED
      BY <1>15, <2>2, <3>1
  <2> QED
    BY <2>1, <2>2
<1>19. Holds(b2, t2, o2, <<>>)
  <2>1. Len(<<>>) = 0 /\ \A k \in 1 .. C : ~(k <= 0)
    OBVIOUS
  <2> QED
    BY <1>0, <2>1 DEF Holds
<1> QED
  BY <1>7, <1>11, <1>15, <1>16, <1>18, <1>19 DEF w, ReadLine

-----------------------------------------------------------------------------
(* The conversation                                                         *)

States == {"CMD", "DATA", "CLOSED"}

Steps == [asked : Nat, mode : States]

(* ModeAfter, for any answers to the DATA commands.                         *)
After(g, m, l) ==
  LET asks == m.mode = "CMD" /\ l = DataCmd
  IN [asked |-> IF asks THEN m.asked + 1 ELSE m.asked,
      mode |-> CASE asks /\ g[m.asked + 1]         -> "DATA"
                 [] m.mode = "CMD" /\ l = QuitCmd  -> "CLOSED"
                 [] m.mode = "DATA" /\ l = <<Dot>> -> "CMD"
                 [] OTHER                          -> m.mode]

(* The recursion of Modes.                                                  *)
Walk(f, raw, g) ==
  /\ f \in Seq(Steps) /\ Len(f) = Len(raw) + 1
  /\ f[1] = [asked |-> 0, mode |-> "CMD"]
  /\ \A i \in 1 .. Len(raw) : f[i + 1] = After(g, f[i], raw[i])
  /\ \A i \in 1 .. Len(raw) + 1 : f[i].asked <= Len(g)

ModesOf(f) == [i \in 1 .. Len(f) |-> f[i].mode]

CapacityFor(mode) == IF mode = "DATA" THEN LineCapacity ELSE CmdCapacity

Splits(raw, m, ls) ==
  ls = [i \in DOMAIN raw |-> IF Len(raw[i]) <= CapacityFor(m[i]) THEN raw[i] ELSE TooLong]

(* Line i is of the message that the command at s began.                    *)
Starts(m, i, s) == s \in 1 .. i - 1 /\ m[s] = "CMD" /\ \A j \in s + 1 .. i - 1 : m[j] = "DATA"

Started(m) == \A i \in DOMAIN m : m[i] = "DATA" => \E s : Starts(m, i, s)

FitsBoth(l) == Len(l) <= LineCapacity /\ Len(Unstuffed(l)) <= MaxText

(* The message that is being received.                                      *)
InMessage(raw, m, tl, tx) ==
  \E s :
    /\ Starts(m, Len(raw) + 1, s)
    /\ tl <=> (\E j \in s + 1 .. Len(raw) : ~FitsBoth(raw[j]))
    /\ ~tl => tx = [j \in 1 .. Len(raw) - s |-> Unstuffed(raw[s + j])]

Answered(raw, m) == {i \in DOMAIN raw : m[i] = "CMD" \/ (m[i] = "DATA" /\ raw[i] = <<Dot>>)}

Answers(raw, m, ev) ==
  \E order \in Seq(Nat \ {0}) :
    /\ Increasing(order) /\ PlacesOf(order) = Answered(raw, m)
    /\ ev = [n \in DOMAIN order |-> Expected(raw, m, order[n])]

(* The modes of the conversation are those of the answers given.            *)
LEMMA ModeAfterIs == \A m, l : ModeAfter(m, l) = After(granted, m, l)
  BY DEF ModeAfter, After

(* A sequence with one more element.                                        *)
Longer(q2, q, x, S) ==
  /\ q2 \in Seq(S) /\ q \in Seq(S) /\ Len(q2) = Len(q) + 1 /\ Len(q) \in Nat
  /\ DOMAIN q2 = 1 .. Len(q) + 1 /\ DOMAIN q = 1 .. Len(q)
  /\ \A i \in 1 .. Len(q) : q2[i] = q[i] /\ q[i] \in S
  /\ q2[Len(q) + 1] = x

(* What Append does to a sequence.                                          *)
LEMMA Appended ==
  ASSUME NEW S, NEW q, NEW x, q \in Seq(S), x \in S
  PROVE  Longer(Append(q, x), q, x, S)
<1>1. /\ Append(q, x) \in Seq(S) /\ Len(Append(q, x)) = Len(q) + 1
      /\ \A i \in 1 .. Len(q) : Append(q, x)[i] = q[i]
      /\ Append(q, x)[Len(q) + 1] = x
  BY AppendProperties
<1>2. Len(q) \in Nat /\ DOMAIN q = 1 .. Len(q)
  BY LenProperties
<1>3. DOMAIN Append(q, x) = 1 .. Len(Append(q, x))
  BY <1>1, LenProperties
<1>4. \A i \in 1 .. Len(q) : q[i] \in S
  BY ElementOfSeq
<1> QED
  BY <1>1, <1>2, <1>3, <1>4 DEF Longer

(* Any step leads to a step.                                                *)
LEMMA AfterMode ==
  ASSUME NEW g, NEW m, NEW l, m \in Steps
  PROVE  /\ After(g, m, l).mode =
              IF m.mode = "CMD"
              THEN IF l = DataCmd /\ g[m.asked + 1] THEN "DATA"
                   ELSE IF l = QuitCmd THEN "CLOSED" ELSE "CMD"
              ELSE IF m.mode = "DATA" /\ l = <<Dot>> THEN "CMD" ELSE m.mode
         /\ After(g, m, l).mode \in States
<1>1. m.asked \in Nat /\ m.mode \in States
  BY DEF Steps
<1>2. "CMD" # "DATA" /\ DataCmd # QuitCmd
  BY CommandsAssumption
<1> DEFINE asks == m.mode = "CMD" /\ l = DataCmd
           k == CASE asks /\ g[m.asked + 1]         -> "DATA"
                  [] m.mode = "CMD" /\ l = QuitCmd  -> "CLOSED"
                  [] m.mode = "DATA" /\ l = <<Dot>> -> "CMD"
                  [] OTHER                          -> m.mode
<1>3. k = IF m.mode = "CMD"
          THEN IF l = DataCmd /\ g[m.asked + 1] THEN "DATA"
               ELSE IF l = QuitCmd THEN "CLOSED" ELSE "CMD"
          ELSE IF m.mode = "DATA" /\ l = <<Dot>> THEN "CMD" ELSE m.mode
  BY <1>2
<1>4. k \in States
  BY <1>1, <1>3 DEF States
<1>5. After(g, m, l).mode = k
  BY DEF After
<1> QED
  BY <1>3, <1>4, <1>5

(* A DATA command is asked once.                                            *)
LEMMA AfterAsked ==
  ASSUME NEW g, NEW m, NEW l, m \in Steps
  PROVE  /\ After(g, m, l) \in Steps
         /\ After(g, m, l).asked = IF m.mode = "CMD" /\ l = DataCmd THEN m.asked + 1 ELSE m.asked
<1>1. m.asked \in Nat
  BY DEF Steps
<1> DEFINE a == IF m.mode = "CMD" /\ l = DataCmd THEN m.asked + 1 ELSE m.asked
<1>2. PICK k : After(g, m, l) = [asked |-> a, mode |-> k]
  BY DEF After
<1>3. a \in Nat
  BY <1>1
<1>4. k \in States
  BY <1>2, AfterMode
<1> HIDE DEF a
<1>5. After(g, m, l) \in Steps /\ After(g, m, l).asked = a
  BY <1>2, <1>3, <1>4 DEF Steps
<1> QED
  BY <1>5 DEF a

Asks(st, l, g, g2) ==
  IF st = "CMD" /\ l = DataCmd THEN \E c \in BOOLEAN : g2 = Append(g, c) ELSE g2 = g

WalksOn(f2, raw2, g2, a) == Walk(f2, raw2, g2) /\ a.asked = Len(g2)

(* A walk goes on with the next line, whatever the next DATA is answered.   *)
LEMMA WalkLine ==
  ASSUME NEW f, NEW raw, NEW g, NEW l, NEW g2, NEW m,
         raw \in Seq(Seq(Bytes)), l \in Seq(Bytes), g \in Seq(BOOLEAN), g2 \in Seq(BOOLEAN),
         Walk(f, raw, g), m = f[Len(raw) + 1], m.asked = Len(g), Asks(m.mode, l, g, g2)
  PROVE  WalksOn(Append(f, After(g2, m, l)), Append(raw, l), g2, After(g2, m, l))
<1>1. PICK n \in Nat : n = Len(raw) /\ Len(f) = n + 1
  <2>1. Len(raw) \in Nat
    BY LenProperties
  <2> QED
    BY <2>1 DEF Walk
<1>2. f \in Seq(Steps) /\ m \in Steps /\ n + 1 \in 1 .. Len(f)
  <2>1. f \in Seq(Steps) /\ n + 1 \in 1 .. Len(f)
    BY <1>1 DEF Walk
  <2> QED
    BY <1>1, <2>1, ElementOfSeq
<1>3. PICK a \in Steps : a = After(g2, m, l)
  BY <1>2, AfterAsked
<1>4. PICK f2 \in Seq(Steps) : /\ f2 = Append(f, a) /\ Len(f2) = n + 2
                               /\ \A i \in 1 .. n + 1 : f2[i] = f[i] /\ f[i] \in Steps
                               /\ f2[n + 2] = a
  <2>1. Longer(Append(f, a), f, a, Steps)
    BY <1>2, Appended
  <2>2. Len(f) = n + 1 /\ Len(f) + 1 = n + 2
    BY <1>1
  <2> QED
    BY <2>1, <2>2 DEF Longer
<1>5. PICK raw2 \in Seq(Seq(Bytes)) : /\ raw2 = Append(raw, l) /\ Len(raw2) = n + 1
                                      /\ \A i \in 1 .. n : raw2[i] = raw[i]
                                      /\ raw2[n + 1] = l
  <2>1. Longer(Append(raw, l), raw, l, Seq(Bytes))
    BY Appended
  <2> QED
    BY <1>1, <2>1 DEF Longer
<1>6. /\ Len(g) \in Nat /\ Len(g2) \in Nat /\ Len(g) <= Len(g2)
      /\ \A i \in 1 .. Len(g) : g2[i] = g[i]
      /\ a.asked = Len(g2)
  <2>1. Len(g) \in Nat
    BY LenProperties
  <2>2. After(g2, m, l).asked = IF m.mode = "CMD" /\ l = DataCmd THEN m.asked + 1 ELSE m.asked
    <3>1. PICK k \in Steps : k = m
      BY <1>2
    <3>2. After(g2, k, l).asked = IF k.mode = "CMD" /\ l = DataCmd THEN k.asked + 1 ELSE k.asked
      BY AfterAsked
    <3> QED
      BY <3>1, <3>2
  <2>3. CASE m.mode = "CMD" /\ l = DataCmd
    <3>1. PICK c \in BOOLEAN : g2 = Append(g, c)
      BY <2>3 DEF Asks
    <3>2. Len(g2) = Len(g) + 1 /\ \A i \in 1 .. Len(g) : g2[i] = g[i]
      <4>1. Longer(g2, g, c, BOOLEAN)
        BY <3>1, Appended
      <4> QED
        BY <4>1 DEF Longer
    <3> QED
      BY <1>3, <2>1, <2>2, <2>3, <3>2
  <2>4. CASE ~(m.mode = "CMD" /\ l = DataCmd)
    BY <1>3, <2>1, <2>2, <2>4 DEF Asks
  <2> QED
    BY <2>3, <2>4
<1>7. ASSUME NEW i \in 1 .. n + 1
      PROVE  f2[i + 1] = After(g2, f2[i], raw2[i])
  <2>1. CASE i = n + 1
    <3>1. i + 1 = n + 2
      BY <2>1
    <3> QED
      BY <1>1, <1>3, <1>4, <1>5, <2>1, <3>1
  <2>2. CASE i # n + 1
    <3>1. i \in 1 .. n /\ i + 1 \in 1 .. n + 1
      BY <2>2
    <3>2. f[i + 1] = After(g, f[i], raw[i]) /\ f[i] \in Steps /\ f[i + 1].asked <= Len(g)
      BY <1>1, <1>4, <3>1 DEF Walk
    <3>3. f[i].asked \in Nat
      BY <3>2 DEF Steps
    <3>4. After(g, f[i], raw[i]) = After(g2, f[i], raw[i])
      <4>1. CASE f[i].mode = "CMD" /\ raw[i] = DataCmd
        <5>1. f[i + 1].asked = f[i].asked + 1
          BY <3>2, <4>1, AfterAsked
        <5>2. f[i].asked + 1 \in 1 .. Len(g)
          <6>1. PICK z \in Nat : z = f[i].asked
            BY <3>3
          <6>2. z + 1 <= Len(g)
            BY <3>2, <5>1, <6>1
          <6>3. z + 1 \in 1 .. Len(g)
            BY <1>6, <6>2
          <6> QED
            BY <6>1, <6>3
        <5>3. g[f[i].asked + 1] = g2[f[i].asked + 1]
          BY <1>6, <5>2
        <5> QED
          BY <5>3 DEF After
      <4>2. CASE ~(f[i].mode = "CMD" /\ raw[i] = DataCmd)
        BY <4>2 DEF After
      <4> QED
        BY <4>1, <4>2
    <3> QED
      BY <1>4, <1>5, <3>1, <3>2, <3>4
  <2> QED
    BY <2>1, <2>2
<1>8. ASSUME NEW i \in 1 .. (n + 1) + 1
      PROVE  f2[i].asked <= Len(g2)
  <2>1. CASE i = n + 2
    BY <1>4, <1>6, <2>1
  <2>2. CASE i # n + 2
    <3>1. i \in 1 .. n + 1
      BY <2>2
    <3>2. f2[i] = f[i] /\ f[i].asked <= Len(g) /\ f[i] \in Steps
      BY <1>1, <1>4, <3>1 DEF Walk
    <3>3. f[i].asked \in Nat
      BY <3>2 DEF Steps
    <3> QED
      BY <1>6, <3>2, <3>3
  <2> QED
    BY <2>1, <2>2
<1>9. f2[1] = [asked |-> 0, mode |-> "CMD"]
  <2>1. 1 \in 1 .. n + 1
    OBVIOUS
  <2> QED
    BY <1>4, <2>1 DEF Walk
<1>10. Len(f2) = Len(raw2) + 1
  BY <1>4, <1>5
<1>11. Walk(f2, raw2, g2)
  BY <1>5, <1>7, <1>8, <1>9, <1>10 DEF Walk
<1> QED
  BY <1>3, <1>4, <1>5, <1>6, <1>11 DEF WalksOn

(* The modes of a walk.                                                     *)
LEMMA ModesOfType ==
  ASSUME NEW f, f \in Seq(Steps)
  PROVE  /\ ModesOf(f) \in Seq(States) /\ Len(ModesOf(f)) = Len(f)
         /\ \A i \in 1 .. Len(f) : ModesOf(f)[i] = f[i].mode
<1>1. Len(f) \in Nat
  BY LenProperties
<1>2. ASSUME NEW i \in 1 .. Len(f) PROVE f[i].mode \in States
  <2>1. f[i] \in Steps
    BY ElementOfSeq
  <2> QED
    BY <2>1 DEF Steps
<1>3. ModesOf(f) \in [1 .. Len(f) -> States]
  BY <1>2 DEF ModesOf
<1> QED
  BY <1>1, <1>3 DEF ModesOf

(* One more step of the walk is one more mode.                              *)
LEMMA ModesOfLonger ==
  ASSUME NEW f, NEW a, f \in Seq(Steps), a \in Steps
  PROVE  ModesOf(Append(f, a)) = Append(ModesOf(f), a.mode)
<1>1. PICK f2 \in Seq(Steps) : f2 = Append(f, a) /\ Longer(f2, f, a, Steps)
  <2>1. Longer(Append(f, a), f, a, Steps)
    BY Appended
  <2>2. Append(f, a) \in Seq(Steps)
    BY <2>1 DEF Longer
  <2> QED
    BY <2>1, <2>2
<1>2. PICK m \in Seq(States) : /\ m = ModesOf(f) /\ Len(m) = Len(f)
                               /\ \A i \in 1 .. Len(f) : m[i] = f[i].mode
  BY ModesOfType
<1>3. PICK m2 \in Seq(States) : /\ m2 = ModesOf(f2) /\ Len(m2) = Len(f2)
                                /\ \A i \in 1 .. Len(f2) : m2[i] = f2[i].mode
  BY ModesOfType
<1>4. a.mode \in States
  BY DEF Steps
<1>5. PICK z \in Seq(States) : z = Append(m, a.mode) /\ Longer(z, m, a.mode, States)
  <2>1. Longer(Append(m, a.mode), m, a.mode, States)
    BY <1>4, Appended
  <2>2. Append(m, a.mode) \in Seq(States)
    BY <2>1 DEF Longer
  <2> QED
    BY <2>1, <2>2
<1>6. PICK n \in Nat : n = Len(f) /\ n = Len(m) /\ Len(f2) = n + 1 /\ Len(z) = n + 1 /\ Len(m2) = n + 1
  <2>1. Len(f) \in Nat /\ Len(f2) = Len(f) + 1 /\ Len(z) = Len(m) + 1
    BY <1>1, <1>5 DEF Longer
  <2> QED
    BY <1>2, <1>3, <2>1
<1>7. ASSUME NEW i \in 1 .. n + 1 PROVE m2[i] = z[i]
  <2>1. CASE i = n + 1
    <3>1. f2[n + 1] = a /\ z[n + 1] = a.mode
      BY <1>1, <1>5, <1>6 DEF Longer
    <3> QED
      BY <1>3, <1>6, <2>1, <3>1
  <2>2. CASE i # n + 1
    <3>1. i \in 1 .. n
      BY <2>2
    <3>2. f2[i] = f[i] /\ z[i] = m[i]
      BY <1>1, <1>5, <1>6, <3>1 DEF Longer
    <3> QED
      BY <1>2, <1>3, <1>6, <3>1, <3>2
  <2> QED
    BY <2>1, <2>2
<1>8. m2 = z
  <2>1. Len(m2) = Len(z) /\ \A i \in 1 .. Len(m2) : m2[i] = z[i]
    BY <1>6, <1>7
  <2> QED
    BY <2>1, SeqEqual
<1> QED
  BY <1>1, <1>2, <1>3, <1>5, <1>8

(* The recursion that Modes chooses has one solution, the walk.             *)
LEMMA ModesAre ==
  ASSUME NEW f, NEW e, IsCut(e, Seen), Seen \in Seq(Bytes), Walk(f, RawOf(e, Seen), granted)
  PROVE  RawLines = RawOf(e, Seen) /\ Modes = ModesOf(f)
<1>1. Ordered(EndsIn(Seen)) = e
  BY CutIs
<1>2. RawLines = RawOf(e, Seen)
  BY <1>1 DEF RawLines, RawOf, LineOf
<1> DEFINE raw == RawLines
           IsMode(h) == h = [i \in 1 .. Len(raw) + 1 |->
                               IF i = 1 THEN [asked |-> 0, mode |-> "CMD"]
                               ELSE ModeAfter(h[i - 1], raw[i - 1])]
           mode == CHOOSE h : IsMode(h)
<1>3. Modes = [i \in 1 .. Len(raw) + 1 |-> mode[i].mode]
  BY DEF Modes
<1>4. PICK n \in Nat : n = Len(raw) /\ Len(f) = n + 1
  <2>1. Len(raw) \in Nat
    BY <1>2, CutType
  <2> QED
    BY <1>2, <2>1 DEF Walk
<1>5. /\ f \in Seq(Steps) /\ f[1] = [asked |-> 0, mode |-> "CMD"]
      /\ \A i \in 1 .. n : f[i + 1] = After(granted, f[i], raw[i])
  BY <1>2, <1>4 DEF Walk
<1> HIDE DEF raw
<1>6. \A i \in 1 .. n + 1 : f[i] = IF i = 1 THEN [asked |-> 0, mode |-> "CMD"]
                                   ELSE ModeAfter(f[i - 1], raw[i - 1])
  <2> SUFFICES ASSUME NEW i \in 1 .. n + 1, i # 1
               PROVE  f[i] = ModeAfter(f[i - 1], raw[i - 1])
    BY <1>5
  <2>1. i - 1 \in 1 .. n /\ (i - 1) + 1 = i
    OBVIOUS
  <2>2. f[(i - 1) + 1] = After(granted, f[i - 1], raw[i - 1])
    BY <1>5, <2>1
  <2> QED
    BY <2>1, <2>2, ModeAfterIs
<1>7. IsMode(f)
  <2>1. f = [i \in 1 .. n + 1 |-> f[i]]
    <3>1. DOMAIN f = 1 .. n + 1
      BY <1>4, <1>5, LenProperties
    <3>2. f \in [1 .. Len(f) -> Steps]
      BY <1>5, LenProperties
    <3> QED
      BY <1>4, <3>2
  <2>2. [i \in 1 .. n + 1 |-> f[i]] = [i \in 1 .. n + 1 |-> IF i = 1 THEN [asked |-> 0, mode |-> "CMD"]
                                                          ELSE ModeAfter(f[i - 1], raw[i - 1])]
    BY <1>6
  <2> QED
    BY <1>4, <2>1, <2>2
<1>8. IsMode(mode)
  <2> HIDE DEF IsMode
  <2> QED
    BY <1>7
<1> HIDE DEF mode
<1>9. /\ \A i \in 1 .. n + 1 : mode[i] = IF i = 1 THEN [asked |-> 0, mode |-> "CMD"]
                                         ELSE ModeAfter(mode[i - 1], raw[i - 1])
  BY <1>4, <1>8
<1>10. \A i \in Nat : i \in 1 .. n + 1 => mode[i] = f[i]
  <2> DEFINE T == {i \in Nat : i \in 1 .. n + 1 => mode[i] = f[i]}
  <2>1. 0 \in T
    OBVIOUS
  <2>2. ASSUME NEW i \in T PROVE i + 1 \in T
    <3> SUFFICES ASSUME i + 1 \in 1 .. n + 1 PROVE mode[i + 1] = f[i + 1]
      OBVIOUS
    <3>1. CASE i = 0
      <4>1. 1 \in 1 .. n + 1 /\ i + 1 = 1
        BY <3>1
      <4> QED
        BY <1>5, <1>9, <4>1
    <3>2. CASE i # 0
      <4>1. i \in 1 .. n + 1 /\ i + 1 # 1 /\ (i + 1) - 1 = i
        BY <3>2
      <4>2. mode[i] = f[i]
        BY <4>1
      <4>3. mode[i + 1] = ModeAfter(mode[i], raw[i])
        BY <1>9, <4>1
      <4>4. f[i + 1] = ModeAfter(f[i], raw[i])
        BY <1>6, <4>1
      <4> QED
        BY <4>2, <4>3, <4>4
    <3> QED
      BY <3>1, <3>2
  <2>3. T = Nat
    <3> HIDE DEF T
    <3>1. T \in SUBSET Nat
      BY DEF T
    <3> QED
      BY <2>1, <2>2, <3>1, Induction
  <2> QED
    BY <2>3
<1>11. \A i \in 1 .. n + 1 : mode[i] = f[i]
  BY <1>10
<1>12. Modes = ModesOf(f)
  BY <1>3, <1>4, <1>11 DEF ModesOf
<1> QED
  BY <1>2, <1>12

(* One more line, and the mode behind it.                                   *)
Grows(raw, m, l, k, raw2, m2) ==
  /\ raw \in Seq(Seq(Bytes)) /\ m \in Seq(States) /\ Len(m) = Len(raw) + 1
  /\ l \in Seq(Bytes) /\ k \in States
  /\ raw2 = Append(raw, l) /\ m2 = Append(m, k)

Sized(n, raw, m, l, k, raw2, m2) ==
  /\ Len(raw) = n /\ Len(m) = n + 1 /\ Len(raw2) = n + 1 /\ Len(m2) = n + 2
  /\ raw \in Seq(Seq(Bytes)) /\ raw2 \in Seq(Seq(Bytes)) /\ m \in Seq(States) /\ m2 \in Seq(States)
  /\ DOMAIN raw = 1 .. n /\ DOMAIN raw2 = 1 .. n + 1 /\ DOMAIN m = 1 .. n + 1 /\ DOMAIN m2 = 1 .. n + 2
  /\ \A i \in 1 .. n : raw2[i] = raw[i] /\ raw[i] \in Seq(Bytes)
  /\ \A i \in 1 .. n + 1 : m2[i] = m[i] /\ m[i] \in States
  /\ raw2[n + 1] = l /\ m2[n + 2] = k

(* The lengths and the elements of what grows.                              *)
LEMMA Grown ==
  ASSUME NEW raw, NEW m, NEW l, NEW k, NEW raw2, NEW m2, Grows(raw, m, l, k, raw2, m2)
  PROVE  \E n \in Nat : Sized(n, raw, m, l, k, raw2, m2)
<1>1. Longer(raw2, raw, l, Seq(Bytes))
  BY Appended DEF Grows
<1>2. Longer(m2, m, k, States)
  BY Appended DEF Grows
<1>3. PICK n \in Nat : n = Len(raw) /\ Len(m) = n + 1
  BY <1>1 DEF Grows, Longer
<1>4. (n + 1) + 1 = n + 2
  OBVIOUS
<1>5. /\ Len(raw2) = n + 1 /\ raw \in Seq(Seq(Bytes)) /\ raw2 \in Seq(Seq(Bytes))
      /\ DOMAIN raw = 1 .. n /\ DOMAIN raw2 = 1 .. n + 1
      /\ \A i \in 1 .. n : raw2[i] = raw[i] /\ raw[i] \in Seq(Bytes)
      /\ raw2[n + 1] = l
  BY <1>1, <1>3 DEF Longer
<1>6. /\ Len(m2) = n + 2 /\ m \in Seq(States) /\ m2 \in Seq(States)
      /\ DOMAIN m = 1 .. n + 1 /\ DOMAIN m2 = 1 .. n + 2
      /\ \A i \in 1 .. n + 1 : m2[i] = m[i] /\ m[i] \in States
      /\ m2[n + 2] = k
  BY <1>2, <1>3, <1>4 DEF Longer
<1>7. Sized(n, raw, m, l, k, raw2, m2)
  BY <1>3, <1>5, <1>6 DEF Sized
<1> QED
  BY <1>7

Handed(st, l) == IF Len(l) <= CapacityFor(st) THEN l ELSE TooLong

(* One more line is handed on as its length has it.                         *)
LEMMA SplitsMore ==
  ASSUME NEW raw, NEW m, NEW l, NEW k, NEW raw2, NEW m2, NEW ls, NEW ls2,
         Grows(raw, m, l, k, raw2, m2), Splits(raw, m, ls),
         ls2 = Append(ls, Handed(m[Len(m)], l))
  PROVE  Splits(raw2, m2, ls2)
<1>0. PICK n \in Nat : Sized(n, raw, m, l, k, raw2, m2)
  BY Grown
<1>1. /\ Len(raw) = n /\ Len(m) = n + 1
      /\ DOMAIN raw = 1 .. n /\ DOMAIN raw2 = 1 .. n + 1
      /\ \A i \in 1 .. n : raw2[i] = raw[i] /\ raw[i] \in Seq(Bytes)
      /\ \A i \in 1 .. n + 1 : m2[i] = m[i]
      /\ raw2[n + 1] = l
  BY <1>0 DEF Sized
<1> DEFINE got == Handed(m[n + 1], l)
           w(i) == IF Len(raw2[i]) <= CapacityFor(m2[i]) THEN raw2[i] ELSE TooLong
           S == Seq(Bytes) \cup {TooLong}
<1>2. ls = [i \in 1 .. n |-> w(i)]
  <2>1. ls = [i \in 1 .. n |-> IF Len(raw[i]) <= CapacityFor(m[i]) THEN raw[i] ELSE TooLong]
    BY <1>1 DEF Splits
  <2>2. \A i \in 1 .. n : i \in 1 .. n + 1
    OBVIOUS
  <2>3. \A i \in 1 .. n : w(i) = IF Len(raw[i]) <= CapacityFor(m[i]) THEN raw[i] ELSE TooLong
    BY <1>1, <2>2
  <2> QED
    BY <2>1, <2>3
<1>3. \A i \in 1 .. n : w(i) \in S
  BY <1>1
<1>4. w(n + 1) = got
  <2>1. n + 1 \in 1 .. n + 1
    OBVIOUS
  <2> QED
    BY <1>1, <2>1 DEF Handed
<1>5. got \in S /\ ls2 = Append(ls, got)
  BY <1>1 DEF Grows, Handed
<1> HIDE DEF w, got, S
<1>6. ls \in [1 .. n -> S]
  BY <1>2, <1>3
<1>7. ls \in Seq(S) /\ Len(ls) = n
  BY <1>6
<1>8. Longer(ls2, ls, got, S)
  BY <1>5, <1>7, Appended
<1>9. ls2 = [i \in 1 .. n + 1 |-> w(i)]
  <2>1. ls2 \in Seq(S) /\ Len(ls2) = n + 1
    BY <1>7, <1>8 DEF Longer
  <2>2. DOMAIN ls2 = 1 .. n + 1 /\ ls2 = [i \in 1 .. n + 1 |-> ls2[i]]
    <3>1. ls2 \in [1 .. Len(ls2) -> S]
      BY <2>1, LenProperties
    <3> QED
      BY <2>1, <3>1
  <2>3. ASSUME NEW i \in 1 .. n + 1 PROVE ls2[i] = w(i)
    <3>1. CASE i = n + 1
      BY <1>4, <1>7, <1>8, <3>1 DEF Longer
    <3>2. CASE i # n + 1
      <4>1. i \in 1 .. n
        BY <3>2
      <4> QED
        BY <1>2, <1>7, <1>8, <4>1 DEF Longer
    <3> QED
      BY <3>1, <3>2
  <2> QED
    BY <2>2, <2>3
<1> QED
  BY <1>1, <1>9 DEF Splits, w

(* Of the lines before, what began a message is the same.                   *)
LEMMA StartsStays ==
  ASSUME NEW raw, NEW m, NEW l, NEW k, NEW raw2, NEW m2, NEW i, NEW s,
         Grows(raw, m, l, k, raw2, m2), i \in 1 .. Len(m)
  PROVE  Starts(m2, i, s) <=> Starts(m, i, s)
<1>0. PICK n \in Nat : Sized(n, raw, m, l, k, raw2, m2)
  BY Grown
<1>1. Len(m) = n + 1 /\ \A j \in 1 .. n + 1 : m2[j] = m[j]
  BY <1>0 DEF Sized
<1>2. ASSUME s \in 1 .. i - 1
      PROVE  s \in 1 .. n + 1 /\ \A j \in s + 1 .. i - 1 : j \in 1 .. n + 1
  BY <1>1, <1>2
<1> QED
  BY <1>1, <1>2 DEF Starts

(* Text still stands behind the command that began it.                      *)
LEMMA StartedMore ==
  ASSUME NEW raw, NEW m, NEW l, NEW k, NEW raw2, NEW m2,
         Grows(raw, m, l, k, raw2, m2), Started(m),
         k = "DATA" => m[Len(m)] \in {"CMD", "DATA"}
  PROVE  Started(m2)
<1>0. PICK n \in Nat : Sized(n, raw, m, l, k, raw2, m2)
  BY Grown
<1>1. /\ Len(m) = n + 1 /\ DOMAIN m = 1 .. n + 1 /\ DOMAIN m2 = 1 .. n + 2
      /\ \A i \in 1 .. n + 1 : m2[i] = m[i]
      /\ m2[n + 2] = k
  BY <1>0 DEF Sized
<1> SUFFICES ASSUME NEW i \in 1 .. n + 2, m2[i] = "DATA"
             PROVE  \E s : Starts(m2, i, s)
  BY <1>1 DEF Started
<1>2. CASE i \in 1 .. n + 1
  <2>1. m[i] = "DATA"
    BY <1>1, <1>2
  <2>2. PICK s : Starts(m, i, s)
    BY <1>1, <1>2, <2>1 DEF Started
  <2>3. i \in 1 .. Len(m)
    BY <1>1, <1>2
  <2> QED
    BY <2>2, <2>3, StartsStays
<1>3. CASE i = n + 2 /\ m[n + 1] = "CMD"
  <2>1. n + 1 \in 1 .. i - 1 /\ \A j \in (n + 1) + 1 .. i - 1 : FALSE
    BY <1>3
  <2>2. m2[n + 1] = "CMD"
    BY <1>1, <1>3
  <2>3. Starts(m2, i, n + 1)
    BY <2>1, <2>2 DEF Starts
  <2> QED
    BY <2>3
<1>4. CASE i = n + 2 /\ m[n + 1] = "DATA"
  <2>1. PICK s : Starts(m, n + 1, s)
    BY <1>1, <1>4 DEF Started
  <2>2. s \in 1 .. n /\ m[s] = "CMD" /\ \A j \in s + 1 .. n : m[j] = "DATA"
    BY <2>1 DEF Starts
  <2>3. m2[s] = "CMD"
    BY <1>1, <2>2
  <2>4. ASSUME NEW j \in s + 1 .. n + 1 PROVE m2[j] = "DATA"
    <3>1. j \in 1 .. n + 1 /\ (j = n + 1 \/ j \in s + 1 .. n)
      BY <2>2
    <3> QED
      BY <1>1, <1>4, <2>2, <3>1
  <2>5. s \in 1 .. i - 1 /\ i - 1 = n + 1
    BY <1>4, <2>2
  <2> QED
    BY <2>3, <2>4, <2>5 DEF Starts
<1>5. i \in 1 .. n + 1 \/ i = n + 2
  OBVIOUS
<1> QED
  BY <1>1, <1>2, <1>3, <1>4, <1>5

(* There is one line that a message began behind.                           *)
LEMMA MessageIs ==
  ASSUME NEW raw, NEW m, NEW i, NEW s, i \in Nat, Starts(m, i, s)
  PROVE  MessageLines(raw, m, i) = SubSeq(raw, s + 1, i - 1)
<1> DEFINE P(z) == m[z] = "CMD" /\ \A j \in z + 1 .. i - 1 : m[j] = "DATA"
<1>1. s \in 1 .. i - 1 /\ P(s)
  BY DEF Starts
<1>2. ASSUME NEW z \in 1 .. i - 1, P(z) PROVE z = s
  <2>1. z < s => s \in z + 1 .. i - 1
    BY <1>1
  <2>2. s < z => z \in s + 1 .. i - 1
    BY <1>1
  <2>3. ~(z < s) /\ ~(s < z)
    BY <1>1, <1>2, <2>1, <2>2
  <2> QED
    BY <1>1, <2>3
<1>3. (CHOOSE z \in 1 .. i - 1 : P(z)) = s
  <2> HIDE DEF P
  <2> QED
    BY <1>1, <1>2
<1> QED
  BY <1>3 DEF MessageLines

(* A part of the lines before is the same.                                  *)
SamePart(raw2, raw, a, z) ==
  /\ SubSeq(raw2, a + 1, z) = SubSeq(raw, a + 1, z)
  /\ DOMAIN SubSeq(raw, a + 1, z) = 1 .. z - a
  /\ \A j \in 1 .. z - a : SubSeq(raw, a + 1, z)[j] = raw[a + j]

(* The lines of a message stay when another one comes.                      *)
LEMMA PartStays ==
  ASSUME NEW raw, NEW m, NEW l, NEW k, NEW raw2, NEW m2, NEW a, NEW z,
         Grows(raw, m, l, k, raw2, m2), a \in Nat, z \in Nat, a <= z, z <= Len(raw)
  PROVE  SamePart(raw2, raw, a, z)
<1>0. PICK n \in Nat : Sized(n, raw, m, l, k, raw2, m2)
  BY Grown
<1>1. /\ raw \in Seq(Seq(Bytes)) /\ raw2 \in Seq(Seq(Bytes)) /\ Len(raw) = n /\ Len(raw2) = n + 1
      /\ \A i \in 1 .. n : raw2[i] = raw[i]
  BY <1>0 DEF Sized
<1>2. z <= Len(raw2)
  BY <1>1
<1>3. PICK p \in Seq(Seq(Bytes)) : /\ p = SubSeq(raw, a + 1, z) /\ Len(p) = z - a
                                   /\ \A j \in 1 .. z - a : p[j] = raw[a + j]
  <2>1. /\ SubSeq(raw, a + 1, z) \in Seq(Seq(Bytes)) /\ Len(SubSeq(raw, a + 1, z)) = z - a
        /\ \A j \in 1 .. z - a : SubSeq(raw, a + 1, z)[j] = raw[a + j]
    BY <1>1, Piece
  <2> QED
    BY <2>1
<1>4. PICK q \in Seq(Seq(Bytes)) : /\ q = SubSeq(raw2, a + 1, z) /\ Len(q) = z - a
                                   /\ \A j \in 1 .. z - a : q[j] = raw2[a + j]
  <2>1. /\ SubSeq(raw2, a + 1, z) \in Seq(Seq(Bytes)) /\ Len(SubSeq(raw2, a + 1, z)) = z - a
        /\ \A j \in 1 .. z - a : SubSeq(raw2, a + 1, z)[j] = raw2[a + j]
    BY <1>1, <1>2, Piece
  <2> QED
    BY <2>1
<1>5. \A j \in 1 .. z - a : a + j \in 1 .. n
  BY <1>1
<1>6. p = q
  <2>1. Len(p) = Len(q) /\ \A j \in 1 .. Len(p) : p[j] = q[j]
    BY <1>1, <1>3, <1>4, <1>5
  <2> QED
    BY <2>1, SeqEqual
<1>7. DOMAIN p = 1 .. z - a
  BY <1>3, LenProperties
<1> QED
  BY <1>3, <1>4, <1>6, <1>7 DEF SamePart

(* What is expected of the lines before is the same.                        *)
LEMMA ExpectedStays ==
  ASSUME NEW raw, NEW m, NEW l, NEW k, NEW raw2, NEW m2, NEW i,
         Grows(raw, m, l, k, raw2, m2), Started(m), i \in 1 .. Len(raw)
  PROVE  Expected(raw2, m2, i) = Expected(raw, m, i)
<1>0. PICK n \in Nat : Sized(n, raw, m, l, k, raw2, m2)
  BY Grown
<1>1. /\ Len(raw) = n /\ Len(m) = n + 1 /\ DOMAIN m = 1 .. n + 1
      /\ \A j \in 1 .. n : raw2[j] = raw[j]
      /\ \A j \in 1 .. n + 1 : m2[j] = m[j]
  BY <1>0 DEF Sized
<1>2. i \in 1 .. n /\ i \in 1 .. n + 1 /\ i + 1 \in 1 .. n + 1 /\ i \in Nat
  BY <1>1
<1>3. raw2[i] = raw[i] /\ m2[i] = m[i] /\ m2[i + 1] = m[i + 1]
  BY <1>1, <1>2
<1>4. ASSUME m[i] = "DATA"
      PROVE  MessageLines(raw2, m2, i) = MessageLines(raw, m, i)
  <2>1. PICK s : Starts(m, i, s)
    BY <1>1, <1>2, <1>4 DEF Started
  <2>2. Starts(m2, i, s)
    BY <1>1, <1>2, <2>1, StartsStays
  <2>3. s \in Nat /\ i - 1 \in Nat /\ s <= i - 1 /\ i - 1 <= Len(raw)
    BY <1>1, <1>2, <2>1 DEF Starts
  <2>4. SubSeq(raw2, s + 1, i - 1) = SubSeq(raw, s + 1, i - 1)
    <3>1. PICK z \in Nat : z = i - 1
      BY <2>3
    <3>2. SubSeq(raw2, s + 1, z) = SubSeq(raw, s + 1, z)
      <4>1. s \in Nat /\ s <= z /\ z <= Len(raw)
        BY <2>3, <3>1
      <4>2. SamePart(raw2, raw, s, z)
        BY <4>1, PartStays
      <4> QED
        BY <4>2 DEF SamePart
    <3> QED
      BY <3>1, <3>2
  <2>5. MessageLines(raw, m, i) = SubSeq(raw, s + 1, i - 1)
    BY <1>2, <2>1, MessageIs
  <2>6. MessageLines(raw2, m2, i) = SubSeq(raw2, s + 1, i - 1)
    BY <1>2, <2>2, MessageIs
  <2> QED
    BY <2>4, <2>5, <2>6
<1> QED
  BY <1>3, <1>4 DEF Expected

(* A function on the first naturals with one more element.                  *)
LEMMA OneMore ==
  ASSUME NEW q, NEW x, NEW n, n \in Nat, q = [j \in 1 .. n |-> q[j]]
  PROVE  Append(q, x) = [j \in 1 .. n + 1 |-> IF j = n + 1 THEN x ELSE q[j]]
<1> DEFINE S == {q[j] : j \in 1 .. n} \cup {x}
<1>1. x \in S /\ \A j \in 1 .. n : q[j] \in S
  OBVIOUS
<1> HIDE DEF S
<1>2. q \in [1 .. n -> S]
  BY <1>1
<1>3. q \in Seq(S) /\ Len(q) = n
  BY <1>2
<1>4. Longer(Append(q, x), q, x, S)
  BY <1>1, <1>3, Appended
<1>5. PICK p \in Seq(S) : p = Append(q, x) /\ Len(p) = n + 1
  BY <1>3, <1>4 DEF Longer
<1>6. p = [j \in 1 .. n + 1 |-> p[j]]
  <2>1. p \in [1 .. Len(p) -> S]
    BY LenProperties
  <2> QED
    BY <1>5, <2>1
<1>7. ASSUME NEW j \in 1 .. n + 1 PROVE p[j] = IF j = n + 1 THEN x ELSE q[j]
  <2>1. CASE j = n + 1
    BY <1>3, <1>4, <1>5, <2>1 DEF Longer
  <2>2. CASE j # n + 1
    <3>1. j \in 1 .. n
      BY <2>2
    <3> QED
      BY <1>3, <1>4, <1>5, <2>2, <3>1 DEF Longer
  <2> QED
    BY <2>1, <2>2
<1> QED
  BY <1>5, <1>6, <1>7

(* One place more, behind all the others.                                   *)
Placed(e2, e, n) ==
  /\ e2 \in Seq(Nat \ {0}) /\ Increasing(e2) /\ PlacesOf(e2) = PlacesOf(e) \cup {n}
  /\ Longer(e2, e, n, Nat \ {0})

(* The last place of an increasing sequence of places.                      *)
LEMMA LastPlace ==
  ASSUME NEW e, NEW n, NEW e2, e \in Seq(Nat \ {0}), Increasing(e), n \in Nat \ {0},
         \A p \in PlacesOf(e) : p < n, e2 = Append(e, n)
  PROVE  Placed(e2, e, n)
<1>1. Longer(e2, e, n, Nat \ {0})
  BY Appended
<1>2. PICK c \in Nat : c = Len(e)
  BY LenProperties
<1>3. /\ e2 \in Seq(Nat \ {0}) /\ DOMAIN e2 = 1 .. c + 1 /\ DOMAIN e = 1 .. c
      /\ \A i \in 1 .. c : e2[i] = e[i] /\ e[i] \in Nat
      /\ e2[c + 1] = n
  BY <1>1, <1>2 DEF Longer
<1>4. Increasing(e2)
  <2> SUFFICES ASSUME NEW i \in 1 .. c + 1, NEW j \in 1 .. c + 1, i < j PROVE e2[i] < e2[j]
    BY <1>3 DEF Increasing
  <2>1. i \in 1 .. c
    OBVIOUS
  <2>2. CASE j = c + 1
    <3>1. e[i] \in PlacesOf(e)
      BY <1>3, <2>1 DEF PlacesOf
    <3> QED
      BY <1>3, <2>1, <2>2, <3>1
  <2>3. CASE j # c + 1
    <3>1. j \in 1 .. c
      BY <2>3
    <3> QED
      BY <1>3, <2>1, <3>1 DEF Increasing
  <2> QED
    BY <2>2, <2>3
<1>5. PlacesOf(e2) = PlacesOf(e) \cup {n}
  <2>1. ASSUME NEW p \in PlacesOf(e2) PROVE p \in PlacesOf(e) \cup {n}
    <3>1. PICK i \in 1 .. c + 1 : p = e2[i]
      BY <1>3 DEF PlacesOf
    <3>2. i \in 1 .. c \/ i = c + 1
      OBVIOUS
    <3> QED
      BY <1>3, <3>1, <3>2 DEF PlacesOf
  <2>2. ASSUME NEW p \in PlacesOf(e) PROVE p \in PlacesOf(e2)
    <3>1. PICK i \in 1 .. c : p = e[i]
      BY <1>3 DEF PlacesOf
    <3>2. i \in 1 .. c + 1
      OBVIOUS
    <3> QED
      BY <1>3, <3>1, <3>2 DEF PlacesOf
  <2>3. n \in PlacesOf(e2)
    <3>1. c + 1 \in 1 .. c + 1
      OBVIOUS
    <3> QED
      BY <1>3, <3>1 DEF PlacesOf
  <2> QED
    BY <2>1, <2>2, <2>3
<1> QED
  BY <1>1, <1>3, <1>4, <1>5 DEF Placed

(* The answers stay when a line is not answered.                            *)
LEMMA AnswersStay ==
  ASSUME NEW raw, NEW m, NEW l, NEW k, NEW raw2, NEW m2, NEW ev,
         Grows(raw, m, l, k, raw2, m2), Started(m), Answers(raw, m, ev),
         m[Len(m)] # "CMD", ~(m[Len(m)] = "DATA" /\ l = <<Dot>>)
  PROVE  Answers(raw2, m2, ev)
<1>0. PICK n \in Nat : Sized(n, raw, m, l, k, raw2, m2)
  BY Grown
<1>1. /\ Len(raw) = n /\ Len(m) = n + 1 /\ DOMAIN raw = 1 .. n /\ DOMAIN raw2 = 1 .. n + 1
      /\ \A i \in 1 .. n : raw2[i] = raw[i]
      /\ \A i \in 1 .. n + 1 : m2[i] = m[i]
      /\ raw2[n + 1] = l
  BY <1>0 DEF Sized
<1>2. PICK order \in Seq(Nat \ {0}) :
        /\ Increasing(order) /\ PlacesOf(order) = Answered(raw, m)
        /\ ev = [x \in DOMAIN order |-> Expected(raw, m, order[x])]
  BY DEF Answers
<1>3. Answered(raw2, m2) = Answered(raw, m)
  <2>1. ASSUME NEW i \in 1 .. n
        PROVE  i \in Answered(raw2, m2) <=> i \in Answered(raw, m)
    <3>1. i \in 1 .. n + 1
      OBVIOUS
    <3> QED
      BY <1>1, <3>1 DEF Answered
  <2>2. n + 1 \notin Answered(raw2, m2)
    <3>1. n + 1 \in 1 .. n + 1
      OBVIOUS
    <3> QED
      BY <1>1, <3>1 DEF Answered
  <2>3. Answered(raw, m) \subseteq 1 .. n /\ Answered(raw2, m2) \subseteq 1 .. n + 1
    BY <1>1 DEF Answered
  <2>4. \A i \in 1 .. n + 1 : i = n + 1 \/ i \in 1 .. n
    OBVIOUS
  <2> QED
    BY <2>1, <2>2, <2>3, <2>4
<1>4. ASSUME NEW x \in DOMAIN order
      PROVE  Expected(raw2, m2, order[x]) = Expected(raw, m, order[x])
  <2>1. order[x] \in 1 .. Len(raw)
    BY <1>1, <1>2 DEF PlacesOf, Answered
  <2> QED
    BY <2>1, ExpectedStays
<1> QED
  BY <1>2, <1>3, <1>4 DEF Answers

Replies(raw, m, i, ev, ev2) == ev2 = Append(ev, Expected(raw, m, i))

(* A line that is answered has the last answer.                             *)
LEMMA AnswersMore ==
  ASSUME NEW raw, NEW m, NEW l, NEW k, NEW raw2, NEW m2, NEW ev, NEW ev2,
         Grows(raw, m, l, k, raw2, m2), Started(m), Answers(raw, m, ev),
         m[Len(m)] = "CMD" \/ (m[Len(m)] = "DATA" /\ l = <<Dot>>),
         Replies(raw2, m2, Len(m), ev, ev2)
  PROVE  Answers(raw2, m2, ev2)
<1>0. PICK n \in Nat : Sized(n, raw, m, l, k, raw2, m2)
  BY Grown
<1>1. /\ Len(raw) = n /\ Len(m) = n + 1 /\ DOMAIN raw = 1 .. n /\ DOMAIN raw2 = 1 .. n + 1
      /\ \A i \in 1 .. n : raw2[i] = raw[i]
      /\ \A i \in 1 .. n + 1 : m2[i] = m[i]
      /\ raw2[n + 1] = l
  BY <1>0 DEF Sized
<1>2. PICK order \in Seq(Nat \ {0}) :
        /\ Increasing(order) /\ PlacesOf(order) = Answered(raw, m)
        /\ ev = [x \in DOMAIN order |-> Expected(raw, m, order[x])]
  BY DEF Answers
<1>3. Answered(raw2, m2) = Answered(raw, m) \cup {n + 1}
  <2>1. ASSUME NEW i \in 1 .. n
        PROVE  i \in Answered(raw2, m2) <=> i \in Answered(raw, m)
    <3>1. i \in 1 .. n + 1
      OBVIOUS
    <3> QED
      BY <1>1, <3>1 DEF Answered
  <2>2. n + 1 \in Answered(raw2, m2)
    <3>1. n + 1 \in 1 .. n + 1
      OBVIOUS
    <3> QED
      BY <1>1, <3>1 DEF Answered
  <2>3. Answered(raw, m) \subseteq 1 .. n /\ Answered(raw2, m2) \subseteq 1 .. n + 1
    BY <1>1 DEF Answered
  <2>4. \A i \in 1 .. n + 1 : i = n + 1 \/ i \in 1 .. n
    OBVIOUS
  <2> QED
    BY <2>1, <2>2, <2>3, <2>4
<1>4. \A p \in PlacesOf(order) : p \in 1 .. n /\ p < n + 1
  <2>1. PlacesOf(order) \subseteq 1 .. n
    BY <1>1, <1>2 DEF Answered
  <2> QED
    BY <2>1
<1>5. PICK order2 : order2 = Append(order, n + 1)
  OBVIOUS
<1>6. /\ order2 \in Seq(Nat \ {0}) /\ Increasing(order2) /\ PlacesOf(order2) = PlacesOf(order) \cup {n + 1}
      /\ Longer(order2, order, n + 1, Nat \ {0})
  <2>1. n + 1 \in Nat \ {0} /\ \A p \in PlacesOf(order) : p < n + 1
    BY <1>4
  <2>2. order \in Seq(Nat \ {0}) /\ Increasing(order)
    BY <1>2
  <2>3. PICK y \in Nat \ {0} : y = n + 1 /\ (\A p \in PlacesOf(order) : p < y) /\ order2 = Append(order, y)
    BY <1>5, <2>1
  <2>4. Placed(order2, order, y)
    BY <2>2, <2>3, LastPlace
  <2> QED
    BY <2>3, <2>4 DEF Placed
<1>7. PICK c \in Nat : c = Len(order)
  BY LenProperties
<1>8. /\ DOMAIN order = 1 .. c /\ DOMAIN order2 = 1 .. c + 1
      /\ \A x \in 1 .. c : order2[x] = order[x]
      /\ order2[c + 1] = n + 1
  BY <1>6, <1>7 DEF Longer
<1> DEFINE w == Expected(raw2, m2, n + 1)
<1>9. ev2 = Append(ev, w)
  BY <1>1 DEF Replies
<1>10. ev = [x \in 1 .. c |-> ev[x]]
  BY <1>2, <1>8
<1> HIDE DEF w
<1>11. ev2 = [x \in 1 .. c + 1 |-> IF x = c + 1 THEN w ELSE ev[x]]
  BY <1>9, <1>10, OneMore
<1>12. ASSUME NEW x \in 1 .. c + 1
       PROVE  (IF x = c + 1 THEN w ELSE ev[x]) = Expected(raw2, m2, order2[x])
  <2>1. CASE x = c + 1
    BY <1>8, <2>1 DEF w
  <2>2. CASE x # c + 1
    <3>1. x \in 1 .. c
      BY <2>2
    <3>2. order[x] \in 1 .. Len(raw)
      BY <1>1, <1>4, <1>8, <3>1 DEF PlacesOf
    <3>3. Expected(raw2, m2, order[x]) = Expected(raw, m, order[x])
      BY <3>2, ExpectedStays
    <3>4. ev[x] = Expected(raw, m, order[x])
      BY <1>2, <1>8, <3>1
    <3> QED
      BY <1>8, <2>2, <3>1, <3>3, <3>4
  <2> QED
    BY <2>1, <2>2
<1>13. ev2 = [x \in DOMAIN order2 |-> Expected(raw2, m2, order2[x])]
  BY <1>8, <1>11, <1>12
<1> QED
  BY <1>2, <1>3, <1>6, <1>13 DEF Answers

(* The command that begins a message.                                       *)
LEMMA MessageBegins ==
  ASSUME NEW raw, NEW m, NEW l, NEW k, NEW raw2, NEW m2,
         Grows(raw, m, l, k, raw2, m2), m[Len(m)] = "CMD"
  PROVE  InMessage(raw2, m2, FALSE, <<>>)
<1>0. PICK n \in Nat : Sized(n, raw, m, l, k, raw2, m2)
  BY Grown
<1>1. Len(m) = n + 1 /\ Len(raw2) = n + 1 /\ \A i \in 1 .. n + 1 : m2[i] = m[i]
  BY <1>0 DEF Sized
<1>2. /\ n + 1 \in 1 .. n + 1 /\ (n + 1) + 1 = n + 2 /\ (n + 2) - 1 = n + 1
      /\ \A j \in (n + 1) + 1 .. n + 1 : FALSE
  OBVIOUS
<1>3. Starts(m2, (n + 1) + 1, n + 1)
  BY <1>1, <1>2 DEF Starts
<1>4. <<>> = [j \in 1 .. (n + 1) - (n + 1) |-> Unstuffed(raw2[(n + 1) + j])]
  <2>1. (n + 1) - (n + 1) = 0
    OBVIOUS
  <2> QED
    BY <2>1
<1> QED
  BY <1>1, <1>2, <1>3, <1>4 DEF InMessage

(* A line of text: kept, or the message is refused.                         *)
LEMMA MessageGoesOn ==
  ASSUME NEW raw, NEW m, NEW l, NEW k, NEW raw2, NEW m2, NEW tl, NEW tx, NEW got, NEW tl2, NEW tx2,
         Grows(raw, m, l, k, raw2, m2), m[Len(m)] = "DATA", tl \in BOOLEAN, tl2 \in BOOLEAN,
         InMessage(raw, m, tl, tx),
         got = (IF Len(l) <= LineCapacity THEN l ELSE TooLong),
         tl2 <=> (tl \/ Over(got)),
         tx2 = IF tl2 THEN tx ELSE Append(tx, Unstuffed(got))
  PROVE  InMessage(raw2, m2, tl2, tx2)
<1>0. PICK n \in Nat : Sized(n, raw, m, l, k, raw2, m2)
  BY Grown
<1>1. /\ Len(raw) = n /\ Len(m) = n + 1 /\ Len(raw2) = n + 1
      /\ \A i \in 1 .. n : raw2[i] = raw[i]
      /\ \A i \in 1 .. n + 1 : m2[i] = m[i]
      /\ raw2[n + 1] = l
  BY <1>0 DEF Sized
<1>2. PICK s : /\ Starts(m, n + 1, s)
               /\ tl <=> (\E j \in s + 1 .. n : ~FitsBoth(raw[j]))
               /\ ~tl => tx = [j \in 1 .. n - s |-> Unstuffed(raw[s + j])]
  BY <1>1 DEF InMessage
<1>3. s \in 1 .. n /\ m[s] = "CMD" /\ \A j \in s + 1 .. n : m[j] = "DATA"
  BY <1>2 DEF Starts
<1>4. Starts(m2, (n + 1) + 1, s)
  <2>1. s \in 1 .. n + 1 /\ s \in 1 .. ((n + 1) + 1) - 1 /\ ((n + 1) + 1) - 1 = n + 1
    BY <1>3
  <2>2. ASSUME NEW j \in s + 1 .. n + 1 PROVE m2[j] = "DATA"
    <3>1. j \in 1 .. n + 1 /\ (j = n + 1 \/ j \in s + 1 .. n)
      BY <1>3
    <3> QED
      BY <1>1, <1>3, <3>1
  <2> QED
    BY <1>1, <1>3, <2>1, <2>2 DEF Starts
<1>5. l \in Seq(Bytes) /\ l # TooLong
  <2>1. l \in Seq(Bytes) /\ Bytes \subseteq Bytes \cup {NUL}
    BY DEF Grows
  <2>2. l \in Seq(Bytes \cup {NUL})
    BY <2>1, SeqMonotonic
  <2> QED
    BY <2>1, <2>2, CommandsAssumption
<1>6. Over(got) <=> ~FitsBoth(l)
  <2>1. CASE Len(l) <= LineCapacity
    <3>1. Len(Unstuffed(l)) \in Nat
      BY <1>5 DEF Unstuffed
    <3>2. MaxText \in Nat
      BY CapacitiesAssumption
    <3> QED
      BY <1>5, <2>1, <3>1, <3>2 DEF Over, FitsBoth
  <2>2. CASE ~(Len(l) <= LineCapacity)
    BY <2>2 DEF Over, FitsBoth
  <2> QED
    BY <2>1, <2>2
<1>7. tl2 <=> (\E j \in s + 1 .. n + 1 : ~FitsBoth(raw2[j]))
  <2>1. \A j \in s + 1 .. n + 1 : j = n + 1 \/ (j \in s + 1 .. n /\ j \in 1 .. n)
    BY <1>3
  <2>2. \A j \in s + 1 .. n : j \in s + 1 .. n + 1 /\ j \in 1 .. n
    BY <1>3
  <2>3. n + 1 \in s + 1 .. n + 1
    BY <1>3
  <2> QED
    BY <1>1, <1>2, <1>6, <2>1, <2>2, <2>3
<1>8. ASSUME ~tl2
      PROVE  tx2 = [j \in 1 .. (n + 1) - s |-> Unstuffed(raw2[s + j])]
  <2>1. ~tl /\ FitsBoth(l) /\ got = l
    BY <1>6, <1>8 DEF FitsBoth
  <2>2. PICK c \in Nat : c = n - s /\ (n + 1) - s = c + 1 /\ s + (c + 1) = n + 1
    <3>1. n - s \in Nat /\ (n + 1) - s = (n - s) + 1 /\ s + ((n - s) + 1) = n + 1
      BY <1>3
    <3> QED
      BY <3>1
  <2>3. tx = [j \in 1 .. c |-> Unstuffed(raw[s + j])] /\ tx2 = Append(tx, Unstuffed(l))
    BY <1>2, <1>8, <2>1, <2>2
  <2>4. tx = [j \in 1 .. c |-> tx[j]]
    BY <2>3
  <2>5. tx2 = [j \in 1 .. c + 1 |-> IF j = c + 1 THEN Unstuffed(l) ELSE tx[j]]
    <3>1. c \in Nat
      BY <2>2
    <3>2. tx2 = Append(tx, Unstuffed(l))
      BY <2>3
    <3>3. Append(tx, Unstuffed(l)) = [j \in 1 .. c + 1 |-> IF j = c + 1 THEN Unstuffed(l) ELSE tx[j]]
      BY <2>4, <3>1, OneMore
    <3> QED
      BY <3>2, <3>3
  <2>6. ASSUME NEW j \in 1 .. c + 1
        PROVE  (IF j = c + 1 THEN Unstuffed(l) ELSE tx[j]) = Unstuffed(raw2[s + j])
    <3>1. CASE j = c + 1
      BY <1>1, <2>2, <3>1
    <3>2. CASE j # c + 1
      <4>1. j \in 1 .. c /\ s + j \in 1 .. n
        BY <1>3, <2>2, <3>2
      <4> QED
        BY <1>1, <2>3, <3>2, <4>1
    <3> QED
      BY <3>1, <3>2
  <2> QED
    BY <2>2, <2>5, <2>6
<1> QED
  BY <1>1, <1>4, <1>7, <1>8 DEF InMessage

(* The end of a message: its verdict is the one expected.                   *)
LEMMA VerdictIs ==
  ASSUME NEW raw, NEW m, NEW l, NEW k, NEW raw2, NEW m2, NEW tl, NEW tx,
         Grows(raw, m, l, k, raw2, m2), m[Len(m)] = "DATA", tl \in BOOLEAN, InMessage(raw, m, tl, tx)
  PROVE  Expected(raw2, m2, Len(m)) = IF tl THEN Coded("exceeded_line") ELSE Stored(tx)
<1>0. PICK n \in Nat : Sized(n, raw, m, l, k, raw2, m2)
  BY Grown
<1>1. /\ Len(raw) = n /\ Len(m) = n + 1 /\ Len(raw2) = n + 1
      /\ \A i \in 1 .. n + 1 : m2[i] = m[i]
  BY <1>0 DEF Sized
<1>2. PICK s : /\ Starts(m, n + 1, s)
               /\ tl <=> (\E j \in s + 1 .. n : ~FitsBoth(raw[j]))
               /\ ~tl => tx = [j \in 1 .. n - s |-> Unstuffed(raw[s + j])]
  BY <1>1 DEF InMessage
<1>3. s \in 1 .. n
  BY <1>2 DEF Starts
<1>4. MessageLines(raw2, m2, n + 1) = SubSeq(raw2, s + 1, n)
  <2>1. n + 1 \in 1 .. Len(m) /\ n + 1 \in Nat /\ (n + 1) - 1 = n
    BY <1>1
  <2>2. Starts(m2, n + 1, s)
    BY <1>2, <2>1, StartsStays
  <2>3. MessageLines(raw2, m2, n + 1) = SubSeq(raw2, s + 1, (n + 1) - 1)
    BY <2>1, <2>2, MessageIs
  <2> QED
    BY <2>1, <2>3
<1>5. SamePart(raw2, raw, s, n)
  <2>1. s \in Nat /\ s <= n /\ n <= Len(raw)
    BY <1>1, <1>3
  <2> QED
    BY <2>1, PartStays
<1>6. PICK msg : /\ msg = MessageLines(raw2, m2, n + 1)
                 /\ DOMAIN msg = 1 .. n - s
                 /\ \A j \in 1 .. n - s : msg[j] = raw[s + j]
  BY <1>4, <1>5 DEF SamePart
<1>7. (\A j \in DOMAIN msg : FitsBoth(msg[j])) <=> ~tl
  <2>1. \A j \in 1 .. n - s : s + j \in s + 1 .. n
    BY <1>3
  <2>2. \A j \in s + 1 .. n : j - s \in 1 .. n - s /\ s + (j - s) = j
    BY <1>3
  <2>3. ASSUME \A j \in DOMAIN msg : FitsBoth(msg[j]) PROVE ~tl
    <3>1. ASSUME NEW j \in s + 1 .. n PROVE FitsBoth(raw[j])
      <4>1. PICK i \in 1 .. n - s : s + i = j
        BY <2>2
      <4> QED
        BY <1>6, <2>3, <4>1
    <3> QED
      BY <1>2, <3>1
  <2>4. ASSUME ~tl PROVE \A j \in DOMAIN msg : FitsBoth(msg[j])
    BY <1>2, <1>6, <2>1, <2>4
  <2> QED
    BY <2>3, <2>4
<1>8. Expected(raw2, m2, n + 1) = VerdictOn(msg)
  <2>1. n + 1 \in 1 .. n + 1
    OBVIOUS
  <2>2. m2[n + 1] = "DATA"
    BY <1>1, <2>1
  <2> QED
    BY <1>6, <2>2 DEF Expected
<1>9. CASE tl
  BY <1>1, <1>7, <1>8, <1>9 DEF VerdictOn, FitsBoth
<1>10. CASE ~tl
  <2>1. tx = [j \in DOMAIN msg |-> Unstuffed(msg[j])]
    BY <1>2, <1>6, <1>10
  <2> QED
    BY <1>1, <1>7, <1>8, <1>10, <2>1 DEF VerdictOn, FitsBoth
<1> QED
  BY <1>9, <1>10

(* What has come of the conversation: where in the walk of modes it is, what *)
(* was handed on, the message in progress and the answers.                  *)
Talk(raw, f, g, st, ls, tl, tx, ev) ==
  /\ Walk(f, raw, g)
  /\ f[Len(raw) + 1] = [asked |-> Len(g), mode |-> st]
  /\ Splits(raw, ModesOf(f), ls)
  /\ Started(ModesOf(f))
  /\ st = "DATA" => InMessage(raw, ModesOf(f), tl, tx)
  /\ Answers(raw, ModesOf(f), ev)

Talks(raw, g, st, ls, tl, tx, ev) == \E f : Talk(raw, f, g, st, ls, tl, tx, ev)

(* Where one more line leads, whatever is answered.                         *)
NextState(st, l, granting) ==
  IF st = "CMD"
  THEN IF l = DataCmd /\ granting THEN "DATA" ELSE IF l = QuitCmd THEN "CLOSED" ELSE "CMD"
  ELSE IF st = "DATA" /\ l = <<Dot>> THEN "CMD" ELSE st

Follows(raw, f, st, ls, l, raw2, f2, g2, st2, ls2) ==
  /\ Walk(f2, raw2, g2)
  /\ f2[Len(raw2) + 1] = [asked |-> Len(g2), mode |-> st2]
  /\ Grows(raw, ModesOf(f), l, st2, raw2, ModesOf(f2))
  /\ Len(ModesOf(f)) = Len(raw) + 1 /\ ModesOf(f)[Len(raw) + 1] = st
  /\ Splits(raw2, ModesOf(f2), ls2)
  /\ Started(ModesOf(f2))

(* One more line is one more step of the walk.                              *)
LEMMA TalkGoesOn ==
  ASSUME NEW raw, NEW f, NEW g, NEW st, NEW ls, NEW tl, NEW tx, NEW ev, NEW l, NEW raw2, NEW g2, NEW st2, NEW ls2,
         raw \in Seq(Seq(Bytes)), l \in Seq(Bytes), g \in Seq(BOOLEAN), g2 \in Seq(BOOLEAN),
         Talk(raw, f, g, st, ls, tl, tx, ev), raw2 = Append(raw, l),
         Asks(st, l, g, g2),
         st2 = NextState(st, l, g2[Len(g) + 1]),
         ls2 = Append(ls, Handed(st, l))
  PROVE  \E f2 : Follows(raw, f, st, ls, l, raw2, f2, g2, st2, ls2)
<1>1. PICK m : m = f[Len(raw) + 1] /\ m = [asked |-> Len(g), mode |-> st]
  BY DEF Talk
<1>2. /\ Walk(f, raw, g) /\ f \in Seq(Steps) /\ Len(f) = Len(raw) + 1
      /\ Splits(raw, ModesOf(f), ls) /\ Started(ModesOf(f))
  BY DEF Talk, Walk
<1>3. PICK n \in Nat : n = Len(raw)
  BY LenProperties
<1>4. m \in Steps
  <2>1. n + 1 \in 1 .. Len(f)
    BY <1>2, <1>3
  <2> QED
    BY <1>1, <1>2, <1>3, <2>1, ElementOfSeq
<1>5. m.mode = st /\ m.asked = Len(g)
  BY <1>1
<1>6. PICK a : a = After(g2, m, l)
  OBVIOUS
<1>7. a \in Steps /\ a.mode = st2 /\ a.mode \in States
  BY <1>4, <1>5, <1>6, AfterMode, AfterAsked DEF NextState
<1>8. PICK f2 : f2 = Append(f, a)
  OBVIOUS
<1>9. Walk(f2, raw2, g2) /\ a.asked = Len(g2)
  <2>1. Asks(m.mode, l, g, g2)
    BY <1>5
  <2>2. m = f[Len(raw) + 1] /\ m.asked = Len(g) /\ Walk(f, raw, g)
    BY <1>1, <1>2, <1>5
  <2>3. WalksOn(Append(f, After(g2, m, l)), Append(raw, l), g2, After(g2, m, l))
    BY <2>1, <2>2, WalkLine
  <2> QED
    BY <1>6, <1>8, <2>3 DEF WalksOn
<1>10. f2[Len(raw2) + 1] = [asked |-> Len(g2), mode |-> st2]
  <2>1. Longer(f2, f, a, Steps)
    BY <1>2, <1>7, <1>8, Appended
  <2>2. Longer(raw2, raw, l, Seq(Bytes))
    BY Appended
  <2>3. f2[Len(raw2) + 1] = a
    BY <1>2, <1>3, <2>1, <2>2 DEF Longer
  <2>4. a = [asked |-> a.asked, mode |-> a.mode]
    BY <1>7 DEF Steps
  <2> QED
    BY <1>7, <1>9, <2>3, <2>4
<1>11. /\ ModesOf(f) \in Seq(States) /\ Len(ModesOf(f)) = Len(raw) + 1 /\ ModesOf(f)[Len(raw) + 1] = st
  <2>1. n + 1 \in 1 .. Len(f)
    BY <1>2, <1>3
  <2>2. ModesOf(f)[n + 1] = f[n + 1].mode
    BY <1>2, <2>1, ModesOfType
  <2> QED
    BY <1>1, <1>2, <1>3, <1>5, <2>2, ModesOfType
<1>12. Grows(raw, ModesOf(f), l, st2, raw2, ModesOf(f2))
  <2>1. ModesOf(f2) = Append(ModesOf(f), st2)
    BY <1>2, <1>7, <1>8, ModesOfLonger
  <2> QED
    BY <1>7, <1>11, <2>1 DEF Grows
<1>13. Splits(raw2, ModesOf(f2), ls2)
  <2>1. ls2 = Append(ls, Handed(ModesOf(f)[Len(ModesOf(f))], l))
    BY <1>11
  <2>2. Splits(raw, ModesOf(f), ls)
    BY <1>2
  <2> QED
    BY <1>12, <2>1, <2>2, SplitsMore
<1>14. Started(ModesOf(f2))
  <2>1. st2 = "DATA" => ModesOf(f)[Len(ModesOf(f))] \in {"CMD", "DATA"}
    BY <1>11 DEF NextState
  <2> QED
    BY <1>2, <1>12, <2>1, StartedMore
<1> QED
  BY <1>9, <1>10, <1>11, <1>12, <1>13, <1>14 DEF Follows

Responds(l, g, ev, g2, st2, tl2, tx2, ev2) ==
  /\ Asks("CMD", l, g, g2)
  /\ st2 = NextState("CMD", l, g2[Len(g) + 1])
  /\ ev2 = Append(ev, AnswerTo(l, st2))
  /\ st2 = "DATA" => tl2 = FALSE /\ tx2 = <<>>

Keeps(got, tl, tx, tl2, tx2) ==
  /\ tl2 <=> (tl \/ Over(got))
  /\ tx2 = IF tl2 THEN tx ELSE Append(tx, Unstuffed(got))

(* The answer to a command.                                                 *)
LEMMA CommandAnswered ==
  ASSUME NEW raw, NEW f, NEW g, NEW ls, NEW tl, NEW tx, NEW ev, NEW l, NEW raw2, NEW g2, NEW st2, NEW ls2, NEW ev2,
         NEW tl2, NEW tx2,
         raw \in Seq(Seq(Bytes)), l \in Seq(Bytes), g \in Seq(BOOLEAN), g2 \in Seq(BOOLEAN),
         Talk(raw, f, g, "CMD", ls, tl, tx, ev), raw2 = Append(raw, l),
         ls2 = Append(ls, Handed("CMD", l)), Responds(l, g, ev, g2, st2, tl2, tx2, ev2)
  PROVE  Talks(raw2, g2, st2, ls2, tl2, tx2, ev2)
<1>1. PICK f2 : Follows(raw, f, "CMD", ls, l, raw2, f2, g2, st2, ls2)
  <2>1. ls2 = Append(ls, Handed("CMD", l))
    OBVIOUS
  <2>2. Asks("CMD", l, g, g2) /\ st2 = NextState("CMD", l, g2[Len(g) + 1])
    BY DEF Responds
  <2> QED
    BY <2>1, <2>2, TalkGoesOn
<1>2. PICK m : m = ModesOf(f)
  OBVIOUS
<1>3. PICK m2 : m2 = ModesOf(f2)
  OBVIOUS
<1>4. /\ Grows(raw, m, l, st2, raw2, m2) /\ Len(m) = Len(raw) + 1 /\ m[Len(m)] = "CMD"
      /\ Walk(f2, raw2, g2) /\ f2[Len(raw2) + 1] = [asked |-> Len(g2), mode |-> st2]
      /\ Splits(raw2, m2, ls2) /\ Started(m2)
  BY <1>1, <1>2, <1>3 DEF Follows
<1>5. Started(m) /\ Answers(raw, m, ev)
  BY <1>2 DEF Talk
<1>6. Answers(raw2, m2, ev2)
  <2>1. PICK n \in Nat : Sized(n, raw, m, l, st2, raw2, m2)
    BY <1>4, Grown
  <2>2. Len(m) = n + 1 /\ m2[n + 1] = "CMD" /\ raw2[n + 1] = l /\ m2[n + 2] = st2
    <3>1. n + 1 \in 1 .. n + 1
      OBVIOUS
    <3> QED
      BY <1>4, <2>1, <3>1 DEF Sized
  <2>3. Expected(raw2, m2, Len(m)) = AnswerTo(l, st2)
    <3>1. (n + 1) + 1 = n + 2
      OBVIOUS
    <3> QED
      BY <2>2, <3>1 DEF Expected
  <2>4. Replies(raw2, m2, Len(m), ev, ev2)
    BY <2>3 DEF Responds, Replies
  <2> QED
    BY <1>4, <1>5, <2>4, AnswersMore
<1>7. st2 = "DATA" => InMessage(raw2, m2, tl2, tx2)
  BY <1>4, MessageBegins DEF Responds
<1> QED
  BY <1>3, <1>4, <1>6, <1>7 DEF Talk, Talks

(* The line that ends a message.                                            *)
LEMMA EndAnswered ==
  ASSUME NEW raw, NEW f, NEW g, NEW ls, NEW tl, NEW tx, NEW ev, NEW l, NEW raw2, NEW ls2, NEW ev2,
         raw \in Seq(Seq(Bytes)), l \in Seq(Bytes), g \in Seq(BOOLEAN), tl \in BOOLEAN,
         Talk(raw, f, g, "DATA", ls, tl, tx, ev), raw2 = Append(raw, l), l = <<Dot>>,
         ls2 = Append(ls, Handed("DATA", l)),
         ev2 = Append(ev, IF tl THEN Coded("exceeded_line") ELSE Stored(tx))
  PROVE  Talks(raw2, g, "CMD", ls2, tl, tx, ev2)
<1>1. PICK f2 : Follows(raw, f, "DATA", ls, l, raw2, f2, g, "CMD", ls2)
  <2>1. ls2 = Append(ls, Handed("DATA", l))
    OBVIOUS
  <2>2. "CMD" = NextState("DATA", l, g[Len(g) + 1])
    BY DEF NextState
  <2>3. Asks("DATA", l, g, g)
    BY DEF Asks
  <2> QED
    BY <2>1, <2>2, <2>3, TalkGoesOn
<1>2. PICK m : m = ModesOf(f)
  OBVIOUS
<1>3. PICK m2 : m2 = ModesOf(f2)
  OBVIOUS
<1>4. /\ Grows(raw, m, l, "CMD", raw2, m2) /\ Len(m) = Len(raw) + 1 /\ m[Len(m)] = "DATA"
      /\ Walk(f2, raw2, g) /\ f2[Len(raw2) + 1] = [asked |-> Len(g), mode |-> "CMD"]
      /\ Splits(raw2, m2, ls2) /\ Started(m2)
  BY <1>1, <1>2, <1>3 DEF Follows
<1>5. Started(m) /\ Answers(raw, m, ev) /\ InMessage(raw, m, tl, tx)
  BY <1>2 DEF Talk
<1>6. Answers(raw2, m2, ev2)
  <2>1. Replies(raw2, m2, Len(m), ev, ev2)
    BY <1>4, <1>5, VerdictIs DEF Replies
  <2> QED
    BY <1>4, <1>5, <2>1, AnswersMore
<1> QED
  BY <1>3, <1>4, <1>6 DEF Talk, Talks

(* A line of text.                                                          *)
LEMMA TextKept ==
  ASSUME NEW raw, NEW f, NEW g, NEW ls, NEW tl, NEW tx, NEW ev, NEW l, NEW raw2, NEW ls2, NEW got, NEW tl2, NEW tx2,
         raw \in Seq(Seq(Bytes)), l \in Seq(Bytes), g \in Seq(BOOLEAN), tl \in BOOLEAN, tl2 \in BOOLEAN,
         Talk(raw, f, g, "DATA", ls, tl, tx, ev), raw2 = Append(raw, l), l # <<Dot>>,
         got = Handed("DATA", l),
         ls2 = Append(ls, got),
         Keeps(got, tl, tx, tl2, tx2)
  PROVE  Talks(raw2, g, "DATA", ls2, tl2, tx2, ev)
<1>1. PICK f2 : Follows(raw, f, "DATA", ls, l, raw2, f2, g, "DATA", ls2)
  <2>1. ls2 = Append(ls, Handed("DATA", l))
    OBVIOUS
  <2>2. "DATA" = NextState("DATA", l, g[Len(g) + 1])
    BY DEF NextState
  <2>3. Asks("DATA", l, g, g)
    BY DEF Asks
  <2> QED
    BY <2>1, <2>2, <2>3, TalkGoesOn
<1>2. PICK m : m = ModesOf(f)
  OBVIOUS
<1>3. PICK m2 : m2 = ModesOf(f2)
  OBVIOUS
<1>4. /\ Grows(raw, m, l, "DATA", raw2, m2) /\ Len(m) = Len(raw) + 1 /\ m[Len(m)] = "DATA"
      /\ Walk(f2, raw2, g) /\ f2[Len(raw2) + 1] = [asked |-> Len(g), mode |-> "DATA"]
      /\ Splits(raw2, m2, ls2) /\ Started(m2)
  BY <1>1, <1>2, <1>3 DEF Follows
<1>5. Started(m) /\ Answers(raw, m, ev) /\ InMessage(raw, m, tl, tx)
  BY <1>2 DEF Talk
<1>6. Answers(raw2, m2, ev)
  BY <1>4, <1>5, AnswersStay
<1>7. InMessage(raw2, m2, tl2, tx2)
  <2>1. got = (IF Len(l) <= LineCapacity THEN l ELSE TooLong)
    BY DEF Handed, CapacityFor
  <2>2. /\ tl2 <=> (tl \/ Over(got))
        /\ tx2 = IF tl2 THEN tx ELSE Append(tx, Unstuffed(got))
    BY DEF Keeps
  <2> QED
    BY <1>4, <1>5, <2>1, <2>2, MessageGoesOn
<1> QED
  BY <1>3, <1>4, <1>6, <1>7 DEF Talk, Talks

-----------------------------------------------------------------------------
(* One sequence behind the other, and a sequence in two parts.              *)
Joins(q, a, z) ==
  /\ q \in Seq(Bytes) /\ Len(a) \in Nat /\ Len(z) \in Nat /\ Len(q) = Len(a) + Len(z)
  /\ \A k \in 1 .. Len(a) : q[k] = a[k]
  /\ \A k \in 1 .. Len(z) : q[Len(a) + k] = z[k]

(* Concatenation is one behind the other.                                   *)
LEMMA JoinIs ==
  ASSUME NEW a, NEW z, a \in Seq(Bytes), z \in Seq(Bytes)
  PROVE  Joins(a \o z, a, z)
  BY EndsOfMore DEF Joins

(* There is one such sequence.                                              *)
LEMMA SameJoin ==
  ASSUME NEW q, NEW r, NEW a, NEW z, Joins(q, a, z), Joins(r, a, z)
  PROVE  q = r
<1>1. PICK n \in Nat : n = Len(a)
  BY DEF Joins
<1>2. PICK c \in Nat : c = Len(z)
  BY DEF Joins
<1>3. q \in Seq(Bytes) /\ r \in Seq(Bytes) /\ Len(q) = n + c /\ Len(r) = n + c
  BY <1>1, <1>2 DEF Joins
<1>4. ASSUME NEW k \in 1 .. n + c PROVE q[k] = r[k]
  <2>1. CASE k <= n
    <3>1. k \in 1 .. n
      BY <2>1
    <3> QED
      BY <1>1, <3>1 DEF Joins
  <2>2. CASE k > n
    <3>1. PICK j \in 1 .. c : k = n + j
      <4>1. k - n \in 1 .. c /\ k = n + (k - n)
        BY <2>2
      <4> QED
        BY <4>1
    <3> QED
      BY <1>1, <1>2, <3>1 DEF Joins
  <2> QED
    BY <2>1, <2>2
<1> QED
  BY <1>3, <1>4, SeqEqual

(* What the readers have used of a stream when they have used i more bytes. *)
Used(st, s2, seen2) ==
  /\ SubSeq(st, 1, Len(st) - Len(s2)) = seen2
  /\ st = seen2 \o s2
  /\ seen2 \in Seq(Bytes) /\ s2 \in Seq(Bytes)

(* What is left is taken off the end of the stream.                         *)
LEMMA UsedIs ==
  ASSUME NEW seen2, NEW s2, seen2 \in Seq(Bytes), s2 \in Seq(Bytes)
  PROVE  Used(seen2 \o s2, s2, seen2)
<1>1. PICK st : st = seen2 \o s2
  OBVIOUS
<1>2. Joins(st, seen2, s2)
  BY <1>1, JoinIs
<1>3. PICK n \in Nat : n = Len(seen2)
  BY <1>2 DEF Joins
<1>4. PICK c \in Nat : c = Len(s2)
  BY <1>2 DEF Joins
<1>5. st \in Seq(Bytes) /\ Len(st) = n + c /\ Len(st) - c = n /\ n <= Len(st)
      /\ \A k \in 1 .. n : st[k] = seen2[k]
  BY <1>2, <1>3, <1>4 DEF Joins
<1>6. SubSeq(st, 1, n) = seen2
  <2>1. /\ SubSeq(st, 1, n) \in Seq(Bytes) /\ Len(SubSeq(st, 1, n)) = n
        /\ \A k \in 1 .. n : SubSeq(st, 1, n)[k] = st[k]
    BY <1>5, FrontIs
  <2> QED
    BY <1>3, <1>5, <2>1, SeqEqual
<1> QED
  BY <1>1, <1>4, <1>5, <1>6 DEF Used

(* A sequence is what precedes a place and what follows it.                 *)
LEMMA TwoParts ==
  ASSUME NEW s, NEW i, s \in Seq(Bytes), i \in 0 .. Len(s)
  PROVE  /\ SubSeq(s, 1, i) \in Seq(Bytes) /\ SubSeq(s, i + 1, Len(s)) \in Seq(Bytes)
         /\ SubSeq(s, 1, i) \o SubSeq(s, i + 1, Len(s)) = s
<1>1. PICK c \in Nat : c = Len(s) /\ i \in Nat /\ i <= c
  <2>1. Len(s) \in Nat
    BY LenProperties
  <2> QED
    BY <2>1
<1>2. PICK p : p = SubSeq(s, 1, i)
  OBVIOUS
<1>3. PICK q : q = SubSeq(s, i + 1, c)
  OBVIOUS
<1>4. p \in Seq(Bytes) /\ Len(p) = i /\ \A k \in 1 .. i : p[k] = s[k]
  BY <1>1, <1>2, FrontIs
<1>5. q \in Seq(Bytes) /\ Len(q) = c - i /\ \A k \in 1 .. c - i : q[k] = s[i + k]
  BY <1>1, <1>3, Piece
<1>6. Joins(s, p, q)
  <2>1. i + (c - i) = c /\ c - i \in Nat
    BY <1>1
  <2> QED
    BY <1>1, <1>4, <1>5, <2>1 DEF Joins
<1>7. p \o q = s
  BY <1>4, <1>5, <1>6, JoinIs, SameJoin
<1> QED
  BY <1>1, <1>2, <1>3, <1>4, <1>5, <1>7

(* The first i bytes of what is left are used.                              *)
LEMMA Consumed ==
  ASSUME NEW seen, NEW s, NEW i, seen \in Seq(Bytes), s \in Seq(Bytes), i \in 0 .. Len(s)
  PROVE  Used(seen \o s, SubSeq(s, i + 1, Len(s)), seen \o SubSeq(s, 1, i))
<1>1. PICK p : p = SubSeq(s, 1, i)
  OBVIOUS
<1>2. PICK q : q = SubSeq(s, i + 1, Len(s))
  OBVIOUS
<1>3. p \in Seq(Bytes) /\ q \in Seq(Bytes) /\ p \o q = s
  BY <1>1, <1>2, TwoParts
<1>4. seen \o p \in Seq(Bytes) /\ seen \o s = (seen \o p) \o q
  <2>1. seen \o p \in Seq(Bytes)
    BY <1>3, ConcatProperties
  <2>2. p \in Seq(Bytes) /\ q \in Seq(Bytes)
    BY <1>3
  <2>3. (seen \o p) \o q = seen \o (p \o q)
    BY <2>2, ConcatAssociative
  <2> QED
    BY <1>3, <2>1, <2>3
<1> QED
  BY <1>1, <1>2, <1>3, <1>4, UsedIs

(* All of it.                                                               *)
LEMMA AllConsumed ==
  ASSUME NEW seen, NEW s, seen \in Seq(Bytes), s \in Seq(Bytes)
  PROVE  Used(seen \o s, <<>>, seen \o s)
<1>1. seen \o s \in Seq(Bytes) /\ <<>> \in Seq(Bytes)
  BY ConcatProperties, EmptySeq
<1>2. (seen \o s) \o <<>> = seen \o s
  BY <1>1, ConcatEmptySeq
<1> QED
  BY <1>1, <1>2, UsedIs

-----------------------------------------------------------------------------
(* The inductive invariant.  What each variable may hold:                   *)
Kept ==
  /\ cmdTarget \in Memory(CmdCapacity) /\ cmdTail \in Pairs /\ cmdOffset \in Nat
  /\ cmdFirst \in Bytes \cup {NUL}
  /\ lineTarget \in Memory(LineCapacity) /\ lineTail \in Pairs /\ lineOffset \in Nat
  /\ lineFirst \in Bytes \cup {NUL}
  /\ lines \in Seq(Seq(Bytes \cup {NUL}) \cup {TooLong})
  /\ state \in States /\ tooLong \in BOOLEAN
  /\ text \in Seq(Seq(Bytes \cup {NUL})) /\ \A i \in DOMAIN text : Len(text[i]) <= MaxText
  /\ granted \in Seq(BOOLEAN)

(* What has come is the beginning of what is sent, and what the readers have *)
(* not used is the end of it.                                               *)
Arrived ==
  /\ input \in Seq(Bytes) /\ stream \in Seq(Bytes)
  /\ Len(stream) <= Len(input) /\ stream = SubSeq(input, 1, Len(stream))
  /\ Seen \in Seq(Bytes) /\ sp \in Seq(Bytes) /\ stream = Seen \o sp

(* Text is expected behind a DATA command that was accepted.                *)
Granting == state = "DATA" => \E i \in DOMAIN granted : granted[i]

(* What a reader remembers of its last two bytes outlives the line only if  *)
(* nothing has come since the connection began.                             *)
Remembers ==
  /\ cmdTail[2] = CR => cmdOffset # 0 \/ (cmdFirst = CR /\ Seen = <<>>)
  /\ lineTail[2] = CR => lineOffset # 0 \/ lineFirst = CR

(* The readers are at the end of the cut of what they have used.            *)
Reading(e) ==
  /\ IsCut(e, Seen)
  /\ Holds(cmdTarget, cmdTail, cmdOffset, IF state = "CMD" THEN Rest(e, Seen) ELSE <<>>)
  /\ Holds(lineTarget, lineTail, lineOffset, IF state = "CMD" THEN <<>> ELSE Rest(e, Seen))
  /\ state # "CMD" => e # <<>>
  /\ Remembers

Talking(e) == Talks(RawOf(e, Seen), granted, state, lines, tooLong, text, events)

InStep == \E e : Reading(e) /\ Talking(e)

IInv ==
  /\ Kept
  /\ Arrived
  /\ Granting
  /\ ~Stray => InStep

-----------------------------------------------------------------------------
(* The steps, with what each leaves alone.                                  *)
Waits == UNCHANGED <<state, tooLong, text, events, granted>>

CmdGoesOn ==
  /\ state = "CMD"
  /\ MoreStep(CmdCapacity, cmdTarget, cmdTail, cmdOffset, sp, lines, cmdTarget', cmdTail', cmdOffset', sp', lines')
  /\ Waits
  /\ UNCHANGED <<cmdFirst, input, stream, lineTarget, lineTail, lineOffset, lineFirst>>

CmdEnds(i) ==
  /\ state = "CMD" /\ i \in 1 .. Len(sp) /\ sp # <<>>
  /\ LineEndsAt(i, CmdCapacity, cmdTarget, cmdTail, cmdOffset, sp, lines,
                cmdTarget', cmdTail', cmdOffset', sp', lines')
  /\ Command(Last(lines'))
  /\ UNCHANGED <<cmdFirst, input, stream, lineTarget, lineTail, lineOffset, lineFirst>>

TextGoesOn ==
  /\ state = "DATA"
  /\ MoreStep(LineCapacity, lineTarget, lineTail, lineOffset, sp, lines,
              lineTarget', lineTail', lineOffset', sp', lines')
  /\ Waits
  /\ UNCHANGED <<lineFirst, input, stream, cmdTarget, cmdTail, cmdOffset, cmdFirst>>

TextEnds(i) ==
  /\ state = "DATA" /\ i \in 1 .. Len(sp) /\ sp # <<>>
  /\ LineEndsAt(i, LineCapacity, lineTarget, lineTail, lineOffset, sp, lines,
                lineTarget', lineTail', lineOffset', sp', lines')
  /\ DataLine(Last(lines'))
  /\ UNCHANGED <<lineFirst, input, stream, cmdTarget, cmdTail, cmdOffset, cmdFirst>>

(* A step is one of these.                                                  *)
LEMMA StepsAre ==
  ASSUME Next, sp \in Seq(Bytes)
  PROVE  \/ Recv \/ CmdGoesOn \/ (\E i : CmdEnds(i)) \/ TextGoesOn \/ (\E i : TextEnds(i))
<1>1. DOMAIN sp = 1 .. Len(sp)
  BY LenProperties
<1>2. CASE FeedCmd
  <2>1. CASE Cmd!JoinMore /\ Waits
    BY <1>2, <2>1, StepsOfCmd DEF FeedCmd, CmdGoesOn
  <2>2. CASE Cmd!JoinLine /\ Command(Last(lines'))
    <3>1. PICK i \in DOMAIN sp : LineEndsAt(i, CmdCapacity, cmdTarget, cmdTail, cmdOffset, sp, lines,
                                            cmdTarget', cmdTail', cmdOffset', sp', lines')
      BY <2>2, StepsOfCmd DEF LineStep
    <3>2. sp # <<>> /\ cmdFirst' = cmdFirst
      BY <2>2, StepsOfCmd DEF LineStep
    <3> QED
      BY <1>1, <1>2, <2>2, <3>1, <3>2 DEF FeedCmd, CmdEnds
  <2> QED
    BY <1>2, <2>1, <2>2 DEF FeedCmd, Waits
<1>3. CASE FeedData
  <2>1. CASE Line!JoinMore /\ Waits
    BY <1>3, <2>1, StepsOfLine DEF FeedData, TextGoesOn
  <2>2. CASE Line!JoinLine /\ DataLine(Last(lines'))
    <3>1. PICK i \in DOMAIN sp : LineEndsAt(i, LineCapacity, lineTarget, lineTail, lineOffset, sp, lines,
                                            lineTarget', lineTail', lineOffset', sp', lines')
      BY <2>2, StepsOfLine DEF LineStep
    <3>2. sp # <<>> /\ lineFirst' = lineFirst
      BY <2>2, StepsOfLine DEF LineStep
    <3> QED
      BY <1>1, <1>3, <2>2, <3>1, <3>2 DEF FeedData, TextEnds
  <2> QED
    BY <1>3, <2>1, <2>2 DEF FeedData, Waits
<1> QED
  BY <1>2, <1>3 DEF Next

(* What the readers use of the stream.                                      *)
LEMMA SeenMore ==
  ASSUME Arrived, sp # <<>>, UNCHANGED <<input, stream>>, NEW i, i \in 0 .. Len(sp),
         sp' = SubSeq(sp, i + 1, Len(sp))
  PROVE  Arrived' /\ Seen' = Seen \o SubSeq(sp, 1, i)
<1>1. PICK q : q = Seen \o SubSeq(sp, 1, i)
  OBVIOUS
<1>2. Used(stream, sp', q)
  BY <1>1, Consumed DEF Arrived
<1>3. Seen' = q /\ stream' = q \o sp' /\ q \in Seq(Bytes) /\ sp' \in Seq(Bytes)
  BY <1>2 DEF Used, Seen
<1> QED
  BY <1>1, <1>3 DEF Arrived

(* All of what is left is used when it ends no line.                        *)
LEMMA SeenAll ==
  ASSUME Arrived, UNCHANGED <<input, stream>>, sp' \in Seq(Bytes), Len(sp') = 0
  PROVE  Arrived' /\ Seen' = Seen \o sp
<1>1. PICK q : q = Seen \o sp
  OBVIOUS
<1>2. sp' = <<>>
  BY EmptySeq
<1>3. Used(stream, sp', q)
  BY <1>1, <1>2, AllConsumed DEF Arrived
<1>4. Seen' = q /\ stream' = q \o sp' /\ q \in Seq(Bytes)
  BY <1>3 DEF Used, Seen
<1> QED
  BY <1>1, <1>4 DEF Arrived

(* Nothing is used by a recv.                                               *)
LEMMA SeenSame ==
  ASSUME Arrived, Recv
  PROVE  /\ Arrived' /\ Seen' = Seen /\ Len(stream) <= Len(stream')
         /\ \A k \in 1 .. Len(stream) : stream'[k] = stream[k]
<1>1. PICK a \in Nat : a = Len(stream)
  BY LenProperties DEF Arrived
<1>2. PICK b \in Nat : b = Len(input)
  BY LenProperties DEF Arrived
<1>3. PICK n \in a + 1 .. b : /\ sp' = SubSeq(input, a + 1, n)
                              /\ stream' = SubSeq(input, 1, n)
  BY <1>1, <1>2 DEF Recv
<1>4. n \in Nat /\ a <= n /\ n <= b /\ input \in Seq(Bytes)
  BY <1>3 DEF Arrived
<1>5. stream' \in Seq(Bytes) /\ Len(stream') = n /\ \A k \in 1 .. n : stream'[k] = input[k]
  BY <1>2, <1>3, <1>4, FrontIs
<1>6. sp' \in Seq(Bytes) /\ Len(sp') = n - a /\ \A k \in 1 .. n - a : sp'[k] = input[a + k]
  BY <1>2, <1>3, <1>4, Piece
<1>7. stream \in Seq(Bytes) /\ \A k \in 1 .. a : stream[k] = input[k]
  <2>1. stream = SubSeq(input, 1, a) /\ a <= Len(input)
    BY <1>1 DEF Arrived
  <2> QED
    BY <1>4, <2>1, FrontIs DEF Arrived
<1>8. Joins(stream', stream, sp')
  <2>1. a + (n - a) = n /\ n - a \in Nat /\ \A k \in 1 .. a : k \in 1 .. n
    BY <1>4
  <2>2. \A k \in 1 .. n - a : a + k \in 1 .. n
    BY <1>4
  <2> QED
    BY <1>1, <1>5, <1>6, <1>7, <2>1, <2>2 DEF Joins
<1>9. stream' = stream \o sp'
  BY <1>6, <1>7, <1>8, JoinIs, SameJoin
<1>10. Seen = stream
  <2>1. sp = <<>> /\ Seen \in Seq(Bytes) /\ stream = Seen \o sp
    BY DEF Recv, Arrived
  <2> QED
    BY <2>1, ConcatEmptySeq
<1>11. Used(stream', sp', stream)
  BY <1>6, <1>7, <1>9, UsedIs
<1>12. Seen' = stream
  BY <1>11 DEF Used, Seen
<1>13. Arrived'
  <2>1. input' = input /\ Len(stream') <= Len(input') /\ stream' = SubSeq(input', 1, Len(stream'))
    BY <1>2, <1>3, <1>4, <1>5 DEF Recv
  <2> QED
    BY <1>4, <1>5, <1>6, <1>7, <1>9, <1>12, <2>1 DEF Arrived
<1>14. \A k \in 1 .. a : stream'[k] = stream[k]
  <2>1. \A k \in 1 .. a : k \in 1 .. n
    BY <1>4
  <2> QED
    BY <1>5, <1>7, <2>1
<1> QED
  BY <1>1, <1>4, <1>5, <1>10, <1>12, <1>13, <1>14

(* A stray line feed stays one.                                             *)
LEMMA StrayStays ==
  ASSUME stream \in Seq(Bytes), stream' \in Seq(Bytes), Len(stream) <= Len(stream'),
         \A k \in 1 .. Len(stream) : stream'[k] = stream[k],
         granted \in Seq(BOOLEAN), granted' \in Seq(BOOLEAN), Len(granted) <= Len(granted'),
         \A k \in 1 .. Len(granted) : granted'[k] = granted[k],
         cmdFirst' = cmdFirst, lineFirst' = lineFirst, Stray
  PROVE  Stray'
<1>1. PICK n \in Nat : n = Len(stream)
  BY LenProperties
<1>2. PICK n2 \in Nat : n2 = Len(stream') /\ n <= n2
  BY <1>1, LenProperties
<1>3. PICK c \in Nat : c = Len(granted) /\ DOMAIN granted = 1 .. c
  BY LenProperties
<1>4. PICK c2 \in Nat : c2 = Len(granted') /\ DOMAIN granted' = 1 .. c2 /\ c <= c2
  BY <1>3, LenProperties
<1>5. CASE cmdFirst = CR /\ stream # <<>> /\ stream[1] = LF
  <2>1. 1 \in 1 .. n /\ n2 # 0
    BY <1>1, <1>2, <1>5, EmptySeq
  <2>2. stream'[1] = LF /\ stream' # <<>>
    BY <1>1, <1>2, <1>5, <2>1, EmptySeq
  <2> QED
    BY <1>5, <2>2 DEF Stray
<1>6. CASE /\ lineFirst = CR /\ \E i \in DOMAIN granted : granted[i]
           /\ \E i \in 3 .. Len(stream) : stream[i] = LF /\ stream[i - 1] = LF
  <2>1. PICK i \in 1 .. c : granted[i]
    BY <1>3, <1>6
  <2>2. i \in 1 .. c2 /\ granted'[i]
    BY <1>3, <1>4, <2>1
  <2>3. PICK k \in 3 .. n : stream[k] = LF /\ stream[k - 1] = LF
    BY <1>1, <1>6
  <2>4. k \in 3 .. n2 /\ k \in 1 .. n /\ k - 1 \in 1 .. n
    BY <1>2, <2>3
  <2>5. stream'[k] = LF /\ stream'[k - 1] = LF
    BY <1>1, <2>3, <2>4
  <2> QED
    BY <1>2, <1>4, <1>6, <2>2, <2>4, <2>5 DEF Stray
<1> QED
  BY <1>5, <1>6 DEF Stray

-----------------------------------------------------------------------------
(* A recv changes nothing but what there is to read.                        *)
LEMMA RecvStep ==
  ASSUME IInv, Recv
  PROVE  IInv'
<1>1. Kept /\ Arrived /\ Granting
  BY DEF IInv
<1>2. UNCHANGED <<readers, lines, state, tooLong, text, events, granted>>
  BY DEF Recv
<1>3. Arrived' /\ Seen' = Seen
  BY <1>1, SeenSame
<1>4. Kept'
  BY <1>1, <1>2 DEF Kept, readers
<1>5. Granting'
  BY <1>1, <1>2 DEF Granting
<1>6. ASSUME ~Stray'
      PROVE  InStep'
  <2>1. ~Stray
    <3>1. stream \in Seq(Bytes) /\ stream' \in Seq(Bytes)
      BY <1>1, <1>3 DEF Arrived
    <3>2. granted' = granted /\ granted \in Seq(BOOLEAN) /\ Len(granted) \in Nat
      BY <1>1, <1>2, LenProperties DEF Kept
    <3>3. cmdFirst' = cmdFirst /\ lineFirst' = lineFirst
      BY <1>2 DEF readers
    <3> QED
      BY <1>1, <1>6, <3>1, <3>2, <3>3, SeenSame, StrayStays
  <2>2. PICK e : Reading(e) /\ Talking(e)
    BY <2>1 DEF IInv, InStep
  <2>3. Reading(e)'
    BY <1>2, <1>3, <2>2 DEF Reading, Remembers, readers
  <2>4. Talking(e)'
    BY <1>2, <1>3, <2>2 DEF Talking
  <2> QED
    BY <2>3, <2>4 DEF InStep
<1> QED
  BY <1>3, <1>4, <1>5, <1>6 DEF IInv

(* While no stray line feed has come, a terminator begins in the line.      *)
LEMMA NoStrayCommand ==
  ASSUME Kept, Arrived, ~Stray, sp # <<>>, NEW e, Reading(e)
  PROVE  Clean(cmdTail, cmdOffset, sp)
<1> SUFFICES ASSUME cmdOffset = 0, cmdTail[2] = CR, sp[1] = LF PROVE FALSE
  BY DEF Clean
<1>1. cmdFirst = CR /\ Seen = <<>>
  BY DEF Reading, Remembers
<1>2. stream = sp
  <2>1. sp \in Seq(Bytes) /\ stream = <<>> \o sp
    BY <1>1 DEF Arrived
  <2> QED
    BY <2>1, ConcatEmptySeq
<1> QED
  BY <1>1, <1>2 DEF Stray

(* The same in the reader of text: what precedes is the terminator of a line. *)
LEMMA NoStrayText ==
  ASSUME Kept, Arrived, Granting, ~Stray, state = "DATA", sp # <<>>, NEW e, Reading(e)
  PROVE  Clean(lineTail, lineOffset, sp)
<1> SUFFICES ASSUME lineOffset = 0, lineTail[2] = CR, sp[1] = LF PROVE FALSE
  BY DEF Clean
<1>1. lineFirst = CR
  BY DEF Reading, Remembers
<1>2. \E i \in DOMAIN granted : granted[i]
  BY DEF Granting
<1>3. Seen \in Seq(Bytes) /\ sp \in Seq(Bytes) /\ stream = Seen \o sp
  BY DEF Arrived
<1>4. IsCut(e, Seen) /\ e # <<>> /\ Holds(lineTarget, lineTail, lineOffset, Rest(e, Seen))
  BY DEF Reading
<1>5. PICK n \in Nat : n = Len(Seen)
  BY <1>3, LenProperties
<1>6. StartOf(e) = n
  <2>1. StartOf(e) \in Nat /\ StartOf(e) <= n
    BY <1>3, <1>4, <1>5, StartIs
  <2>2. Len(Rest(e, Seen)) = n - StartOf(e)
    <3>1. <<>> \in Seq(Bytes)
      BY EmptySeq
    <3> QED
      BY <1>3, <1>4, <1>5, <3>1, RestMore
  <2>3. Len(Rest(e, Seen)) = 0
    BY <1>4 DEF Holds
  <2> QED
    BY <2>1, <2>2, <2>3
<1>7. n \in 2 .. Len(Seen) /\ Seen[n] = LF
  <2>1. StartOf(e) \in EndsIn(Seen)
    BY <1>3, <1>4, StartIs
  <2> QED
    BY <1>6, <2>1 DEF EndsIn
<1>8. Joins(stream, Seen, sp)
  BY <1>3, JoinIs
<1>9. PICK c \in Nat \ {0} : c = Len(sp)
  BY <1>3, EmptySeq
<1>10. n + 1 \in 3 .. Len(stream) /\ (n + 1) - 1 = n
  BY <1>5, <1>7, <1>8, <1>9 DEF Joins
<1>11. stream[n + 1] = LF /\ stream[n] = LF
  <2>1. 1 \in 1 .. c /\ n \in 1 .. n
    BY <1>5, <1>7
  <2> QED
    BY <1>5, <1>7, <1>8, <1>9, <2>1 DEF Joins
<1> QED
  BY <1>1, <1>2, <1>10, <1>11 DEF Stray

(* Behind a line something has come.                                        *)
LEMMA NotBefore ==
  ASSUME NEW seen, NEW e, seen \in Seq(Bytes), IsCut(e, seen), e # <<>>
  PROVE  seen # <<>>
<1>1. StartOf(e) \in EndsIn(seen)
  BY StartIs
<1>2. 2 <= Len(seen)
  BY <1>1, LenProperties DEF EndsIn
<1> QED
  BY <1>2, EmptySeq

(* A stray line feed stays one when the stream is only used.                *)
LEMMA StraySame ==
  ASSUME Kept, Arrived, UNCHANGED <<stream, cmdFirst, lineFirst>>, Stray,
         granted' = granted \/ \E c \in BOOLEAN : granted' = Append(granted, c)
  PROVE  Stray'
<1>1. stream \in Seq(Bytes) /\ Len(stream) \in Nat
  BY LenProperties DEF Arrived
<1>2. granted \in Seq(BOOLEAN) /\ Len(granted) \in Nat
  BY LenProperties DEF Kept
<1>3. /\ granted' \in Seq(BOOLEAN) /\ Len(granted) <= Len(granted')
      /\ \A k \in 1 .. Len(granted) : granted'[k] = granted[k]
  <2>1. CASE granted' = granted
    BY <1>2, <2>1
  <2>2. CASE \E c \in BOOLEAN : granted' = Append(granted, c)
    <3>1. PICK c \in BOOLEAN : granted' = Append(granted, c)
      BY <2>2
    <3>2. Longer(granted', granted, c, BOOLEAN)
      BY <1>2, <3>1, Appended
    <3> QED
      BY <1>2, <3>2 DEF Longer
  <2> QED
    BY <2>1, <2>2
<1>4. stream' = stream /\ cmdFirst' = cmdFirst /\ lineFirst' = lineFirst
  OBVIOUS
<1>5. stream' \in Seq(Bytes) /\ Len(stream) <= Len(stream') /\ \A k \in 1 .. Len(stream) : stream'[k] = stream[k]
  BY <1>1, <1>4
<1> QED
  BY <1>1, <1>2, <1>3, <1>4, <1>5, StrayStays

(* More of a line in the reader of commands.                                *)
LEMMA CmdGoesOnStep ==
  ASSUME IInv, CmdGoesOn
  PROVE  IInv'
<1>1. Kept /\ Arrived /\ Granting /\ sp \in Seq(Bytes) /\ Seen \in Seq(Bytes) /\ CmdCapacity \in Nat
  BY Symbols DEF IInv, Arrived
<1>2. MoreStep(CmdCapacity, cmdTarget, cmdTail, cmdOffset, sp, lines, cmdTarget', cmdTail', cmdOffset', sp', lines')
  BY DEF CmdGoesOn
<1>3. UNCHANGED <<cmdFirst, input, stream, lineTarget, lineTail, lineOffset, lineFirst, state, tooLong, text, events, granted>>
  BY DEF CmdGoesOn, Waits
<1>4. cmdTarget \in Memory(CmdCapacity) /\ cmdTail \in Pairs /\ cmdOffset \in Nat
  BY <1>1 DEF Kept
<1>5. /\ cmdTarget' \in Memory(CmdCapacity) /\ cmdTail' \in Pairs /\ cmdOffset' \in Nat \ {0}
      /\ sp' \in Seq(Bytes) /\ Len(sp') = 0 /\ lines' = lines
  BY <1>1, <1>2, <1>4, MoreTypes
<1>6. Arrived' /\ Seen' = Seen \o sp
  BY <1>1, <1>3, <1>5, SeenAll
<1>7. Kept'
  BY <1>1, <1>3, <1>5 DEF Kept
<1>8. Granting'
  BY <1>1, <1>3 DEF Granting
<1>9. ASSUME ~Stray'
      PROVE  InStep'
  <2>1. ~Stray
    BY <1>1, <1>3, <1>9, StraySame
  <2>2. PICK e : Reading(e) /\ Talking(e)
    BY <2>1 DEF IInv, InStep
  <2>3. state = "CMD" /\ sp # <<>>
    BY <1>2 DEF CmdGoesOn, MoreStep
  <2>4. /\ IsCut(e, Seen) /\ Holds(cmdTarget, cmdTail, cmdOffset, Rest(e, Seen))
        /\ Holds(lineTarget, lineTail, lineOffset, <<>>)
    BY <2>2, <2>3 DEF Reading
  <2>5. Clean(cmdTail, cmdOffset, sp)
    BY <1>1, <2>1, <2>2, <2>3, NoStrayCommand
  <2>6. /\ IsCut(e, Seen \o sp) /\ RawOf(e, Seen \o sp) = RawOf(e, Seen)
        /\ Holds(cmdTarget', cmdTail', cmdOffset', Rest(e, Seen \o sp))
    <3>1. ReadMore(e, Seen, Seen \o sp, cmdTarget', cmdTail', cmdOffset')
      BY <1>1, <1>2, <1>4, <2>4, <2>5, MoreIs
    <3> QED
      BY <3>1 DEF ReadMore
  <2>7. Remembers'
    BY <1>3, <1>5, <2>2 DEF Reading, Remembers
  <2>8. Reading(e)'
    BY <1>3, <1>6, <2>3, <2>4, <2>6, <2>7 DEF Reading
  <2>9. Talking(e)'
    BY <1>3, <1>5, <1>6, <2>2, <2>6 DEF Talking
  <2> QED
    BY <2>8, <2>9 DEF InStep
<1> QED
  BY <1>6, <1>7, <1>8, <1>9 DEF IInv

(* More of a line in the reader of text.                                    *)
LEMMA TextGoesOnStep ==
  ASSUME IInv, TextGoesOn
  PROVE  IInv'
<1>1. Kept /\ Arrived /\ Granting /\ sp \in Seq(Bytes) /\ Seen \in Seq(Bytes) /\ LineCapacity \in Nat
  BY Symbols DEF IInv, Arrived
<1>2. MoreStep(LineCapacity, lineTarget, lineTail, lineOffset, sp, lines,
               lineTarget', lineTail', lineOffset', sp', lines')
  BY DEF TextGoesOn
<1>3. UNCHANGED <<lineFirst, input, stream, cmdTarget, cmdTail, cmdOffset, cmdFirst, state, tooLong, text, events, granted>>
  BY DEF TextGoesOn, Waits
<1>4. lineTarget \in Memory(LineCapacity) /\ lineTail \in Pairs /\ lineOffset \in Nat
  BY <1>1 DEF Kept
<1>5. /\ lineTarget' \in Memory(LineCapacity) /\ lineTail' \in Pairs /\ lineOffset' \in Nat \ {0}
      /\ sp' \in Seq(Bytes) /\ Len(sp') = 0 /\ lines' = lines
  BY <1>1, <1>2, <1>4, MoreTypes
<1>6. Arrived' /\ Seen' = Seen \o sp
  BY <1>1, <1>3, <1>5, SeenAll
<1>7. Kept'
  BY <1>1, <1>3, <1>5 DEF Kept
<1>8. Granting'
  BY <1>1, <1>3 DEF Granting
<1>9. ASSUME ~Stray'
      PROVE  InStep'
  <2>1. ~Stray
    BY <1>1, <1>3, <1>9, StraySame
  <2>2. PICK e : Reading(e) /\ Talking(e)
    BY <2>1 DEF IInv, InStep
  <2>3. state = "DATA" /\ sp # <<>>
    BY <1>2 DEF TextGoesOn, MoreStep
  <2>4. /\ IsCut(e, Seen) /\ Holds(lineTarget, lineTail, lineOffset, Rest(e, Seen)) /\ e # <<>>
        /\ Holds(cmdTarget, cmdTail, cmdOffset, <<>>)
    BY <2>2, <2>3 DEF Reading
  <2>5. Clean(lineTail, lineOffset, sp)
    BY <1>1, <2>1, <2>2, <2>3, NoStrayText
  <2>6. /\ IsCut(e, Seen \o sp) /\ RawOf(e, Seen \o sp) = RawOf(e, Seen)
        /\ Holds(lineTarget', lineTail', lineOffset', Rest(e, Seen \o sp))
    <3>1. ReadMore(e, Seen, Seen \o sp, lineTarget', lineTail', lineOffset')
      BY <1>1, <1>2, <1>4, <2>4, <2>5, MoreIs
    <3> QED
      BY <3>1 DEF ReadMore
  <2>7. Remembers'
    <3>1. cmdTail[2] = CR => cmdOffset # 0
      BY <1>1, <2>2, <2>4, NotBefore DEF Reading, Remembers
    <3> QED
      BY <1>3, <1>5, <3>1 DEF Remembers
  <2>8. Reading(e)'
    BY <1>3, <1>6, <2>3, <2>4, <2>6, <2>7 DEF Reading
  <2>9. Talking(e)'
    BY <1>3, <1>5, <1>6, <2>2, <2>6 DEF Talking
  <2> QED
    BY <2>8, <2>9 DEF InStep
<1> QED
  BY <1>6, <1>7, <1>8, <1>9 DEF IInv

-----------------------------------------------------------------------------
(* What each command does beyond the reader.                                *)
Cared ==
  /\ state' \in States /\ tooLong' \in BOOLEAN
  /\ text' \in Seq(Seq(Bytes \cup {NUL})) /\ \A i \in DOMAIN text' : Len(text'[i]) <= MaxText
  /\ granted' \in Seq(BOOLEAN)
  /\ granted' = granted \/ \E c \in BOOLEAN : granted' = Append(granted, c)
  /\ Granting'

(* A command is accepted, refused, the last one, too long or unknown.       *)
LEMMA CommandIs ==
  ASSUME NEW l, Command(l)
  PROVE  \/ l = DataCmd /\ AcceptData
         \/ l = DataCmd /\ RefuseData
         \/ l = QuitCmd /\ Quit
         \/ l = TooLong /\ Other(Coded("exceeded_line"))
         \/ l \notin {DataCmd, QuitCmd, TooLong} /\ Other(Coded("invalid_command"))
<1>1. DataCmd # QuitCmd /\ DataCmd # TooLong /\ QuitCmd # TooLong
  <2>1. Bytes \subseteq Bytes \cup {NUL} /\ DataCmd \in Seq(Bytes) /\ QuitCmd \in Seq(Bytes)
    BY CommandsAssumption
  <2>2. DataCmd \in Seq(Bytes \cup {NUL}) /\ QuitCmd \in Seq(Bytes \cup {NUL})
    BY <2>1, SeqMonotonic
  <2> QED
    BY <2>2, CommandsAssumption
<1>2. CASE l = DataCmd
  BY <1>1, <1>2 DEF Command
<1>3. CASE l = QuitCmd
  BY <1>1, <1>3 DEF Command
<1>4. CASE l = TooLong
  BY <1>1, <1>4 DEF Command
<1>5. CASE l \notin {DataCmd, QuitCmd, TooLong}
  BY <1>5 DEF Command
<1> QED
  BY <1>2, <1>3, <1>4, <1>5

(* The types of what a command leaves behind.                               *)
LEMMA CommandCares ==
  ASSUME Kept, Granting, state = "CMD", NEW l, Command(l)
  PROVE  Cared
<1>1. /\ tooLong \in BOOLEAN /\ text \in Seq(Seq(Bytes \cup {NUL}))
      /\ \A i \in DOMAIN text : Len(text[i]) <= MaxText
      /\ granted \in Seq(BOOLEAN)
  BY DEF Kept
<1>2. CASE AcceptData
  <2>1. text' \in Seq(Seq(Bytes \cup {NUL})) /\ \A i \in DOMAIN text' : Len(text'[i]) <= MaxText
    BY <1>2 DEF AcceptData
  <2>2. granted' = Append(granted, TRUE) /\ state' = "DATA" /\ tooLong' = FALSE
    BY <1>2 DEF AcceptData, ClearFlag
  <2>3. Longer(granted', granted, TRUE, BOOLEAN)
    BY <1>1, <2>2, Appended
  <2>4. granted' \in Seq(BOOLEAN) /\ \E i \in DOMAIN granted' : granted'[i]
    <3>1. Len(granted) + 1 \in 1 .. Len(granted) + 1 /\ granted'[Len(granted) + 1] = TRUE
      BY <2>3 DEF Longer
    <3> QED
      BY <2>3, <3>1 DEF Longer
  <2> QED
    BY <2>1, <2>2, <2>4 DEF Cared, Granting, States
<1>3. CASE RefuseData
  <2>1. granted' = Append(granted, FALSE) /\ state' = "CMD" /\ tooLong' = tooLong /\ text' = text
    BY <1>3 DEF RefuseData
  <2>2. granted' \in Seq(BOOLEAN)
    BY <1>1, <2>1, Appended DEF Longer
  <2> QED
    BY <1>1, <2>1, <2>2 DEF Cared, Granting, States
<1>4. CASE Quit
  BY <1>1, <1>4 DEF Quit, Cared, Granting, States
<1>5. CASE \E e : Other(e)
  BY <1>1, <1>5 DEF Other, Cared, Granting, States
<1> QED
  BY <1>2, <1>3, <1>4, <1>5, CommandIs

(* A line of the stream in its reader: it is the command that it is.        *)
LEMMA CommandMeans ==
  ASSUME Kept, state = "CMD", NEW l, l \in Seq(Bytes), Command(Handed("CMD", l))
  PROVE  Responds(l, granted, events, granted', state', tooLong', text', events')
<1>1. DataCmd # QuitCmd /\ DataCmd # TooLong /\ QuitCmd # TooLong /\ l # TooLong
  <2>1. Bytes \subseteq Bytes \cup {NUL} /\ DataCmd \in Seq(Bytes) /\ QuitCmd \in Seq(Bytes)
    BY CommandsAssumption
  <2>2. DataCmd \in Seq(Bytes \cup {NUL}) /\ QuitCmd \in Seq(Bytes \cup {NUL}) /\ l \in Seq(Bytes \cup {NUL})
    BY <2>1, SeqMonotonic
  <2> QED
    BY <2>2, CommandsAssumption
<1>2. Handed("CMD", l) = IF Len(l) <= CmdCapacity THEN l ELSE TooLong
  BY DEF Handed, CapacityFor
<1>3. Len(DataCmd) <= CmdCapacity /\ Len(QuitCmd) <= CmdCapacity
  BY CommandsAssumption
<1>4. /\ Handed("CMD", l) = DataCmd <=> l = DataCmd
      /\ Handed("CMD", l) = QuitCmd <=> l = QuitCmd
      /\ Handed("CMD", l) = TooLong <=> ~(Len(l) <= CmdCapacity)
  BY <1>1, <1>2, <1>3
<1>5. Len(l) > CmdCapacity <=> ~(Len(l) <= CmdCapacity)
  <2>1. Len(l) \in Nat /\ CmdCapacity \in Nat
    BY LenProperties, Symbols
  <2> QED
    BY <2>1
<1>6. CASE l = DataCmd /\ AcceptData
  <2>1. granted' = Append(granted, TRUE) /\ state' = "DATA" /\ tooLong' = FALSE /\ text' = <<>>
    BY <1>6 DEF AcceptData, ClearFlag
  <2>2. events' = Append(events, Coded("start_data"))
    BY <1>6 DEF AcceptData, Say
  <2>3. granted'[Len(granted) + 1] = TRUE
    BY <2>1, Appended DEF Longer, Kept
  <2>4. AnswerTo(l, "DATA") = Coded("start_data")
    BY <1>1, <1>3, <1>5, <1>6 DEF AnswerTo
  <2> QED
    BY <1>6, <2>1, <2>2, <2>3, <2>4 DEF Asks, NextState, Responds
<1>7. CASE l = DataCmd /\ RefuseData
  <2>1. granted' = Append(granted, FALSE) /\ state' = "CMD"
    BY <1>7 DEF RefuseData
  <2>2. events' = Append(events, Coded("bad_sequence"))
    BY <1>7 DEF RefuseData, Say
  <2>3. granted'[Len(granted) + 1] = FALSE
    BY <2>1, Appended DEF Longer, Kept
  <2>4. AnswerTo(l, "CMD") = Coded("bad_sequence")
    BY <1>1, <1>3, <1>5, <1>7 DEF AnswerTo
  <2> QED
    BY <1>1, <1>7, <2>1, <2>2, <2>3, <2>4 DEF Asks, NextState, Responds
<1>8. CASE l = QuitCmd /\ Quit
  <2>1. granted' = granted /\ state' = "CLOSED" /\ events' = Append(events, Coded("quit"))
    BY <1>8 DEF Quit, Say
  <2>2. AnswerTo(l, "CLOSED") = Coded("quit")
    BY <1>1, <1>3, <1>5, <1>8 DEF AnswerTo
  <2> QED
    BY <1>1, <1>8, <2>1, <2>2 DEF Asks, NextState, Responds
<1>9. CASE l # DataCmd /\ l # QuitCmd /\ ~(Len(l) <= CmdCapacity) /\ Other(Coded("exceeded_line"))
  <2>1. granted' = granted /\ state' = "CMD" /\ events' = Append(events, Coded("exceeded_line"))
    BY <1>9 DEF Other, Say
  <2>2. AnswerTo(l, "CMD") = Coded("exceeded_line")
    BY <1>5, <1>9 DEF AnswerTo
  <2> QED
    BY <1>9, <2>1, <2>2 DEF Asks, NextState, Responds
<1>10. CASE l # DataCmd /\ l # QuitCmd /\ Len(l) <= CmdCapacity /\ Other(Coded("invalid_command"))
  <2>1. granted' = granted /\ state' = "CMD" /\ events' = Append(events, Coded("invalid_command"))
    BY <1>10 DEF Other, Say
  <2>2. AnswerTo(l, "CMD") = Coded("invalid_command")
    BY <1>5, <1>10 DEF AnswerTo
  <2> QED
    BY <1>10, <2>1, <2>2 DEF Asks, NextState, Responds
<1>11. \/ l = DataCmd /\ AcceptData
       \/ l = DataCmd /\ RefuseData
       \/ l = QuitCmd /\ Quit
       \/ l # DataCmd /\ l # QuitCmd /\ ~(Len(l) <= CmdCapacity) /\ Other(Coded("exceeded_line"))
       \/ l # DataCmd /\ l # QuitCmd /\ Len(l) <= CmdCapacity /\ Other(Coded("invalid_command"))
  <2>1. PICK got : got = Handed("CMD", l)
    OBVIOUS
  <2>2. Command(got)
    BY <2>1
  <2>3. /\ got = DataCmd <=> l = DataCmd
        /\ got = QuitCmd <=> l = QuitCmd
        /\ got = TooLong <=> ~(Len(l) <= CmdCapacity)
    BY <1>4, <2>1
  <2>4. \/ got = DataCmd /\ AcceptData
        \/ got = DataCmd /\ RefuseData
        \/ got = QuitCmd /\ Quit
        \/ got = TooLong /\ Other(Coded("exceeded_line"))
        \/ got \notin {DataCmd, QuitCmd, TooLong} /\ Other(Coded("invalid_command"))
    BY <2>2, CommandIs
  <2> QED
    BY <1>1, <2>3, <2>4
<1> QED
  BY <1>6, <1>7, <1>8, <1>9, <1>10, <1>11

(* A line of text, or the end of it.                                        *)
LEMMA TextCares ==
  ASSUME Kept, Granting, state = "DATA", NEW l, l \in Seq(Bytes \cup {NUL}) \cup {TooLong}, DataLine(l)
  PROVE  Cared
<1>1. /\ tooLong \in BOOLEAN /\ text \in Seq(Seq(Bytes \cup {NUL}))
      /\ \A i \in DOMAIN text : Len(text[i]) <= MaxText
      /\ granted \in Seq(BOOLEAN)
  BY DEF Kept
<1>2. CASE EndData
  BY <1>1, <1>2 DEF EndData, Cared, Granting, States
<1>3. CASE TextLine(l)
  <2>1. /\ tooLong' = (tooLong \/ Over(l)) /\ state' = state /\ granted' = granted
        /\ text' = IF tooLong' THEN text ELSE Append(text, Unstuffed(l))
    BY <1>3 DEF TextLine
  <2>2. tooLong' \in BOOLEAN
    BY <2>1
  <2>3. text' \in Seq(Seq(Bytes \cup {NUL})) /\ \A i \in DOMAIN text' : Len(text'[i]) <= MaxText
    <3>1. CASE tooLong'
      BY <1>1, <2>1, <3>1
    <3>2. CASE ~tooLong'
      <4>1. ~Over(l) /\ text' = Append(text, Unstuffed(l))
        BY <2>1, <3>2
      <4>2. l \in Seq(Bytes \cup {NUL}) /\ ~(Len(Unstuffed(l)) > MaxText)
        BY <4>1 DEF Over
      <4>3. PICK u : u = Unstuffed(l)
        OBVIOUS
      <4>4. u \in Seq(Bytes \cup {NUL})
        <5>1. Len(l) > 1 => Tail(l) \in Seq(Bytes \cup {NUL})
          <6>1. Len(l) > 1 => l # <<>>
            OBVIOUS
          <6> QED
            BY <4>2, <6>1, HeadTailProperties
        <5> QED
          BY <4>2, <4>3, <5>1 DEF Unstuffed
      <4>5. Len(u) <= MaxText
        <5>1. Len(u) \in Nat /\ MaxText \in Nat
          BY <4>4, LenProperties, CapacitiesAssumption
        <5> QED
          BY <4>2, <4>3, <5>1
      <4>6. Longer(text', text, u, Seq(Bytes \cup {NUL}))
        BY <1>1, <4>1, <4>3, <4>4, Appended
      <4>7. \A i \in 1 .. Len(text) + 1 : i = Len(text) + 1 \/ i \in 1 .. Len(text)
        <5>1. Len(text) \in Nat
          BY <4>6 DEF Longer
        <5> QED
          BY <5>1
      <4> QED
        BY <1>1, <4>5, <4>6, <4>7 DEF Longer
    <3> QED
      BY <3>1, <3>2
  <2> QED
    BY <1>1, <2>1, <2>2, <2>3 DEF Cared, Granting, States
<1> QED
  BY <1>2, <1>3 DEF DataLine

(* A line of the stream in the reader of text.                              *)
LEMMA TextMeans ==
  ASSUME Kept, state = "DATA", NEW l, l \in Seq(Bytes), NEW got, got = Handed("DATA", l), DataLine(got)
  PROVE  \/ /\ l = <<Dot>>
            /\ events' = Append(events, IF tooLong THEN Coded("exceeded_line") ELSE Stored(text))
            /\ state' = "CMD" /\ UNCHANGED <<tooLong, text, granted>>
         \/ /\ l # <<Dot>>
            /\ Keeps(got, tooLong, text, tooLong', text')
            /\ UNCHANGED <<state, events, granted>>
<1>1. got = (IF Len(l) <= LineCapacity THEN l ELSE TooLong)
  BY DEF Handed, CapacityFor
<1>2. l # TooLong
  <2>1. Bytes \subseteq Bytes \cup {NUL}
    OBVIOUS
  <2>2. l \in Seq(Bytes \cup {NUL})
    BY <2>1, SeqMonotonic
  <2> QED
    BY <2>2, CommandsAssumption
<1>3. Len(<<Dot>>) = 1 /\ 1 <= LineCapacity
  BY Symbols
<1>4. got # TooLong /\ EndsData(got) <=> l = <<Dot>>
  BY <1>1, <1>2, <1>3 DEF EndsData
<1>5. CASE l = <<Dot>>
  BY <1>4, <1>5 DEF DataLine, EndData, Say, Verdict
<1>6. CASE l # <<Dot>>
  <2>1. TextLine(got)
    BY <1>4, <1>6 DEF DataLine
  <2> QED
    BY <1>6, <2>1 DEF TextLine, Keeps
<1> QED
  BY <1>5, <1>6

(* The end of a line in the reader of commands.                             *)
LEMMA CmdEndsStep ==
  ASSUME IInv, NEW i, CmdEnds(i)
  PROVE  IInv'
<1>1. Kept /\ Arrived /\ Granting /\ sp \in Seq(Bytes) /\ Seen \in Seq(Bytes) /\ CmdCapacity \in Nat
  BY Symbols DEF IInv, Arrived
<1>2. /\ LineEndsAt(i, CmdCapacity, cmdTarget, cmdTail, cmdOffset, sp, lines,
                    cmdTarget', cmdTail', cmdOffset', sp', lines')
      /\ i \in 1 .. Len(sp) /\ state = "CMD" /\ sp # <<>>
  BY DEF CmdEnds
<1>3. UNCHANGED <<cmdFirst, input, stream, lineTarget, lineTail, lineOffset, lineFirst>>
  BY DEF CmdEnds
<1>4. cmdTarget \in Memory(CmdCapacity) /\ cmdTail \in Pairs /\ cmdOffset \in Nat
  BY <1>1 DEF Kept
<1>5. /\ cmdTarget' \in Memory(CmdCapacity) /\ cmdTail' \in Pairs /\ cmdTail'[2] = LF /\ cmdOffset' = 0
      /\ \E got \in Seq(Bytes \cup {NUL}) \cup {TooLong} : lines' = Append(lines, got)
  BY <1>1, <1>2, <1>4, LineTypes
<1>6. PICK got \in Seq(Bytes \cup {NUL}) \cup {TooLong} : lines' = Append(lines, got)
  BY <1>5
<1>7. lines' \in Seq(Seq(Bytes \cup {NUL}) \cup {TooLong}) /\ Last(lines') = got
  <2>1. lines \in Seq(Seq(Bytes \cup {NUL}) \cup {TooLong})
    BY <1>1 DEF Kept
  <2>2. Longer(lines', lines, got, Seq(Bytes \cup {NUL}) \cup {TooLong})
    BY <1>6, <2>1, Appended
  <2> QED
    BY <2>2 DEF Longer, Last
<1>8. Command(got)
  BY <1>7 DEF CmdEnds
<1>9. Cared
  BY <1>1, <1>2, <1>8, CommandCares
<1>10. Arrived' /\ Seen' = Seen \o SubSeq(sp, 1, i)
  <2>1. i \in 0 .. Len(sp) /\ sp' = SubSeq(sp, i + 1, Len(sp))
    <3>1. Len(sp) \in Nat
      BY <1>1, LenProperties
    <3> QED
      BY <1>2, <3>1 DEF LineEndsAt
  <2> QED
    BY <1>1, <1>2, <1>3, <2>1, SeenMore
<1>11. Kept' /\ Granting'
  BY <1>1, <1>3, <1>5, <1>7, <1>9 DEF Kept, Cared
<1>12. ASSUME ~Stray'
       PROVE  InStep'
  <2>1. ~Stray
    BY <1>1, <1>3, <1>9, <1>12, StraySame DEF Cared
  <2>2. PICK e : Reading(e) /\ Talking(e)
    BY <2>1 DEF IInv, InStep
  <2>3. /\ IsCut(e, Seen) /\ Holds(cmdTarget, cmdTail, cmdOffset, Rest(e, Seen))
        /\ Holds(lineTarget, lineTail, lineOffset, <<>>)
    BY <1>2, <2>2 DEF Reading
  <2>4. Clean(cmdTail, cmdOffset, sp)
    BY <1>1, <1>2, <2>1, <2>2, NoStrayCommand
  <2>5. PICK e2, l : ReadLine(CmdCapacity, e, Seen, e2, l, Seen \o SubSeq(sp, 1, i), lines, lines',
                              cmdTarget', cmdTail', cmdOffset')
    BY <1>1, <1>2, <1>4, <2>3, <2>4, LineIs
  <2>6. /\ IsCut(e2, Seen') /\ e2 # <<>> /\ l \in Seq(Bytes)
        /\ RawOf(e2, Seen') = Append(RawOf(e, Seen), l)
        /\ Rest(e2, Seen') = <<>>
        /\ lines' = Append(lines, IF Len(l) <= CmdCapacity THEN l ELSE TooLong)
        /\ Holds(cmdTarget', cmdTail', cmdOffset', <<>>)
    BY <1>10, <2>5 DEF ReadLine
  <2>7. got = Handed("CMD", l)
    <3>1. Last(lines') = Handed("CMD", l)
      <4>1. PICK h : h = Handed("CMD", l)
        OBVIOUS
      <4>2. lines' = Append(lines, h)
        BY <2>6, <4>1 DEF Handed, CapacityFor
      <4>3. h \in Seq(Bytes \cup {NUL}) \cup {TooLong}
        <5>1. Bytes \subseteq Bytes \cup {NUL}
          OBVIOUS
        <5>2. l \in Seq(Bytes \cup {NUL})
          BY <2>6, <5>1, SeqMonotonic
        <5> QED
          BY <4>1, <5>2 DEF Handed
      <4>4. lines \in Seq(Seq(Bytes \cup {NUL}) \cup {TooLong})
        BY <1>1 DEF Kept
      <4>5. Longer(lines', lines, h, Seq(Bytes \cup {NUL}) \cup {TooLong})
        BY <4>2, <4>3, <4>4, Appended
      <4> QED
        BY <4>1, <4>5 DEF Longer, Last
    <3> QED
      BY <1>7, <3>1
  <2>8. Responds(l, granted, events, granted', state', tooLong', text', events')
    BY <1>1, <1>2, <1>8, <2>6, <2>7, CommandMeans
  <2>9. LF # CR
    BY Symbols
  <2>10. Remembers'
    BY <1>3, <1>5, <2>2, <2>9 DEF Reading, Remembers
  <2>11. Reading(e2)'
    BY <1>3, <2>3, <2>6, <2>10 DEF Reading
  <2>12. Talking(e2)'
    <3>1. PICK f : Talk(RawOf(e, Seen), f, granted, "CMD", lines, tooLong, text, events)
      BY <1>2, <2>2 DEF Talking, Talks
    <3>2. RawOf(e, Seen) \in Seq(Seq(Bytes))
      BY <1>1, <2>3, CutType
    <3>3. granted \in Seq(BOOLEAN) /\ granted' \in Seq(BOOLEAN)
      BY <1>1, <1>11 DEF Kept
    <3>4. lines' = Append(lines, Handed("CMD", l))
      BY <1>6, <2>7
    <3>5. Talks(RawOf(e2, Seen'), granted', state', lines', tooLong', text', events')
      BY <2>6, <2>8, <3>1, <3>2, <3>3, <3>4, CommandAnswered
    <3> QED
      BY <3>5 DEF Talking
  <2> QED
    BY <2>11, <2>12 DEF InStep
<1> QED
  BY <1>10, <1>11, <1>12 DEF IInv

(* The end of a line in the reader of text.                                 *)
LEMMA TextEndsStep ==
  ASSUME IInv, NEW i, TextEnds(i)
  PROVE  IInv'
<1>1. Kept /\ Arrived /\ Granting /\ sp \in Seq(Bytes) /\ Seen \in Seq(Bytes) /\ LineCapacity \in Nat
  BY Symbols DEF IInv, Arrived
<1>2. /\ LineEndsAt(i, LineCapacity, lineTarget, lineTail, lineOffset, sp, lines,
                    lineTarget', lineTail', lineOffset', sp', lines')
      /\ i \in 1 .. Len(sp) /\ state = "DATA" /\ sp # <<>>
  BY DEF TextEnds
<1>3. UNCHANGED <<lineFirst, input, stream, cmdTarget, cmdTail, cmdOffset, cmdFirst>>
  BY DEF TextEnds
<1>4. lineTarget \in Memory(LineCapacity) /\ lineTail \in Pairs /\ lineOffset \in Nat
  BY <1>1 DEF Kept
<1>5. /\ lineTarget' \in Memory(LineCapacity) /\ lineTail' \in Pairs /\ lineTail'[2] = LF /\ lineOffset' = 0
      /\ \E got \in Seq(Bytes \cup {NUL}) \cup {TooLong} : lines' = Append(lines, got)
  BY <1>1, <1>2, <1>4, LineTypes
<1>6. PICK got \in Seq(Bytes \cup {NUL}) \cup {TooLong} : lines' = Append(lines, got)
  BY <1>5
<1>7. lines' \in Seq(Seq(Bytes \cup {NUL}) \cup {TooLong}) /\ Last(lines') = got
  <2>1. lines \in Seq(Seq(Bytes \cup {NUL}) \cup {TooLong})
    BY <1>1 DEF Kept
  <2>2. Longer(lines', lines, got, Seq(Bytes \cup {NUL}) \cup {TooLong})
    BY <1>6, <2>1, Appended
  <2> QED
    BY <2>2 DEF Longer, Last
<1>8. DataLine(got)
  BY <1>7 DEF TextEnds
<1>9. Cared
  BY <1>1, <1>2, <1>8, TextCares
<1>10. Arrived' /\ Seen' = Seen \o SubSeq(sp, 1, i)
  <2>1. i \in 0 .. Len(sp) /\ sp' = SubSeq(sp, i + 1, Len(sp))
    <3>1. Len(sp) \in Nat
      BY <1>1, LenProperties
    <3> QED
      BY <1>2, <3>1 DEF LineEndsAt
  <2> QED
    BY <1>1, <1>2, <1>3, <2>1, SeenMore
<1>11. Kept' /\ Granting'
  BY <1>1, <1>3, <1>5, <1>7, <1>9 DEF Kept, Cared
<1>12. ASSUME ~Stray'
       PROVE  InStep'
  <2>1. ~Stray
    BY <1>1, <1>3, <1>9, <1>12, StraySame DEF Cared
  <2>2. PICK e : Reading(e) /\ Talking(e)
    BY <2>1 DEF IInv, InStep
  <2>3. /\ IsCut(e, Seen) /\ Holds(lineTarget, lineTail, lineOffset, Rest(e, Seen))
        /\ Holds(cmdTarget, cmdTail, cmdOffset, <<>>) /\ e # <<>>
    BY <1>2, <2>2 DEF Reading
  <2>4. Clean(lineTail, lineOffset, sp)
    BY <1>1, <1>2, <2>1, <2>2, NoStrayText
  <2>5. PICK e2, l : ReadLine(LineCapacity, e, Seen, e2, l, Seen \o SubSeq(sp, 1, i), lines, lines',
                              lineTarget', lineTail', lineOffset')
    BY <1>1, <1>2, <1>4, <2>3, <2>4, LineIs
  <2>6. /\ IsCut(e2, Seen') /\ e2 # <<>> /\ l \in Seq(Bytes)
        /\ RawOf(e2, Seen') = Append(RawOf(e, Seen), l)
        /\ Rest(e2, Seen') = <<>>
        /\ lines' = Append(lines, IF Len(l) <= LineCapacity THEN l ELSE TooLong)
        /\ Holds(lineTarget', lineTail', lineOffset', <<>>)
    BY <1>10, <2>5 DEF ReadLine
  <2>7. got = Handed("DATA", l)
    <3>1. Last(lines') = Handed("DATA", l)
      <4>1. PICK h : h = Handed("DATA", l)
        OBVIOUS
      <4>2. lines' = Append(lines, h)
        BY <2>6, <4>1 DEF Handed, CapacityFor
      <4>3. h \in Seq(Bytes \cup {NUL}) \cup {TooLong}
        <5>1. Bytes \subseteq Bytes \cup {NUL}
          OBVIOUS
        <5>2. l \in Seq(Bytes \cup {NUL})
          BY <2>6, <5>1, SeqMonotonic
        <5> QED
          BY <4>1, <5>2 DEF Handed
      <4>4. lines \in Seq(Seq(Bytes \cup {NUL}) \cup {TooLong})
        BY <1>1 DEF Kept
      <4>5. Longer(lines', lines, h, Seq(Bytes \cup {NUL}) \cup {TooLong})
        BY <4>2, <4>3, <4>4, Appended
      <4> QED
        BY <4>1, <4>5 DEF Longer, Last
    <3> QED
      BY <1>7, <3>1
  <2>8. \/ /\ l = <<Dot>>
           /\ events' = Append(events, IF tooLong THEN Coded("exceeded_line") ELSE Stored(text))
           /\ state' = "CMD" /\ UNCHANGED <<tooLong, text, granted>>
        \/ /\ l # <<Dot>>
           /\ Keeps(got, tooLong, text, tooLong', text')
           /\ UNCHANGED <<state, events, granted>>
    BY <1>1, <1>2, <1>8, <2>6, <2>7, TextMeans
  <2>9. LF # CR
    BY Symbols
  <2>10. Remembers'
    <3>1. cmdTail[2] = CR => cmdOffset # 0
      BY <1>1, <2>2, <2>3, NotBefore DEF Reading, Remembers
    <3> QED
      BY <1>3, <1>5, <2>9, <3>1 DEF Remembers
  <2>11. Reading(e2)'
    BY <1>3, <2>3, <2>6, <2>10 DEF Reading
  <2>12. Talking(e2)'
    <3>1. PICK f : Talk(RawOf(e, Seen), f, granted, "DATA", lines, tooLong, text, events)
      BY <1>2, <2>2 DEF Talking, Talks
    <3>2. RawOf(e, Seen) \in Seq(Seq(Bytes))
      BY <1>1, <2>3, CutType
    <3>3. granted \in Seq(BOOLEAN) /\ tooLong \in BOOLEAN /\ tooLong' \in BOOLEAN
      BY <1>1, <1>11 DEF Kept
    <3>4. lines' = Append(lines, Handed("DATA", l)) /\ lines' = Append(lines, got)
      BY <1>6, <2>7
    <3>5. CASE /\ l = <<Dot>>
               /\ events' = Append(events, IF tooLong THEN Coded("exceeded_line") ELSE Stored(text))
               /\ state' = "CMD" /\ UNCHANGED <<tooLong, text, granted>>
      <4>1. Talks(RawOf(e2, Seen'), granted, "CMD", lines', tooLong, text, events')
        BY <2>6, <3>1, <3>2, <3>3, <3>4, <3>5, EndAnswered
      <4> QED
        BY <3>5, <4>1 DEF Talking
    <3>6. CASE /\ l # <<Dot>>
               /\ Keeps(got, tooLong, text, tooLong', text')
               /\ UNCHANGED <<state, events, granted>>
      <4>1. Talks(RawOf(e2, Seen'), granted, "DATA", lines', tooLong', text', events)
        BY <2>6, <2>7, <3>1, <3>2, <3>3, <3>4, <3>6, TextKept
      <4> QED
        BY <1>2, <3>6, <4>1 DEF Talking
    <3> QED
      BY <2>8, <3>5, <3>6
  <2> QED
    BY <2>11, <2>12 DEF InStep
<1> QED
  BY <1>10, <1>11, <1>12 DEF IInv

-----------------------------------------------------------------------------
(* In the beginning: nothing has come, and a command is expected.           *)
LEMMA NothingSaid ==
  ASSUME NEW tl, NEW tx
  PROVE  Talks(<<>>, <<>>, "CMD", <<>>, tl, tx, <<>>)
<1>1. PICK m \in Steps : m = [asked |-> 0, mode |-> "CMD"]
  BY DEF Steps, States
<1>2. PICK f : f = <<m>>
  OBVIOUS
<1>3. f \in Seq(Steps) /\ Len(f) = 1 /\ f[1] = m
  BY <1>2
<1>4. Len(<<>>) = 0 /\ DOMAIN <<>> = {}
  OBVIOUS
<1>5. Walk(f, <<>>, <<>>)
  <2>1. \A i \in 1 .. 0 + 1 : f[i].asked <= 0
    <3>1. m.asked = 0
      BY <1>1
    <3> QED
      BY <1>3, <3>1
  <2> QED
    BY <1>1, <1>3, <1>4, <2>1 DEF Walk
<1>6. f[Len(<<>>) + 1] = [asked |-> Len(<<>>), mode |-> "CMD"]
  BY <1>1, <1>3, <1>4
<1>7. Splits(<<>>, ModesOf(f), <<>>)
  BY <1>4 DEF Splits
<1>8. Started(ModesOf(f))
  <2>1. ModesOf(f) \in Seq(States) /\ Len(ModesOf(f)) = 1 /\ ModesOf(f)[1] = "CMD"
    <3>1. m.mode = "CMD"
      BY <1>1
    <3> QED
      BY <1>3, <3>1, ModesOfType
  <2>2. DOMAIN ModesOf(f) = 1 .. 1
    BY <1>3 DEF ModesOf
  <2> QED
    BY <2>1, <2>2 DEF Started
<1>9. Answers(<<>>, ModesOf(f), <<>>)
  <2>1. <<>> \in Seq(Nat \ {0}) /\ Increasing(<<>>) /\ PlacesOf(<<>>) = {}
    BY <1>4 DEF Increasing, PlacesOf
  <2>2. Answered(<<>>, ModesOf(f)) = {}
    BY <1>4 DEF Answered
  <2>3. <<>> = [n \in DOMAIN <<>> |-> Expected(<<>>, ModesOf(f), <<>>[n])]
    BY <1>4
  <2> QED
    BY <2>1, <2>2, <2>3 DEF Answers
<1> QED
  BY <1>5, <1>6, <1>7, <1>8, <1>9 DEF Talks, Talk

(* A reader whose offset is 0 holds nothing.                                *)
LEMMA NothingHeld ==
  ASSUME NEW C, C \in Nat, NEW b, b \in Memory(C), NEW t
  PROVE  Holds(b, t, 0, <<>>)
<1>1. Len(<<>>) = 0 /\ \A k \in DOMAIN b : ~(k <= 0)
  BY DEF Memory
<1> QED
  BY <1>1 DEF Holds

(* A connection begins like that.                                           *)
LEMMA InitInv ==
  ASSUME Init
  PROVE  IInv
<1>1. /\ cmdTarget = [k \in 1 .. CmdCapacity |-> NUL] /\ cmdTail \in Pairs /\ cmdOffset = 0
      /\ lines = <<>> /\ cmdFirst = cmdTail[2]
  BY DEF Init, Cmd!Init, Cmd!Pairs, Pairs
<1>2. /\ lineTarget = [k \in 1 .. LineCapacity |-> NUL] /\ lineTail \in Pairs /\ lineOffset = 0
      /\ lineFirst = lineTail[2]
  BY DEF Init, Line!Init, Line!Pairs, Pairs
<1>3. /\ input \in Streams /\ sp = <<>> /\ stream = <<>> /\ state = "CMD" /\ tooLong \in BOOLEAN
      /\ text = <<>> /\ events = <<>> /\ granted = <<>>
  BY DEF Init
<1>4. cmdTarget \in Memory(CmdCapacity) /\ lineTarget \in Memory(LineCapacity)
  BY <1>1, <1>2 DEF Memory
<1>5. cmdFirst \in Bytes \cup {NUL} /\ lineFirst \in Bytes \cup {NUL}
  BY <1>1, <1>2 DEF Pairs
<1>6. Len(<<>>) = 0 /\ DOMAIN <<>> = {} /\ <<>> \in Seq(Bytes) /\ SubSeq(<<>>, 1, 0) = <<>>
  <2>1. <<>> \in Seq(Bytes) /\ Len(<<>>) = 0
    OBVIOUS
  <2>2. SubSeq(<<>>, 1, 0) \in Seq(Bytes) /\ Len(SubSeq(<<>>, 1, 0)) = 0
    BY <2>1, FrontIs
  <2> QED
    BY <2>1, <2>2, EmptySeq
<1>7. Kept
  <2>1. lines \in Seq(Seq(Bytes \cup {NUL}) \cup {TooLong}) /\ text \in Seq(Seq(Bytes \cup {NUL})) /\ granted \in Seq(BOOLEAN)
    BY <1>1, <1>3
  <2>2. \A i \in DOMAIN text : Len(text[i]) <= MaxText
    BY <1>3, <1>6
  <2> QED
    BY <1>1, <1>2, <1>3, <1>4, <1>5, <2>1, <2>2 DEF Kept, States
<1>8. Seen = <<>>
  BY <1>3, <1>6 DEF Seen
<1>9. Arrived
  <2>1. input \in Seq(Bytes) /\ Len(input) \in Nat
    BY <1>3, StreamsAssumption, LenProperties
  <2>2. SubSeq(input, 1, 0) = <<>>
    <3>1. SubSeq(input, 1, 0) \in Seq(Bytes) /\ Len(SubSeq(input, 1, 0)) = 0
      BY <2>1, FrontIs
    <3> QED
      BY <3>1, EmptySeq
  <2>3. <<>> \o <<>> = <<>>
    BY <1>6, ConcatEmptySeq
  <2> QED
    BY <1>3, <1>6, <1>8, <2>1, <2>2, <2>3 DEF Arrived
<1>10. Granting
  BY <1>3 DEF Granting
<1>11. InStep
  <2>1. IsCut(<<>>, <<>>)
    <3>1. <<>> \in Seq(Nat \ {0}) /\ Increasing(<<>>) /\ PlacesOf(<<>>) = {}
      BY <1>6 DEF Increasing, PlacesOf
    <3>2. EndsIn(<<>>) = {}
      BY <1>6 DEF EndsIn
    <3> QED
      BY <3>1, <3>2 DEF IsCut
  <2>2. Rest(<<>>, <<>>) = <<>>
    BY <1>6 DEF Rest, StartOf
  <2>3. Holds(cmdTarget, cmdTail, 0, <<>>) /\ Holds(lineTarget, lineTail, 0, <<>>)
    BY <1>4, NothingHeld, Symbols
  <2>4. Reading(<<>>)
    BY <1>1, <1>2, <1>3, <1>8, <2>1, <2>2, <2>3 DEF Reading, Remembers
  <2>5. RawOf(<<>>, <<>>) = <<>>
    BY <1>6 DEF RawOf
  <2>6. Talking(<<>>)
    BY <1>1, <1>3, <1>8, <2>5, NothingSaid DEF Talking
  <2> QED
    BY <2>4, <2>6 DEF InStep
<1> QED
  BY <1>7, <1>9, <1>10, <1>11 DEF IInv

(* A step that changes nothing changes nothing of it.                       *)
LEMMA StutterStep ==
  ASSUME IInv, UNCHANGED vars
  PROVE  IInv'
<1>1. UNCHANGED <<input, sp, stream, cmdTarget, cmdTail, cmdOffset, cmdFirst, lineTarget, lineTail, lineOffset,
                  lineFirst, lines, state, tooLong, text, events, granted>>
  BY DEF vars, readers
<1>2. Seen' = Seen
  BY <1>1 DEF Seen
<1>3. Kept' /\ Granting' /\ Arrived'
  BY <1>1, <1>2 DEF IInv, Kept, Granting, Arrived
<1>4. ASSUME ~Stray' PROVE InStep'
  <2>1. ~Stray
    BY <1>1, <1>4 DEF Stray
  <2>2. PICK e : Reading(e) /\ Talking(e)
    BY <2>1 DEF IInv, InStep
  <2>3. Reading(e)' /\ Talking(e)'
    BY <1>1, <1>2, <2>2 DEF Reading, Remembers, Talking
  <2> QED
    BY <2>3 DEF InStep
<1> QED
  BY <1>3, <1>4 DEF IInv

(* The inductive invariant.                                                 *)
THEOREM Following == Spec => []IInv
<1>1. Init => IInv
  BY InitInv
<1>2. IInv /\ [Next]_vars => IInv'
  <2> SUFFICES ASSUME IInv, [Next]_vars PROVE IInv'
    OBVIOUS
  <2>1. sp \in Seq(Bytes)
    BY DEF IInv, Arrived
  <2>2. CASE Next
    BY <2>1, <2>2, StepsAre, RecvStep, CmdGoesOnStep, CmdEndsStep, TextGoesOnStep, TextEndsStep
  <2>3. CASE UNCHANGED vars
    BY <2>3, StutterStep
  <2> QED
    BY <2>2, <2>3
<1> QED
  BY <1>1, <1>2, PTL DEF Spec

-----------------------------------------------------------------------------
(* What the invariant says of the lines and modes that the stream has.      *)
LEMMA Conversation ==
  ASSUME IInv, ~Stray
  PROVE  \E e, f : /\ IsCut(e, Seen) /\ Seen \in Seq(Bytes) /\ Reading(e)
                   /\ RawLines = RawOf(e, Seen) /\ Modes = ModesOf(f)
                   /\ Talk(RawLines, f, granted, state, lines, tooLong, text, events)
<1>1. PICK e : Reading(e) /\ Talking(e)
  BY DEF IInv, InStep
<1>2. IsCut(e, Seen) /\ Seen \in Seq(Bytes)
  BY <1>1 DEF Reading, IInv, Arrived
<1>3. PICK f : Talk(RawOf(e, Seen), f, granted, state, lines, tooLong, text, events)
  BY <1>1 DEF Talking, Talks
<1>4. RawLines = RawOf(e, Seen) /\ Modes = ModesOf(f)
  BY <1>2, <1>3, ModesAre DEF Talk
<1> QED
  BY <1>1, <1>2, <1>3, <1>4

(* The types of the dialogue: session::feed and its two readers never leave *)
(* their buffers, and no line of a message is longer than the protocol has. *)
THEOREM Types == Spec => []TypeOK
<1>1. IInv => TypeOK
  <2> SUFFICES ASSUME IInv PROVE TypeOK
    OBVIOUS
  <2>1. Kept /\ Arrived
    BY DEF IInv
  <2>2. Cmd!TypeOK /\ Line!TypeOK
    BY <2>1 DEF Kept, Arrived, Cmd!TypeOK, Line!TypeOK, Cmd!Pairs, Line!Pairs, Pairs, Memory
  <2>3. IsPrefix(stream, input)
    <3>1. PICK n \in Nat : n = Len(stream)
      BY <2>1, LenProperties DEF Arrived
    <3>2. SubSeq(stream, 1, n) = stream
      <4>1. stream \in Seq(Bytes)
        BY <2>1 DEF Arrived
      <4>2. /\ SubSeq(stream, 1, n) \in Seq(Bytes) /\ Len(SubSeq(stream, 1, n)) = n
            /\ \A k \in 1 .. n : SubSeq(stream, 1, n)[k] = stream[k]
        BY <3>1, <4>1, FrontIs
      <4> QED
        BY <3>1, <4>1, <4>2, SeqEqual
    <3> QED
      BY <2>1, <3>1, <3>2 DEF Arrived, IsPrefix
  <2> QED
    BY <2>1, <2>2, <2>3 DEF TypeOK, Kept, States
<1> QED
  BY <1>1, Following, PTL

(* The lines that feed_cmd and feed_data get are those of the stream.       *)
THEOREM Splitting == Spec => []LinesAreSplit
<1>1. IInv => LinesAreSplit
  <2> SUFFICES ASSUME IInv, ~Stray PROVE LinesAreSplit
    BY DEF LinesAreSplit
  <2>1. PICK e, f : /\ Modes = ModesOf(f)
                    /\ Talk(RawLines, f, granted, state, lines, tooLong, text, events)
    BY Conversation
  <2>2. Splits(RawLines, Modes, lines)
    BY <2>1 DEF Talk
  <2> QED
    BY <2>2 DEF LinesAreSplit, Splits, CapacityFor
<1> QED
  BY <1>1, Following, PTL

(* What join keeps between two calls is the unfinished line of the stream.  *)
THEOREM Buffering == Spec => []BufferHoldsRest
<1>1. IInv => BufferHoldsRest
  <2> SUFFICES ASSUME IInv, ~Stray PROVE BufferHoldsRest
    BY DEF BufferHoldsRest
  <2>1. PICK e : IsCut(e, Seen) /\ Seen \in Seq(Bytes) /\ Reading(e)
    BY Conversation
  <2>2. PICK n \in Nat : n = Max({0} \cup EndsIn(Seen)) /\ n = StartOf(e)
    BY <2>1, CutIs, StartIs
  <2>3. SubSeq(Seen, 1 + n, Len(Seen)) = Rest(e, Seen)
    <3>1. 1 + n = n + 1
      OBVIOUS
    <3> QED
      BY <2>2, <3>1 DEF Rest
  <2> QED
    BY <2>1, <2>2, <2>3 DEF BufferHoldsRest, Reading
<1> QED
  BY <1>1, Following, PTL

(* session::feed answers the stream, command by command and message by      *)
(* message, in whatever pieces it comes.                                    *)
THEOREM Answering == Spec => []ConversationIsOfStream
<1>1. IInv => ConversationIsOfStream
  <2> SUFFICES ASSUME IInv, ~Stray PROVE ConversationIsOfStream
    BY DEF ConversationIsOfStream
  <2>1. PICK e, f : /\ IsCut(e, Seen) /\ Seen \in Seq(Bytes) /\ RawLines = RawOf(e, Seen)
                    /\ Modes = ModesOf(f)
                    /\ Talk(RawLines, f, granted, state, lines, tooLong, text, events)
    BY Conversation
  <2>2. PICK order \in Seq(Nat \ {0}) :
          /\ Increasing(order) /\ PlacesOf(order) = Answered(RawLines, Modes)
          /\ events = [n \in DOMAIN order |-> Expected(RawLines, Modes, order[n])]
    BY <2>1 DEF Talk, Answers
  <2>3. Ordered(Answered(RawLines, Modes)) = order
    BY <2>2, OrderedIs
  <2>4. state = Modes[Len(RawLines) + 1]
    <3>1. PICK n \in Nat : n = Len(RawLines)
      <4>1. RawLines \in Seq(Seq(Bytes))
        BY <2>1, CutType
      <4> QED
        BY <4>1, LenProperties
    <3>2. f \in Seq(Steps) /\ Len(f) = n + 1 /\ f[n + 1] = [asked |-> Len(granted), mode |-> state]
      BY <2>1, <3>1 DEF Talk, Walk
    <3>3. n + 1 \in 1 .. Len(f)
      BY <3>2
    <3>4. Modes[n + 1] = f[n + 1].mode
      BY <2>1, <3>2, <3>3, ModesOfType
    <3> QED
      BY <3>1, <3>2, <3>4
  <2> QED
    BY <2>2, <2>3, <2>4 DEF ConversationIsOfStream, Answered
<1> QED
  BY <1>1, Following, PTL

=============================================================================
