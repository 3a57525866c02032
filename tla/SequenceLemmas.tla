---- MODULE SequenceLemmas ----
(***************************************************************************)
(* Facts about queues that the proofs keep needing: what is in a sequence  *)
(* when its head is taken off or an element is put behind it, how often,   *)
(* and in which order.                                                     *)
(***************************************************************************)
EXTENDS Integers, SequenceTheorems, FiniteSetTheorems, FunctionTheorems, TLAPS

\* e is in s at most once.
Once(e, s) == \A j, k \in DOMAIN s : s[j] = e /\ s[k] = e => j = k

\* What is left when the head is taken.
LEMMA RangeOfTail ==
  ASSUME NEW S, NEW s \in Seq(S), s # <<>>
  PROVE  /\ Tail(s) \in Seq(S) /\ Head(s) \in S
         /\ Head(s) \in Range(s)
         /\ Range(Tail(s)) \subseteq Range(s)
         /\ Range(s) = Range(Tail(s)) \cup {Head(s)}
<1>1. /\ Tail(s) \in Seq(S) /\ Head(s) \in S
      /\ Len(s) \in Nat \ {0} /\ Len(Tail(s)) = Len(s) - 1
      /\ \A i \in 1..Len(Tail(s)) : Tail(s)[i] = s[i + 1]
      /\ Head(s) = s[1]
  OBVIOUS
<1>2. DOMAIN s = 1..Len(s) /\ DOMAIN Tail(s) = 1..Len(Tail(s))
  BY <1>1
<1>3. Head(s) \in Range(s)
  BY <1>1, <1>2 DEF Range
<1>4. ASSUME NEW e \in Range(Tail(s)) PROVE e \in Range(s)
  <2>1. PICK i \in 1..Len(Tail(s)) : e = Tail(s)[i]
    BY <1>2 DEF Range
  <2>2. i + 1 \in 1..Len(s) /\ e = s[i + 1]
    BY <2>1, <1>1
  <2> QED BY <2>2, <1>2 DEF Range
<1>5. ASSUME NEW e \in Range(s), e # Head(s) PROVE e \in Range(Tail(s))
  <2>1. PICK i \in 1..Len(s) : e = s[i]
    BY <1>2 DEF Range
  <2>2. i - 1 \in 1..Len(Tail(s)) /\ e = Tail(s)[i - 1]
    BY <2>1, <1>1, <1>5
  <2> QED BY <2>2, <1>2 DEF Range
<1> QED BY <1>1, <1>3, <1>4, <1>5

\* An element that is there once is taken or left, not both.
LEMMA OnceInTail ==
  ASSUME NEW S, NEW s \in Seq(S), s # <<>>, NEW e, Once(e, s)
  PROVE  /\ Once(e, Tail(s))
         /\ e = Head(s) => e \notin Range(Tail(s))
<1>1. /\ Tail(s) \in Seq(S)
      /\ Len(s) \in Nat \ {0} /\ Len(Tail(s)) = Len(s) - 1
      /\ \A i \in 1..Len(Tail(s)) : Tail(s)[i] = s[i + 1]
      /\ Head(s) = s[1]
  OBVIOUS
<1>2. DOMAIN s = 1..Len(s) /\ DOMAIN Tail(s) = 1..Len(Tail(s))
  BY <1>1
<1>3. ASSUME NEW i \in 1..Len(Tail(s)) PROVE i + 1 \in 1..Len(s) /\ i + 1 # 1
  BY <1>1
<1>4. Once(e, Tail(s))
  <2> SUFFICES ASSUME NEW j \in 1..Len(Tail(s)), NEW k \in 1..Len(Tail(s)),
                      Tail(s)[j] = e, Tail(s)[k] = e
               PROVE  j = k
    BY <1>2 DEF Once
  <2>1. s[j + 1] = e /\ s[k + 1] = e
    BY <1>1
  <2>2. j + 1 = k + 1
    BY <1>2, <1>3, <2>1 DEF Once
  <2> QED BY <2>2
<1>5. ASSUME e = Head(s), e \in Range(Tail(s)) PROVE FALSE
  <2>1. PICK i \in 1..Len(Tail(s)) : e = Tail(s)[i]
    BY <1>2, <1>5 DEF Range
  <2>2. s[i + 1] = e /\ s[1] = e /\ 1 \in 1..Len(s)
    BY <1>1, <1>5, <2>1
  <2>3. i + 1 = 1
    BY <1>2, <1>3, <2>2 DEF Once
  <2> QED BY <1>3, <2>3
<1> QED BY <1>4, <1>5

\* What is there when an element is put behind the others.
LEMMA RangeOfAppend ==
  ASSUME NEW S, NEW s \in Seq(S), NEW l \in S
  PROVE  /\ Append(s, l) \in Seq(S)
         /\ Range(Append(s, l)) = Range(s) \cup {l}
<1>1. /\ Append(s, l) \in Seq(S) /\ Len(s) \in Nat
      /\ Len(Append(s, l)) = Len(s) + 1
      /\ \A i \in 1..Len(s) : Append(s, l)[i] = s[i]
      /\ Append(s, l)[Len(s) + 1] = l
  BY AppendProperties
<1>2. DOMAIN s = 1..Len(s) /\ DOMAIN Append(s, l) = 1..(Len(s) + 1)
  BY <1>1
<1>3. ASSUME NEW e \in Range(Append(s, l)) PROVE e \in Range(s) \cup {l}
  <2>1. PICK i \in 1..(Len(s) + 1) : e = Append(s, l)[i]
    BY <1>2 DEF Range
  <2>2. i \in 1..Len(s) \/ i = Len(s) + 1
    BY <1>1
  <2> QED BY <2>1, <2>2, <1>1, <1>2 DEF Range
<1>4. ASSUME NEW e \in Range(s) \cup {l} PROVE e \in Range(Append(s, l))
  <2>1. CASE e = l
    <3>1. Len(s) + 1 \in 1..(Len(s) + 1) /\ e = Append(s, l)[Len(s) + 1]
      BY <2>1, <1>1
    <3> QED BY <3>1, <1>2 DEF Range
  <2>2. CASE e \in Range(s)
    <3>1. PICK i \in 1..Len(s) : e = s[i]
      BY <2>2, <1>2 DEF Range
    <3>2. i \in 1..(Len(s) + 1) /\ e = Append(s, l)[i]
      BY <3>1, <1>1
    <3> QED BY <3>2, <1>2 DEF Range
  <2> QED BY <2>1, <2>2
<1> QED BY <1>1, <1>3, <1>4

\* A new element is there once, and every other as often as before.
LEMMA OnceInAppend ==
  ASSUME NEW S, NEW s \in Seq(S), NEW l \in S, NEW e, Once(e, s),
         e = l => e \notin Range(s)
  PROVE  Once(e, Append(s, l))
<1>1. /\ Len(s) \in Nat
      /\ DOMAIN s = 1..Len(s) /\ DOMAIN Append(s, l) = 1..(Len(s) + 1)
      /\ \A i \in 1..Len(s) : Append(s, l)[i] = s[i]
      /\ Append(s, l)[Len(s) + 1] = l
  BY AppendProperties
<1>2. ASSUME NEW i \in 1..(Len(s) + 1) PROVE i \in 1..Len(s) \/ i = Len(s) + 1
  BY <1>1
<1>3. ASSUME NEW j \in 1..Len(s), NEW k \in 1..Len(s),
             Append(s, l)[j] = e, Append(s, l)[k] = e
      PROVE  j = k
  BY <1>1, <1>3 DEF Once
<1>4. ASSUME NEW j \in 1..Len(s), Append(s, l)[j] = e, e = l PROVE FALSE
  BY <1>1, <1>4 DEF Range
<1> QED BY <1>1, <1>2, <1>3, <1>4 DEF Once

\* Nothing is in the empty sequence.
LEMMA RangeOfEmpty == Range(<<>>) = {} /\ \A e : Once(e, <<>>)
BY DEF Range, Once

\* A sequence that lost its head, or everything, has nothing new and nothing
\* twice.
LEMMA ShorterSequence ==
  ASSUME NEW S, NEW s \in Seq(S), NEW r, r = s \/ r = <<>> \/ (s # <<>> /\ r = Tail(s))
  PROVE  Range(r) \subseteq Range(s) /\ \A e : Once(e, s) => Once(e, r)
<1>1. CASE r = s
  BY <1>1
<1>2. CASE r = <<>>
  BY <1>2, RangeOfEmpty
<1>3. CASE s # <<>> /\ r = Tail(s)
  BY <1>3, RangeOfTail, OnceInTail
<1> QED BY <1>1, <1>2, <1>3

(***************************************************************************)
(* How often an element is there                                           *)
(***************************************************************************)
IndicesOf(e, s) == {k \in DOMAIN s : s[k] = e}
Count(e, s) == Cardinality(IndicesOf(e, s))

\* How often an element occurs is a number.
LEMMA CountIsNat ==
  ASSUME NEW S, NEW s \in Seq(S), NEW e
  PROVE  /\ IsFiniteSet(IndicesOf(e, s))
         /\ Count(e, s) \in Nat
         /\ e \notin Range(s) => Count(e, s) = 0
<1>1. Len(s) \in Nat /\ DOMAIN s = 1..Len(s)
  OBVIOUS
<1>2. IndicesOf(e, s) \in SUBSET (1..Len(s))
  BY <1>1 DEF IndicesOf
<1>3. IsFiniteSet(1..Len(s))
  BY <1>1, FS_Interval
<1>4. IsFiniteSet(IndicesOf(e, s))
  BY <1>2, <1>3, FS_Subset
<1>5. Cardinality(IndicesOf(e, s)) \in Nat
  BY <1>4, FS_CardinalityType
<1>6. ASSUME e \notin Range(s) PROVE Count(e, s) = 0
  <2>1. IndicesOf(e, s) = {}
    BY <1>6 DEF IndicesOf, Range
  <2> QED BY <2>1, FS_EmptySet DEF Count
<1> QED BY <1>4, <1>5, <1>6 DEF Count

\* An element that is put behind the others is there once more, the others are
\* there as often as before.
LEMMA CountInAppend ==
  ASSUME NEW S, NEW s \in Seq(S), NEW l \in S, NEW e
  PROVE  Count(e, Append(s, l)) = IF e = l THEN Count(e, s) + 1 ELSE Count(e, s)
<1>1. /\ Len(s) \in Nat
      /\ DOMAIN s = 1..Len(s) /\ DOMAIN Append(s, l) = 1..(Len(s) + 1)
      /\ \A i \in 1..Len(s) : Append(s, l)[i] = s[i]
      /\ Append(s, l)[Len(s) + 1] = l
  BY AppendProperties
<1>2. 1..(Len(s) + 1) = (1..Len(s)) \cup {Len(s) + 1} /\ Len(s) + 1 \notin 1..Len(s)
  BY <1>1
<1>3. IsFiniteSet(IndicesOf(e, s)) /\ Len(s) + 1 \notin IndicesOf(e, s)
  BY <1>1, <1>2, CountIsNat DEF IndicesOf
<1>4. CASE e = l
  <2>1. IndicesOf(e, Append(s, l)) = IndicesOf(e, s) \cup {Len(s) + 1}
    BY <1>1, <1>2, <1>4 DEF IndicesOf
  <2> QED BY <1>3, <1>4, <2>1, FS_AddElement DEF Count
<1>5. CASE e # l
  <2>1. IndicesOf(e, Append(s, l)) = IndicesOf(e, s)
    BY <1>1, <1>2, <1>5 DEF IndicesOf
  <2> QED BY <1>5, <2>1 DEF Count
<1> QED BY <1>4, <1>5

\* The head is there once less when it is taken.
LEMMA CountInTail ==
  ASSUME NEW S, NEW s \in Seq(S), s # <<>>, NEW e
  PROVE  Count(e, Tail(s)) = IF e = Head(s) THEN Count(e, s) - 1 ELSE Count(e, s)
<1>1. /\ Tail(s) \in Seq(S)
      /\ Len(s) \in Nat \ {0} /\ Len(Tail(s)) = Len(s) - 1
      /\ \A i \in 1..Len(Tail(s)) : Tail(s)[i] = s[i + 1]
      /\ Head(s) = s[1]
  OBVIOUS
<1>2. DOMAIN s = 1..Len(s) /\ DOMAIN Tail(s) = 1..Len(Tail(s))
  BY <1>1
<1> DEFINE P == IndicesOf(e, s) \ {1}
           Q == IndicesOf(e, Tail(s))
           F == [k \in P |-> k - 1]
<1>3. \A k \in P : k \in 2..Len(s) /\ s[k] = e
  BY <1>1, <1>2 DEF IndicesOf
<1>4. \A j \in Q : j \in 1..Len(Tail(s)) /\ Tail(s)[j] = e
  BY <1>2 DEF IndicesOf
<1>5. F \in [P -> Q]
  <2> SUFFICES ASSUME NEW k \in P PROVE k - 1 \in Q
    OBVIOUS
  <2>1. k - 1 \in 1..Len(Tail(s)) /\ Tail(s)[k - 1] = s[k - 1 + 1] /\ k - 1 + 1 = k
    BY <1>1, <1>3
  <2> QED BY <1>2, <1>3, <2>1 DEF IndicesOf
<1>6. \A a, b \in P : F[a] = F[b] => a = b
  BY <1>3
<1>7. ASSUME NEW j \in Q PROVE \E k \in P : F[k] = j
  <2>1. j + 1 \in 1..Len(s) /\ s[j + 1] = e /\ j + 1 # 1 /\ (j + 1) - 1 = j
    BY <1>1, <1>4
  <2>2. j + 1 \in P
    BY <1>2, <2>1 DEF IndicesOf
  <2> QED BY <2>1, <2>2
<1> HIDE DEF F
<1>8. F \in Bijection(P, Q)
  BY <1>5, <1>6, <1>7, Fun_IsBij
<1>9. ExistsBijection(P, Q)
  BY <1>8, Fun_ExistsBij
<1>10. IsFiniteSet(IndicesOf(e, s))
  BY CountIsNat
<1>11. /\ IsFiniteSet(P)
       /\ Cardinality(P) = IF 1 \in IndicesOf(e, s) THEN Count(e, s) - 1 ELSE Count(e, s)
  BY <1>10, FS_RemoveElement DEF Count
<1>12. Count(e, Tail(s)) = Cardinality(P)
  BY <1>9, <1>11, FS_Bijection DEF Count
<1>13. 1 \in IndicesOf(e, s) <=> e = Head(s)
  BY <1>1, <1>2 DEF IndicesOf
<1> QED BY <1>11, <1>12, <1>13

(***************************************************************************)
(* In which order                                                          *)
(***************************************************************************)
\* No e comes after a d.
NoneAfter(d, e, s) == \A j, k \in DOMAIN s : j < k /\ s[j] = d => s[k] # e

\* Nothing follows an element that is appended,
LEMMA NoneAfterInAppend ==
  ASSUME NEW S, NEW s \in Seq(S), NEW l \in S, NEW d, NEW e, NoneAfter(d, e, s),
         l = e => d \notin Range(s)
  PROVE  NoneAfter(d, e, Append(s, l))
<1>1. /\ Len(s) \in Nat
      /\ DOMAIN s = 1..Len(s) /\ DOMAIN Append(s, l) = 1..(Len(s) + 1)
      /\ \A i \in 1..Len(s) : Append(s, l)[i] = s[i]
      /\ Append(s, l)[Len(s) + 1] = l
  BY AppendProperties
<1> SUFFICES ASSUME NEW j \in 1..(Len(s) + 1), NEW k \in 1..(Len(s) + 1), j < k,
                    Append(s, l)[j] = d, Append(s, l)[k] = e
             PROVE  FALSE
  BY <1>1 DEF NoneAfter
<1>2. j \in 1..Len(s) /\ s[j] = d /\ d \in Range(s)
  <2>1. j \in 1..Len(s)
    BY <1>1
  <2> QED BY <1>1, <2>1 DEF Range
<1>3. CASE k = Len(s) + 1
  BY <1>1, <1>2, <1>3
<1>4. CASE k \in 1..Len(s)
  BY <1>1, <1>2, <1>4 DEF NoneAfter
<1> QED BY <1>1, <1>3, <1>4

\* and nothing more follows when the first element is gone.
LEMMA NoneAfterInTail ==
  ASSUME NEW S, NEW s \in Seq(S), s # <<>>, NEW d, NEW e, NoneAfter(d, e, s)
  PROVE  /\ NoneAfter(d, e, Tail(s))
         /\ d = Head(s) => e \notin Range(Tail(s))
<1>1. /\ Tail(s) \in Seq(S)
      /\ Len(s) \in Nat \ {0} /\ Len(Tail(s)) = Len(s) - 1
      /\ \A i \in 1..Len(Tail(s)) : Tail(s)[i] = s[i + 1]
      /\ Head(s) = s[1]
  OBVIOUS
<1>2. DOMAIN s = 1..Len(s) /\ DOMAIN Tail(s) = 1..Len(Tail(s))
  BY <1>1
<1>3. ASSUME NEW i \in 1..Len(Tail(s)) PROVE i + 1 \in 1..Len(s) /\ 1 < i + 1 /\ 1 \in 1..Len(s)
  BY <1>1
<1>4. NoneAfter(d, e, Tail(s))
  <2> SUFFICES ASSUME NEW j \in 1..Len(Tail(s)), NEW k \in 1..Len(Tail(s)), j < k,
                      Tail(s)[j] = d, Tail(s)[k] = e
               PROVE  FALSE
    BY <1>2 DEF NoneAfter
  <2>1. s[j + 1] = d /\ s[k + 1] = e /\ j + 1 < k + 1
    BY <1>1
  <2> QED BY <1>2, <1>3, <2>1 DEF NoneAfter
<1>5. ASSUME d = Head(s), e \in Range(Tail(s)) PROVE FALSE
  <2>1. PICK i \in 1..Len(Tail(s)) : e = Tail(s)[i]
    BY <1>2, <1>5 DEF Range
  <2>2. s[1] = d /\ s[i + 1] = e
    BY <1>1, <1>5, <2>1
  <2> QED BY <1>2, <1>3, <2>2 DEF NoneAfter
<1> QED BY <1>4, <1>5

\* In an empty sequence nothing occurs.
LEMMA EmptyCountsNothing == \A d, e : Count(e, <<>>) = 0 /\ NoneAfter(d, e, <<>>)
<1> TAKE d, e
<1>1. IndicesOf(e, <<>>) = {}
  BY DEF IndicesOf
<1> QED BY <1>1, FS_EmptySet DEF Count, NoneAfter
====
