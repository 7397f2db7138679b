----------------------------- MODULE SequenceLemmas -----------------------------
(* Lemmas on the sequences of requests under way that the frontend modules keep: *)
(* what RemoveAt, Append, \o and a map over the indices return.        *)
EXTENDS Integers, Sequences, SequencesExt, Arrays, SequenceTheorems, FiniteSetTheorems, TLAPS

\* Without its element k a sequence is what was before k and, one place further to
\* the front, what was behind it.
LEMMA Removed ==
    ASSUME NEW S, NEW s \in Seq(S), NEW k \in DOMAIN s
    PROVE  /\ RemoveAt(s, k) \in Seq(S)
           /\ Len(RemoveAt(s, k)) = Len(s) - 1
           /\ DOMAIN RemoveAt(s, k) = 1 .. Len(s) - 1
           /\ \A j \in 1 .. Len(s) - 1 :
                 RemoveAt(s, k)[j] = IF j < k THEN s[j] ELSE s[j + 1]
  <1>1. k \in 1 .. Len(s) /\ Len(s) \in Nat
    BY LenProperties
  <1> DEFINE left == SubSeq(s, 1, k - 1)
             right == SubSeq(s, k + 1, Len(s))
  <1>2. /\ left \in Seq(S) /\ Len(left) = k - 1
        /\ \A j \in 1 .. (k - 1) : left[j] = s[j]
    BY <1>1
  <1>3. /\ right \in Seq(S) /\ Len(right) = Len(s) - k
        /\ \A j \in 1 .. (Len(s) - k) : right[j] = s[j + k]
    BY <1>1
  <1>4. RemoveAt(s, k) = left \o right
    BY DEF RemoveAt
  <1> HIDE DEF left, right
  <1>5. /\ left \o right \in Seq(S)
        /\ Len(left \o right) = Len(s) - 1
    BY <1>1, <1>2, <1>3
  <1>6. ASSUME NEW j \in 1 .. Len(s) - 1
        PROVE  (left \o right)[j] = IF j < k THEN s[j] ELSE s[j + 1]
    <2>1. CASE j < k
      BY <1>1, <1>2, <1>3, <2>1
    <2>2. CASE ~(j < k)
      <3>1. (left \o right)[j] = right[j - (k - 1)]
        BY <1>1, <1>2, <1>3, <2>2
      <3>2. j - (k - 1) \in 1 .. (Len(s) - k)
        BY <1>1, <2>2
      <3>3. right[j - (k - 1)] = s[(j - (k - 1)) + k]
        BY <1>3, <3>2
      <3>4. (j - (k - 1)) + k = j + 1
        BY <1>1
      <3> QED
        BY <2>2, <3>1, <3>3, <3>4
    <2> QED
      BY <2>1, <2>2
  <1> QED
    BY <1>4, <1>5, <1>6, LenProperties

\* The elements that are left are those that were at another index.
LEMMA RemovedElements ==
    ASSUME NEW S, NEW s \in Seq(S), NEW k \in DOMAIN s
    PROVE  /\ \A j \in DOMAIN RemoveAt(s, k) :
                 \E i \in DOMAIN s \ {k} : RemoveAt(s, k)[j] = s[i]
           /\ \A i \in DOMAIN s \ {k} :
                 \E j \in DOMAIN RemoveAt(s, k) : RemoveAt(s, k)[j] = s[i]
  <1>1. k \in 1 .. Len(s) /\ Len(s) \in Nat /\ DOMAIN s = 1 .. Len(s)
    BY LenProperties
  <1> DEFINE left == RemoveAt(s, k)
  <1>2. /\ DOMAIN left = 1 .. Len(s) - 1
        /\ \A j \in 1 .. Len(s) - 1 : left[j] = IF j < k THEN s[j] ELSE s[j + 1]
    BY Removed
  <1> HIDE DEF left
  <1>3. ASSUME NEW j \in DOMAIN left
        PROVE  \E i \in DOMAIN s \ {k} : left[j] = s[i]
    <2>1. CASE j < k
      <3>1. left[j] = s[j] /\ j \in DOMAIN s \ {k}
        BY <1>1, <1>2, <2>1
      <3> QED
        BY <3>1
    <2>2. CASE ~(j < k)
      <3>1. left[j] = s[j + 1] /\ j + 1 \in DOMAIN s \ {k}
        BY <1>1, <1>2, <2>2
      <3> QED
        BY <3>1
    <2> QED
      BY <2>1, <2>2
  <1>4. ASSUME NEW i \in DOMAIN s \ {k}
        PROVE  \E j \in DOMAIN left : left[j] = s[i]
    <2>1. CASE i < k
      <3>1. i \in DOMAIN left /\ left[i] = s[i]
        BY <1>1, <1>2, <2>1
      <3> QED
        BY <3>1
    <2>2. CASE ~(i < k)
      <3>1. i - 1 \in 1 .. Len(s) - 1 /\ ~(i - 1 < k) /\ (i - 1) + 1 = i
        BY <1>1, <2>2
      <3>2. left[i - 1] = s[i]
        BY <1>2, <3>1
      <3> QED
        BY <1>2, <3>1, <3>2
    <2> QED
      BY <2>1, <2>2
  <1> QED
    BY <1>3, <1>4 DEF left

\* Append keeps what was there and adds one element.
LEMMA Appended ==
    ASSUME NEW S, NEW s \in Seq(S), NEW e \in S
    PROVE  /\ Append(s, e) \in Seq(S)
           /\ Len(Append(s, e)) = Len(s) + 1
           /\ DOMAIN Append(s, e) = 1 .. Len(s) + 1
           /\ DOMAIN s = 1 .. Len(s) /\ Len(s) \in Nat
           /\ \A j \in DOMAIN s : j \in DOMAIN Append(s, e) /\ Append(s, e)[j] = s[j]
           /\ Append(s, e)[Len(s) + 1] = e
           /\ \A j \in DOMAIN Append(s, e) : Append(s, e)[j] = e \/ (j \in DOMAIN s /\ Append(s, e)[j] = s[j])
  <1>1. Len(s) \in Nat /\ DOMAIN s = 1 .. Len(s)
    BY LenProperties
  <1>2. /\ Append(s, e) \in Seq(S)
        /\ Len(Append(s, e)) = Len(s) + 1
        /\ \A j \in 1 .. Len(s) : Append(s, e)[j] = s[j]
        /\ Append(s, e)[Len(s) + 1] = e
    BY AppendProperties
  <1> DEFINE longer == Append(s, e)
  <1>3. DOMAIN longer = 1 .. Len(s) + 1
    BY <1>2, LenProperties
  <1> HIDE DEF longer
  <1>4. /\ longer \in Seq(S) /\ Len(longer) = Len(s) + 1
        /\ \A j \in 1 .. Len(s) : longer[j] = s[j]
        /\ longer[Len(s) + 1] = e
    BY <1>2 DEF longer
  <1>5. \A j \in DOMAIN s : j \in DOMAIN longer /\ longer[j] = s[j]
    BY <1>1, <1>3, <1>4
  <1>6. \A j \in DOMAIN longer : longer[j] = e \/ (j \in DOMAIN s /\ longer[j] = s[j])
    BY <1>1, <1>3, <1>4
  <1> QED
    BY <1>1, <1>3, <1>4, <1>5, <1>6 DEF longer

\* A concatenation holds the elements of both sequences and no other.
LEMMA Joined ==
    ASSUME NEW S, NEW s \in Seq(S), NEW t \in Seq(S)
    PROVE  /\ s \o t \in Seq(S) /\ Len(s \o t) = Len(s) + Len(t)
           /\ \A j \in DOMAIN s : j \in DOMAIN (s \o t) /\ (s \o t)[j] = s[j]
           /\ \A j \in DOMAIN t : \E i \in DOMAIN (s \o t) : (s \o t)[i] = t[j]
           /\ \A i \in DOMAIN (s \o t) :
                 \/ i \in DOMAIN s /\ (s \o t)[i] = s[i]
                 \/ \E j \in DOMAIN t : (s \o t)[i] = t[j]
  <1>1. /\ Len(s) \in Nat /\ DOMAIN s = 1 .. Len(s)
        /\ Len(t) \in Nat /\ DOMAIN t = 1 .. Len(t)
    BY LenProperties
  <1> DEFINE u == s \o t
  <1>2. /\ u \in Seq(S) /\ Len(u) = Len(s) + Len(t)
        /\ \A i \in 1 .. Len(s) + Len(t) : u[i] = IF i <= Len(s) THEN s[i] ELSE t[i - Len(s)]
    BY ConcatProperties
  <1>3. DOMAIN u = 1 .. Len(s) + Len(t)
    BY <1>2, LenProperties
  <1> HIDE DEF u
  <1>4. ASSUME NEW j \in DOMAIN t
        PROVE  \E i \in DOMAIN u : u[i] = t[j]
    <2>1. Len(s) + j \in DOMAIN u /\ ~(Len(s) + j <= Len(s)) /\ (Len(s) + j) - Len(s) = j
      BY <1>1, <1>3
    <2>2. u[Len(s) + j] = t[j]
      BY <1>2, <1>3, <2>1
    <2> QED
      BY <2>1, <2>2
  <1>5. ASSUME NEW i \in DOMAIN u
        PROVE  (i \in DOMAIN s /\ u[i] = s[i]) \/ \E j \in DOMAIN t : u[i] = t[j]
    <2>1. CASE i <= Len(s)
      BY <1>1, <1>2, <1>3, <2>1
    <2>2. CASE ~(i <= Len(s))
      <3>1. i - Len(s) \in DOMAIN t
        BY <1>1, <1>3, <2>2
      <3>2. u[i] = t[i - Len(s)]
        BY <1>2, <1>3, <2>2
      <3> QED
        BY <3>1, <3>2
    <2> QED
      BY <2>1, <2>2
  <1>6. \A j \in DOMAIN s : j \in DOMAIN u /\ u[j] = s[j]
    BY <1>1, <1>2, <1>3
  <1> QED
    BY <1>2, <1>4, <1>5, <1>6 DEF u

\* A sequence of the same length, made index by index.
LEMMA Mapped ==
    ASSUME NEW S, NEW T, NEW s \in Seq(S), NEW f \in [DOMAIN s -> T]
    PROVE  f \in Seq(T) /\ DOMAIN f = DOMAIN s
  <1>1. Len(s) \in Nat /\ DOMAIN s = 1 .. Len(s)
    BY LenProperties
  <1>2. f \in [1 .. Len(s) -> T]
    BY <1>1
  <1> QED
    BY <1>1, <1>2, SeqDef

\* An element that is replaced leaves the others where they are.
LEMMA ReplacedElement ==
    ASSUME NEW S, NEW s \in Seq(S), NEW k \in DOMAIN s, NEW e \in S
    PROVE  /\ [s EXCEPT ![k] = e] \in Seq(S)
           /\ DOMAIN [s EXCEPT ![k] = e] = DOMAIN s
           /\ Len([s EXCEPT ![k] = e]) = Len(s)
           /\ \A j \in DOMAIN s : [s EXCEPT ![k] = e][j] = IF j = k THEN e ELSE s[j]
  <1>1. k \in 1 .. Len(s) /\ Len(s) \in Nat /\ DOMAIN s = 1 .. Len(s)
    BY LenProperties
  <1> QED
    BY <1>1, ExceptSeq, LenProperties

\* A set of requests as a sequence holds each of them and no other.
LEMMA SetListed ==
    ASSUME NEW S, IsFiniteSet(S)
    PROVE  /\ SetToSeq(S) \in Seq(S) /\ Len(SetToSeq(S)) = Cardinality(S)
           /\ \A e \in S : \E i \in DOMAIN SetToSeq(S) : SetToSeq(S)[i] = e
           /\ \A i, j \in DOMAIN SetToSeq(S) : SetToSeq(S)[i] = SetToSeq(S)[j] => i = j
  <1>1. Cardinality(S) \in Nat /\ ExistsBijection(1 .. Cardinality(S), S)
    BY FS_CardinalityType
  <1>2. PICK f \in [1 .. Cardinality(S) -> S] : f \in Bijection(1 .. Cardinality(S), S)
    BY <1>1 DEF ExistsBijection, Bijection, Injection
  <1>3. IsInjective(f)
    BY <1>2 DEF Bijection, Injection, IsInjective
  <1> DEFINE listed == SetToSeq(S)
  <1>4. listed \in [1 .. Cardinality(S) -> S] /\ IsInjective(listed)
    BY <1>3 DEF SetToSeq
  <1> HIDE DEF listed
  <1>5. listed \in Seq(S)
    BY <1>1, <1>4, SeqDef
  <1>6. IsFiniteSet(1 .. Cardinality(S)) /\ Cardinality(1 .. Cardinality(S)) = Cardinality(S)
    BY <1>1, FS_Interval
  <1>7. listed \in Injection(1 .. Cardinality(S), S)
    BY <1>4 DEF Injection, IsInjective
  <1>8. listed \in Surjection(1 .. Cardinality(S), S)
    BY <1>6, <1>7, FS_Injection
  <1>9. DOMAIN listed = 1 .. Cardinality(S) /\ Len(listed) = Cardinality(S)
    BY <1>1, <1>4, <1>5, LenProperties
  <1>10. \A i, j \in DOMAIN listed : listed[i] = listed[j] => i = j
    BY <1>4 DEF IsInjective
  <1> QED
    BY <1>5, <1>8, <1>9, <1>10 DEF Surjection, listed

\* Each element that is kept has a place of its own, and each place has an element.
LEMMA Placed ==
    ASSUME NEW n \in Nat, NEW kept \in SUBSET (1 .. n)
    PROVE  /\ IsFiniteSet(kept) /\ Cardinality(kept) \in Nat
           /\ \A i \in 1 .. Cardinality(kept) : \E k \in kept : PlaceOf(k, kept) = i
           /\ \A k \in kept : PlaceOf(k, kept) \in 1 .. Cardinality(kept)
           /\ \A k, l \in kept : PlaceOf(k, kept) = PlaceOf(l, kept) => k = l
  <1>1. IsFiniteSet(kept) /\ Cardinality(kept) \in Nat
    <2>1. 1 \in Int /\ n \in Int
      OBVIOUS
    <2>2. IsFiniteSet(1 .. n)
      BY <2>1, FS_Interval
    <2>3. IsFiniteSet(kept)
      BY <2>2, FS_Subset
    <2> QED
      BY <2>3, FS_CardinalityType
  <1>0. \A k \in kept : k \in Int
    OBVIOUS
  <1> DEFINE before(k) == {j \in kept : j <= k}
             place == [k \in kept |-> PlaceOf(k, kept)]
  <1>2. ASSUME NEW k \in kept
        PROVE  IsFiniteSet(before(k)) /\ PlaceOf(k, kept) \in 1 .. Cardinality(kept)
    <2>1. before(k) \subseteq kept /\ k \in before(k)
      OBVIOUS
    <2>2. IsFiniteSet(before(k)) /\ Cardinality(before(k)) <= Cardinality(kept) /\ Cardinality(before(k)) \in Nat
      BY <1>1, <2>1, FS_Subset, FS_CardinalityType
    <2>3. Cardinality(before(k)) # 0
      BY <2>1, <2>2, FS_EmptySet
    <2> QED
      BY <1>1, <2>2, <2>3 DEF PlaceOf
  <1>3. ASSUME NEW k \in kept, NEW l \in kept, k < l
        PROVE  PlaceOf(k, kept) < PlaceOf(l, kept)
    <2>1. before(k) \subseteq before(l) /\ l \in before(l) /\ l \notin before(k)
      <3>1. k \in Int /\ l \in Int
        BY <1>0
      <3>2. \A j \in kept : j <= k => j <= l
        BY <1>0, <1>3, <3>1
      <3>3. l <= l /\ ~(l <= k)
        BY <1>3, <3>1
      <3> QED
        BY <3>2, <3>3
    <2>2. before(k) # before(l)
      BY <2>1
    <2>3. Cardinality(before(k)) <= Cardinality(before(l)) /\ Cardinality(before(k)) # Cardinality(before(l))
      BY <1>2, <2>1, <2>2, FS_Subset
    <2>4. Cardinality(before(k)) \in Nat /\ Cardinality(before(l)) \in Nat
      BY <1>2, FS_CardinalityType
    <2> QED
      BY <2>3, <2>4 DEF PlaceOf
  <1>4. \A k, l \in kept : PlaceOf(k, kept) = PlaceOf(l, kept) => k = l
    <2> SUFFICES ASSUME NEW k \in kept, NEW l \in kept, PlaceOf(k, kept) = PlaceOf(l, kept)
                 PROVE  k = l
      OBVIOUS
    <2>1. PlaceOf(k, kept) \in 1 .. Cardinality(kept)
      BY <1>2
    <2>2. PlaceOf(k, kept) \in Int
      BY <1>1, <2>1
    <2>3. ~(k < l) /\ ~(l < k)
      BY <1>3, <2>2
    <2> QED
      BY <1>0, <2>3
  <1>5. place \in [kept -> 1 .. Cardinality(kept)]
    BY <1>2
  <1>6. place \in Injection(kept, 1 .. Cardinality(kept))
    BY <1>4, <1>5 DEF Injection, IsInjective
  <1>7. IsFiniteSet(1 .. Cardinality(kept)) /\ Cardinality(1 .. Cardinality(kept)) = Cardinality(kept)
    BY <1>1, FS_Interval
  <1>8. place \in Surjection(kept, 1 .. Cardinality(kept))
    BY <1>6, <1>7, FS_Injection
  <1>9. \A i \in 1 .. Cardinality(kept) : \E k \in kept : PlaceOf(k, kept) = i
    BY <1>8 DEF Surjection
  <1> QED
    BY <1>1, <1>2, <1>4, <1>9

\* Filtering keeps each of the elements at the indices that are kept, once.
LEMMA FilteredElements ==
    ASSUME NEW S, NEW s \in Seq(S), NEW kept \in SUBSET DOMAIN s
    PROVE  /\ Filtered(s, kept) \in Seq(S)
           /\ \A j \in DOMAIN Filtered(s, kept) :
                 \E k \in kept : PlaceOf(k, kept) = j /\ Filtered(s, kept)[j] = s[k]
           /\ \A k \in kept :
                 /\ PlaceOf(k, kept) \in DOMAIN Filtered(s, kept)
                 /\ Filtered(s, kept)[PlaceOf(k, kept)] = s[k]
  <1>1. DOMAIN s = 1 .. Len(s) /\ Len(s) \in Nat /\ kept \in SUBSET (1 .. Len(s))
    BY LenProperties
  <1>2. /\ Cardinality(kept) \in Nat
        /\ \A i \in 1 .. Cardinality(kept) : \E k \in kept : PlaceOf(k, kept) = i
        /\ \A k \in kept : PlaceOf(k, kept) \in 1 .. Cardinality(kept)
        /\ \A k, l \in kept : PlaceOf(k, kept) = PlaceOf(l, kept) => k = l
    BY <1>1, Placed
  <1> DEFINE at(i) == CHOOSE k \in kept : PlaceOf(k, kept) = i
             left == Filtered(s, kept)
  <1>3. \A i \in 1 .. Cardinality(kept) : at(i) \in kept /\ PlaceOf(at(i), kept) = i
    BY <1>2
  <1>4. left = [i \in 1 .. Cardinality(kept) |-> s[at(i)]]
    BY DEF Filtered
  <1> HIDE DEF at, left
  <1>5. left \in [1 .. Cardinality(kept) -> S] /\ \A i \in 1 .. Cardinality(kept) : left[i] = s[at(i)]
    <2>1. \A k \in DOMAIN s : s[k] \in S
      BY ElementOfSeq, LenProperties
    <2> QED
      BY <1>3, <1>4, <2>1
  <1>6. left \in Seq(S) /\ DOMAIN left = 1 .. Cardinality(kept)
    BY <1>2, <1>5, SeqDef
  <1>7. \A k \in kept : at(PlaceOf(k, kept)) = k
    BY <1>2, <1>3
  <1>8. \A k \in kept : left[PlaceOf(k, kept)] = s[k]
    BY <1>2, <1>5, <1>7
  <1> QED
    BY <1>2, <1>3, <1>5, <1>6, <1>8 DEF left

\* What is filtered is no longer than what it was filtered from.
LEMMA FilteredLength ==
    ASSUME NEW S, NEW s \in Seq(S), NEW kept \in SUBSET DOMAIN s
    PROVE  Len(Filtered(s, kept)) \in Nat /\ Len(Filtered(s, kept)) <= Len(s)
  <1>1. DOMAIN s = 1 .. Len(s) /\ Len(s) \in Nat
    BY LenProperties
  <1>2. Cardinality(kept) \in Nat /\ kept \in SUBSET (1 .. Len(s))
    BY <1>1, Placed
  <1>3. IsFiniteSet(1 .. Len(s)) /\ Cardinality(1 .. Len(s)) = Len(s)
    <2>1. 1 \in Int /\ Len(s) \in Int
      BY <1>1
    <2> HIDE <1>1
    <2>2. /\ IsFiniteSet(1 .. Len(s))
          /\ Cardinality(1 .. Len(s)) = IF 1 > Len(s) THEN 0 ELSE Len(s) - 1 + 1
      BY <2>1, FS_Interval
    <2> QED
      BY <1>1, <2>2
  <1>4. Cardinality(kept) <= Len(s)
    BY <1>2, <1>3, FS_Subset
  <1>5. Filtered(s, kept) \in Seq(S) /\ DOMAIN Filtered(s, kept) = 1 .. Cardinality(kept)
    BY FilteredElements DEF Filtered
  <1>6. Len(Filtered(s, kept)) = Cardinality(kept)
    BY <1>2, <1>5, LenProperties
  <1> QED
    BY <1>2, <1>4, <1>6

\* Indices of elements that are left are no more than the indices at which they were.
LEMMA RemovedCount ==
    ASSUME NEW S, NEW s \in Seq(S), NEW k \in DOMAIN s, NEW these \in SUBSET DOMAIN s,
           NEW left \in SUBSET DOMAIN RemoveAt(s, k),
           \A j \in left : IF j < k THEN j \in these ELSE j + 1 \in these
    PROVE  /\ IsFiniteSet(left) /\ Cardinality(left) \in Nat
           /\ IsFiniteSet(these) /\ Cardinality(these) \in Nat
           /\ Cardinality(left) <= Cardinality(these)
           /\ k \in these => Cardinality(left) <= Cardinality(these) - 1
  <1>1. k \in 1 .. Len(s) /\ Len(s) \in Nat /\ DOMAIN s = 1 .. Len(s) /\ DOMAIN RemoveAt(s, k) = 1 .. Len(s) - 1
    BY Removed, LenProperties
  <1>2. IsFiniteSet(1 .. Len(s))
    BY <1>1, FS_Interval
  <1>3. IsFiniteSet(these) /\ IsFiniteSet(these \ {k}) /\ Cardinality(these) \in Nat /\ Cardinality(these \ {k}) \in Nat
    BY <1>1, <1>2, FS_Subset, FS_CardinalityType
  <1> DEFINE at == [j \in left |-> IF j < k THEN j ELSE j + 1]
  <1>4. \A j \in left : j \in Int
    BY <1>1
  <1>5. at \in [left -> these \ {k}]
    <2>1. ASSUME NEW j \in left
          PROVE  at[j] \in these \ {k}
      BY <1>1, <1>4
    <2> QED
      BY <2>1
  <1>6. at \in Injection(left, these \ {k})
    <2>1. ASSUME NEW i \in left, NEW j \in left, at[i] = at[j]
          PROVE  i = j
      <3>1. i \in Int /\ j \in Int /\ k \in Int
        BY <1>1, <1>4
      <3> QED
        BY <2>1, <3>1
    <2> QED
      BY <1>5, <2>1 DEF Injection, IsInjective
  <1>7. IsFiniteSet(left) /\ Cardinality(left) <= Cardinality(these \ {k})
    BY <1>3, <1>6, FS_Injection
  <1>8. Cardinality(these \ {k}) = IF k \in these THEN Cardinality(these) - 1 ELSE Cardinality(these)
    BY <1>3, FS_RemoveElement
  <1>9. Cardinality(left) \in Nat
    BY <1>7, FS_CardinalityType
  <1> QED
    BY <1>3, <1>7, <1>8, <1>9

\* Behind a sequence come as many indices more as the other one is long.
LEMMA JoinedCount ==
    ASSUME NEW S, NEW s \in Seq(S), NEW t \in Seq(S), NEW these \in SUBSET DOMAIN s,
           NEW both \in SUBSET DOMAIN (s \o t),
           \A i \in both : i \in DOMAIN s => i \in these
    PROVE  /\ IsFiniteSet(both) /\ Cardinality(both) \in Nat
           /\ IsFiniteSet(these) /\ Cardinality(these) \in Nat
           /\ Cardinality(both) <= Cardinality(these) + Len(t)
  <1>1. /\ Len(s) \in Nat /\ DOMAIN s = 1 .. Len(s)
        /\ Len(t) \in Nat
    BY LenProperties
  <1> DEFINE u == s \o t
  <1>2. u \in Seq(S) /\ Len(u) = Len(s) + Len(t)
    BY ConcatProperties
  <1>3. DOMAIN u = 1 .. Len(s) + Len(t)
    BY <1>2, LenProperties
  <1> DEFINE behind == Len(s) + 1 .. Len(s) + Len(t)
  <1>4. IsFiniteSet(behind) /\ Cardinality(behind) = Len(t)
    <2>1. Len(s) + 1 \in Int /\ Len(s) + Len(t) \in Int
      BY <1>1
    <2> DEFINE first == Len(s) + 1
               last == Len(s) + Len(t)
    <2>2. first \in Int /\ last \in Int /\ behind = first .. last
      BY <2>1
    <2> HIDE DEF first, last, behind
    <2>3. IsFiniteSet(behind) /\ Cardinality(behind) = IF first > last THEN 0 ELSE last - first + 1
      BY <2>2, FS_Interval
    <2> QED
      BY <1>1, <2>3 DEF first, last
  <1>5. both \subseteq these \cup behind
    BY <1>1, <1>3
  <1>6. IsFiniteSet(these) /\ Cardinality(these) \in Nat
    <2>1. IsFiniteSet(1 .. Len(s))
      BY <1>1, FS_Interval
    <2> QED
      BY <1>1, <2>1, FS_Subset, FS_CardinalityType
  <1> HIDE DEF behind
  <1>7. /\ IsFiniteSet(these \cup behind)
        /\ Cardinality(these \cup behind) = Cardinality(these) + Cardinality(behind) - Cardinality(these \cap behind)
    BY <1>4, <1>6, FS_Union
  <1>8. Cardinality(these \cap behind) \in Nat
    BY <1>6, FS_Intersection, FS_CardinalityType
  <1>9. Cardinality(these \cup behind) <= Cardinality(these) + Len(t)
    BY <1>1, <1>4, <1>6, <1>7, <1>8
  <1>10. IsFiniteSet(both) /\ Cardinality(both) <= Cardinality(these \cup behind)
    BY <1>5, <1>7, FS_Subset
  <1>11. Cardinality(both) \in Nat /\ Cardinality(these \cup behind) \in Nat
    BY <1>7, <1>10, FS_CardinalityType
  <1> QED
    BY <1>1, <1>6, <1>9, <1>10, <1>11

\* Two elements that are left were two elements before.
LEMMA RemovedApart ==
    ASSUME NEW S, NEW s \in Seq(S), NEW k \in DOMAIN s,
           NEW i \in DOMAIN RemoveAt(s, k), NEW j \in DOMAIN RemoveAt(s, k), i # j
    PROVE  \E a, b \in DOMAIN s \ {k} : a # b /\ RemoveAt(s, k)[i] = s[a] /\ RemoveAt(s, k)[j] = s[b]
  <1> DEFINE left == RemoveAt(s, k)
             a == IF i < k THEN i ELSE i + 1
             b == IF j < k THEN j ELSE j + 1
  <1>1. k \in 1 .. Len(s) /\ Len(s) \in Nat /\ DOMAIN s = 1 .. Len(s)
    BY LenProperties
  <1>2. /\ DOMAIN left = 1 .. Len(s) - 1
        /\ \A n \in 1 .. Len(s) - 1 : left[n] = IF n < k THEN s[n] ELSE s[n + 1]
    BY Removed
  <1>3. i \in 1 .. Len(s) - 1 /\ j \in 1 .. Len(s) - 1
    BY <1>2
  <1> HIDE DEF left
  <1>4. a \in DOMAIN s \ {k} /\ b \in DOMAIN s \ {k} /\ a # b
    BY <1>1, <1>3
  <1>5. left[i] = s[a] /\ left[j] = s[b]
    BY <1>1, <1>2, <1>3
  <1> HIDE DEF a, b
  <1> QED
    BY <1>4, <1>5 DEF left

\* One element behind a sequence.
LEMMA JoinedOne ==
    ASSUME NEW S, NEW s \in Seq(S), NEW e \in S
    PROVE  s \o <<e>> = Append(s, e)
  OBVIOUS

=============================================================================
