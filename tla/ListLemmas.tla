----------------------------- MODULE ListLemmas -----------------------------
(***************************************************************************)
(* What the proofs about the list-walking threads need to know of the      *)
(* operators that model src/lib/list.c and iptables: deletion of an        *)
(* element, prefixes, the first of several positions; and of the remainder *)
(* that places a number in an array or in a round of a counter.            *)
(***************************************************************************)
EXTENDS Integers, SequencesExt, FiniteSetsExt, TLAPS, WellFoundedInduction,
        SequenceTheorems, FiniteSetTheorems

(* list_delete: the elements before the deleted one keep their positions, those
   after it move up by one. *)
LEMMA RemoveAtProperties ==
  ASSUME NEW S, NEW s \in Seq(S), NEW p \in 1 .. Len(s)
  PROVE  /\ RemoveAt(s, p) \in Seq(S)
         /\ Len(RemoveAt(s, p)) = Len(s) - 1
         /\ \A i \in 1 .. Len(s) - 1 :
              RemoveAt(s, p)[i] = IF i < p THEN s[i] ELSE s[i + 1]
<1> DEFINE a == SubSeq(s, 1, p - 1)
           b == SubSeq(s, p + 1, Len(s))
<1>1. a \in Seq(S) /\ Len(a) = p - 1 /\ \A i \in 1 .. p - 1 : a[i] = s[i]
  OBVIOUS
<1>2. /\ b \in Seq(S) /\ Len(b) = Len(s) - p
      /\ \A i \in 1 .. Len(s) - p : b[i] = s[p + i]
  <2>1. \A i \in p + 1 .. Len(s) : s[i] \in S
    OBVIOUS
  <2>2. QED
    BY <2>1, SubSeqProperties
<1> HIDE DEF a, b
<1>3. /\ a \o b \in Seq(S) /\ Len(a \o b) = Len(s) - 1
      /\ \A i \in 1 .. Len(s) - 1 :
           (a \o b)[i] = IF i < p THEN a[i] ELSE b[i - (p - 1)]
  <2>1. Len(a) + Len(b) = Len(s) - 1
    BY <1>1, <1>2
  <2>2. /\ a \o b \in Seq(S) /\ Len(a \o b) = Len(a) + Len(b)
        /\ \A i \in 1 .. Len(a) + Len(b) :
             (a \o b)[i] = IF i <= Len(a) THEN a[i] ELSE b[i - Len(a)]
    BY <1>1, <1>2, ConcatProperties
  <2>3. QED
    BY <1>1, <2>1, <2>2
<1>4. \A i \in 1 .. Len(s) - 1 : i >= p => b[i - (p - 1)] = s[i + 1]
  <2>1. ASSUME NEW i \in 1 .. Len(s) - 1, i >= p
        PROVE  b[i - (p - 1)] = s[i + 1]
    <3>1. i - (p - 1) \in 1 .. Len(s) - p /\ p + (i - (p - 1)) = i + 1
      BY <2>1
    <3>2. QED
      BY <1>2, <3>1
  <2>2. QED
    BY <2>1
<1>5. RemoveAt(s, p) = a \o b
  BY DEF RemoveAt, a, b
<1>6. QED
  BY <1>1, <1>3, <1>4, <1>5

(* A sequence that agrees with a longer one at all its positions is a prefix. *)
LEMMA PrefixByElements ==
  ASSUME NEW S, NEW s \in Seq(S), NEW t \in Seq(S), Len(s) <= Len(t),
         \A i \in 1 .. Len(s) : s[i] = t[i]
  PROVE  IsPrefix(s, t)
  BY DEF IsPrefix

(* The least of a set of numbers exists, so that Min is defined where a thread
   looks for the first element. *)
LEMMA MinIn ==
  ASSUME NEW S, S \subseteq Nat, S # {}
  PROVE  Min(S) \in S /\ \A y \in S : Min(S) <= y
<1>1. PICK x \in S : \A y \in S : ~(<<y, x>> \in OpToRel(<, Nat))
  BY NatLessThanWellFounded, WFMin, Zenon
<1>2. \A y \in S : x <= y
  <2>1. ASSUME NEW y \in S PROVE ~(y < x)
    <3>1. <<y, x>> \in Nat \X Nat
      OBVIOUS
    <3>2. QED
      BY <1>1, <3>1 DEF OpToRel
  <2>2. QED
    BY <2>1
<1>3. QED
  BY <1>2, Zenon DEF Min

(* A non-empty finite range of numbers contains its maximum, so that Max is
   defined too. *)
LEMMA MaxIn ==
  ASSUME NEW a \in Int, NEW b \in Int, NEW S, S \subseteq a .. b, S # {}
  PROVE  Max(S) \in S /\ \A y \in S : y <= Max(S)
<1> DEFINE T == {b - i : i \in S}
<1>1. T \subseteq Nat /\ T # {}
  <2>1. ASSUME NEW i \in S PROVE b - i \in Nat
    <3>1. i \in Int /\ i <= b
      BY <2>1
    <3>2. QED BY <3>1
  <2>2. T \subseteq Nat
    BY <2>1, Zenon
  <2>3. T # {}
    BY Zenon
  <2>4. QED BY <2>2, <2>3, Zenon
<1>2. IsWellFoundedOn(OpToRel(<, Nat), Nat)
  BY NatLessThanWellFounded
<1>3. PICK t \in T : \A u \in T : ~(<<u, t>> \in OpToRel(<, Nat))
  BY <1>1, <1>2, WFMin, Zenon
<1>4. \A u \in T : ~(u < t)
  BY <1>1, <1>3 DEF OpToRel
<1>5. \E x \in S : \A y \in S : x >= y
  <2>1. PICK x \in S : t = b - x
    BY <1>3
  <2>2. \A y \in S : x >= y
    BY <1>4, <2>1, SMT
  <2>3. QED BY <2>2
<1>6. Max(S) \in S /\ \A y \in S : Max(S) >= y
  BY <1>5, Zenon DEF Max
<1>7. QED
  BY <1>6, SMT

(* The larger of two numbers. *)
LEMMA MaxOfTwo ==
  ASSUME NEW a \in Nat, NEW b \in Nat
  PROVE  Max({a, b}) \in Nat /\ a <= Max({a, b}) /\ b <= Max({a, b})
<1> DEFINE S == {a, b}
<1>1. S \subseteq 0 .. a + b /\ S # {} /\ 0 \in Int /\ a + b \in Int
  OBVIOUS
<1>2. Max(S) \in S /\ \A y \in S : y <= Max(S)
  <2> HIDE DEF S
  <2>1. QED
    BY <1>1, MaxIn
<1>3. QED
  BY <1>2

(* An iterator that is in one of two lists, or just behind it, is within the longer
   one. *)
LEMMA PosRange ==
  ASSUME NEW a \in Nat, NEW b \in Nat, NEW i \in Nat \ {0},
         i <= a + 1 \/ i <= b + 1
  PROVE  i \in 1 .. Max({a, b}) + 1
  BY MaxOfTwo

(* A walk of k steps from the head of a list that has more than k elements ends at
   the element that k others precede. *)
LEMMA Rank ==
  ASSUME NEW S, S \subseteq Nat, IsFiniteSet(S),
         NEW k \in Nat, k < Cardinality(S)
  PROVE  \E e \in S : Cardinality({f \in S : f < e}) = k
<1> DEFINE below(e) == {f \in S : f < e}
           T == {n \in Nat : n < Cardinality(S) /\ \A e \in S : Cardinality(below(e)) # n}
<1>0. Cardinality(S) \in Nat
  BY FS_CardinalityType
<1>1. SUFFICES ASSUME T # {} PROVE FALSE
  OBVIOUS
<1>2. PICK n \in T : \A m \in T : n <= m
  <2>1. T \subseteq Nat
    OBVIOUS
  <2> HIDE DEF T
  <2>2. QED
    BY <1>1, <2>1, MinIn
<1>3. CASE n = 0
  <2>1. S # {}
    BY <1>0, <1>2, <1>3, FS_EmptySet
  <2>2. PICK e \in S : \A y \in S : e <= y
    BY <2>1, MinIn
  <2>3. below(e) = {}
    <3>1. ASSUME NEW f \in S PROVE ~(f < e)
      <4>1. e \in Nat /\ f \in Nat /\ e <= f
        BY <2>2
      <4>2. QED
        BY <4>1
    <3>2. QED
      BY <3>1
  <2>4. QED
    BY <1>2, <1>3, <2>3, FS_EmptySet
<1>4. CASE n # 0
  <2>1. n - 1 \in Nat /\ n - 1 < n /\ n - 1 < Cardinality(S)
    BY <1>0, <1>2, <1>4
  <2>2. n - 1 \notin T
    BY <1>2, <2>1
  <2>3. PICK e \in S : Cardinality(below(e)) = n - 1
    BY <2>1, <2>2
  <2> DEFINE U == below(e) \union {e}
  <2>4. IsFiniteSet(below(e)) /\ e \notin below(e)
    BY FS_Subset
  <2>5. Cardinality(U) = n
    <3> HIDE DEF below
    <3>1. Cardinality(below(e) \union {e}) = Cardinality(below(e)) + 1
      BY <2>4, FS_AddElement
    <3>2. QED
      BY <1>2, <2>3, <3>1
  <2>6. S \ U # {} /\ S \ U \subseteq Nat
    <3>1. U \subseteq S
      OBVIOUS
    <3>2. U # S
      BY <1>2, <2>1, <2>5
    <3>3. QED
      BY <3>1, <3>2
  <2>7. Min(S \ U) \in S \ U /\ \A y \in S \ U : Min(S \ U) <= y
    BY <2>6, MinIn
  <2>8. PICK m \in S \ U : \A y \in S \ U : m <= y
    BY <2>7
  <2>9. m \in Nat /\ e \in Nat /\ m > e
    BY <2>8
  <2>10. below(m) = U
    <3>1. ASSUME NEW f \in S PROVE f < m <=> f \in U
      <4>1. f \in Nat
        OBVIOUS
      <4>2. QED
        BY <2>8, <2>9, <4>1
    <3>2. U \subseteq S
      OBVIOUS
    <3> HIDE DEF U
    <3>3. QED
      BY <3>1, <3>2
  <2>11. QED
    BY <1>2, <2>5, <2>8, <2>10
<1>5. QED
  BY <1>3, <1>4

(* iptables -D: if there is an equal rule, the first one is deleted. *)
LEMMA RemoveFirstIsRemoveAt ==
  ASSUME NEW S, NEW s \in Seq(S), NEW e
  PROVE  \/ /\ \A i \in 1 .. Len(s) : s[i] # e
            /\ RemoveFirst(s, e) = s
         \/ \E p \in 1 .. Len(s) : s[p] = e /\ RemoveFirst(s, e) = RemoveAt(s, p)
<1>1. CASE \A i \in 1 .. Len(s) : s[i] # e
  BY <1>1 DEF RemoveFirst
<1>2. CASE \E i \in 1 .. Len(s) : s[i] = e
  <2> DEFINE I == {i \in 1 .. Len(s) : s[i] = e}
  <2>1. Min(I) \in I
    <3>1. I \subseteq Nat /\ I # {}
      BY <1>2
    <3>2. QED
      BY <3>1, MinIn
  <2>2. RemoveFirst(s, e) = RemoveAt(s, Min(I))
    BY <1>2, <2>1 DEF RemoveFirst, SelectInSeq
  <2>3. QED
    BY <2>1, <2>2
<1>3. QED
  BY <1>1, <1>2

-----------------------------------------------------------------------------
(***************************************************************************)
(* Elements and positions under list_append and list_delete.               *)
(***************************************************************************)
NoRepeats(s) == \A i, j \in DOMAIN s : s[i] = s[j] => i = j

Positions(s, e) == {k \in DOMAIN s : s[k] = e}

(* An element has a position exactly if it is in the list. *)
LEMMA PositionsOfElements ==
  ASSUME NEW s, NEW e
  PROVE  Positions(s, e) # {} <=> e \in ToSet(s)
  BY DEF Positions, ToSet

(* list_append adds the new element and no other, at the end. *)
LEMMA AppendElements ==
  ASSUME NEW S, NEW s \in Seq(S), NEW e \in S
  PROVE  /\ ToSet(Append(s, e)) = ToSet(s) \union {e}
         /\ NoRepeats(s) /\ e \notin ToSet(s) => NoRepeats(Append(s, e))
<1>1. /\ DOMAIN Append(s, e) = DOMAIN s \union {Len(s) + 1}
      /\ Append(s, e)[Len(s) + 1] = e /\ Len(s) + 1 \notin DOMAIN s
      /\ \A i \in DOMAIN s : Append(s, e)[i] = s[i]
  OBVIOUS
<1>2. ToSet(Append(s, e)) = ToSet(s) \union {e}
  BY <1>1 DEF ToSet
<1>3. ASSUME NoRepeats(s), e \notin ToSet(s) PROVE NoRepeats(Append(s, e))
  BY <1>1, <1>3 DEF NoRepeats, ToSet
<1>4. QED
  BY <1>2, <1>3

(* list_delete, from a list without repetitions, takes out that element only. *)
LEMMA RemoveAtElements ==
  ASSUME NEW S, NEW s \in Seq(S), NEW p \in 1 .. Len(s), NoRepeats(s)
  PROVE  /\ ToSet(RemoveAt(s, p)) = ToSet(s) \ {s[p]}
         /\ NoRepeats(RemoveAt(s, p))
<1> DEFINE t == RemoveAt(s, p)
           old(i) == IF i < p THEN i ELSE i + 1
<1>1. /\ t \in Seq(S) /\ Len(t) = Len(s) - 1 /\ Len(s) \in Nat
      /\ \A i \in 1 .. Len(s) - 1 : t[i] = IF i < p THEN s[i] ELSE s[i + 1]
  BY RemoveAtProperties
<1> HIDE DEF t
<1>2. DOMAIN t = 1 .. Len(s) - 1 /\ DOMAIN s = 1 .. Len(s)
  BY <1>1
<1>3. ASSUME NEW i \in DOMAIN t
      PROVE  old(i) \in DOMAIN s /\ old(i) # p /\ t[i] = s[old(i)]
  BY <1>1, <1>2
<1>4. ASSUME NEW j \in DOMAIN s, j # p
      PROVE  \E i \in DOMAIN t : old(i) = j
  <2>1. CASE j < p
    <3>1. j \in DOMAIN t /\ old(j) = j
      BY <1>1, <1>2, <2>1
    <3>2. QED
      BY <3>1
  <2>2. CASE ~(j < p)
    <3>1. j - 1 \in DOMAIN t /\ old(j - 1) = j
      BY <1>1, <1>2, <1>4, <2>2
    <3>2. QED
      BY <3>1
  <2>3. QED
    BY <2>1, <2>2
<1>5. \A i, j \in DOMAIN t : old(i) = old(j) => i = j
  BY <1>1, <1>2
<1> HIDE DEF old
<1>6. p \in DOMAIN s
  BY <1>2
<1>7. ToSet(t) = ToSet(s) \ {s[p]}
  <2>1. ToSet(t) \subseteq ToSet(s) \ {s[p]}
    BY <1>3, <1>6 DEF ToSet, NoRepeats
  <2>2. ToSet(s) \ {s[p]} \subseteq ToSet(t)
    BY <1>3, <1>4 DEF ToSet
  <2>3. QED
    BY <2>1, <2>2
<1>8. NoRepeats(t)
  BY <1>3, <1>5 DEF NoRepeats
<1>9. QED
  BY <1>7, <1>8 DEF t

(* iptables -A: a rule keeps its positions when another is appended. *)
LEMMA AppendPositions ==
  ASSUME NEW S, NEW s \in Seq(S), NEW e \in S, NEW f
  PROVE  Positions(Append(s, e), f)
           = IF e = f THEN Positions(s, f) \union {Len(s) + 1} ELSE Positions(s, f)
<1>1. /\ DOMAIN Append(s, e) = DOMAIN s \union {Len(s) + 1}
      /\ Append(s, e)[Len(s) + 1] = e /\ Len(s) + 1 \notin DOMAIN s
      /\ \A i \in DOMAIN s : Append(s, e)[i] = s[i]
  OBVIOUS
<1>2. QED
  BY <1>1 DEF Positions

(* iptables -D of a rule that is there at most once takes it away, and leaves any
   other rule there as often as it was: not at all, or once. *)
LEMMA RemoveFirstPositions ==
  ASSUME NEW S, NEW s \in Seq(S), NEW e,
         \A k, m \in Positions(s, e) : k = m
  PROVE  /\ RemoveFirst(s, e) \in Seq(S)
         /\ ToSet(RemoveFirst(s, e)) \subseteq ToSet(s)
         /\ Positions(RemoveFirst(s, e), e) = {}
         /\ \A f : f # e =>
              /\ Positions(RemoveFirst(s, e), f) # {} <=> Positions(s, f) # {}
              /\ (\A k, m \in Positions(s, f) : k = m) =>
                   \A k, m \in Positions(RemoveFirst(s, e), f) : k = m
<1>0. DOMAIN s = 1 .. Len(s) /\ Len(s) \in Nat
  OBVIOUS
<1>1. CASE /\ \A i \in 1 .. Len(s) : s[i] # e
           /\ RemoveFirst(s, e) = s
  BY <1>0, <1>1 DEF Positions
<1>2. ASSUME NEW p \in 1 .. Len(s), s[p] = e, RemoveFirst(s, e) = RemoveAt(s, p)
      PROVE  /\ RemoveFirst(s, e) \in Seq(S)
             /\ ToSet(RemoveFirst(s, e)) \subseteq ToSet(s)
             /\ Positions(RemoveFirst(s, e), e) = {}
             /\ \A f : f # e =>
                  /\ Positions(RemoveFirst(s, e), f) # {} <=> Positions(s, f) # {}
                  /\ (\A k, m \in Positions(s, f) : k = m) =>
                       \A k, m \in Positions(RemoveFirst(s, e), f) : k = m
  <2> DEFINE t == RemoveFirst(s, e)
             old(i) == IF i < p THEN i ELSE i + 1
  <2>1. /\ t \in Seq(S) /\ Len(t) = Len(s) - 1
        /\ \A i \in 1 .. Len(s) - 1 : t[i] = IF i < p THEN s[i] ELSE s[i + 1]
    BY <1>2, RemoveAtProperties
  <2> HIDE DEF t
  <2>2. DOMAIN t = 1 .. Len(s) - 1
    BY <2>1
  <2>3. ASSUME NEW i \in DOMAIN t
        PROVE  old(i) \in DOMAIN s /\ old(i) # p /\ t[i] = s[old(i)]
    BY <1>0, <2>1, <2>2
  <2>4. ASSUME NEW j \in DOMAIN s, j # p
        PROVE  \E i \in DOMAIN t : old(i) = j
    <3>1. CASE j < p
      <4>1. j \in DOMAIN t /\ old(j) = j
        BY <1>0, <2>2, <3>1
      <4>2. QED
        BY <4>1
    <3>2. CASE ~(j < p)
      <4>1. j - 1 \in DOMAIN t /\ old(j - 1) = j
        BY <1>0, <2>2, <2>4, <3>2
      <4>2. QED
        BY <4>1
    <3>3. QED
      BY <3>1, <3>2
  <2>5. \A i, j \in DOMAIN t : old(i) = old(j) => i = j
    BY <2>1, <2>2
  <2> HIDE DEF old
  <2>6. p \in Positions(s, e)
    BY <1>0, <1>2 DEF Positions
  <2>7. Positions(t, e) = {}
    BY <2>3, <2>6 DEF Positions
  <2>8. ToSet(t) \subseteq ToSet(s)
    BY <2>3 DEF ToSet
  <2>9. ASSUME NEW f, f # e
        PROVE  /\ Positions(t, f) # {} <=> Positions(s, f) # {}
               /\ (\A k, m \in Positions(s, f) : k = m) =>
                    \A k, m \in Positions(t, f) : k = m
    <3>1. \A k \in Positions(t, f) : old(k) \in Positions(s, f)
      BY <2>3 DEF Positions
    <3>2. \A j \in Positions(s, f) : \E k \in Positions(t, f) : old(k) = j
      BY <1>2, <2>3, <2>4, <2>9 DEF Positions
    <3>3. Positions(t, f) \subseteq DOMAIN t
      BY DEF Positions
    <3>4. QED
      BY <2>5, <3>1, <3>2, <3>3
  <2>10. QED
    BY <2>1, <2>7, <2>8, <2>9 DEF t
<1>3. QED
  BY <1>1, <1>2, RemoveFirstIsRemoveAt

-----------------------------------------------------------------------------
(* Division with remainder: the slot of a number in list_sn, the place of a packet
   in a round of the ISD's counter. *)
LEMMA DivMod ==
  ASSUME NEW m \in Nat \ {0}, NEW a \in Nat
  PROVE  /\ a \div m \in Int /\ a % m \in 0 .. m - 1
         /\ a = m * (a \div m) + (a % m)
<1>1. a \div m \in Int
  BY SMT
<1>2. a % m \in 0 .. m - 1
  BY SMT
<1>3. a = m * (a \div m) + (a % m)
  BY SMT
<1>4. QED
  BY <1>1, <1>2, <1>3

(* Only the remainder of a number can be what is left of it, for any quotient. *)
LEMMA RemainderIs ==
  ASSUME NEW m \in Nat \ {0}, NEW q \in Int, NEW r \in 0 .. m - 1, NEW a \in Nat,
         a = m * q + r
  PROVE  a % m = r
<1>1. PICK p \in Int : p = a \div m
  BY DivMod
<1>2. PICK s \in 0 .. m - 1 : s = a % m
  BY DivMod
<1>3. m * q + r = m * p + s
  BY <1>1, <1>2, DivMod
<1>4. ~(q < p)
  <2>1. ASSUME q < p PROVE m * (q + 1) <= m * p
    BY <2>1, SMT
  <2>2. m * (q + 1) = m * q + m
    BY SMT
  <2>3. QED
    BY <1>3, <2>1, <2>2
<1>5. ~(p < q)
  <2>1. ASSUME p < q PROVE m * (p + 1) <= m * q
    BY <2>1, SMT
  <2>2. m * (p + 1) = m * p + m
    BY SMT
  <2>3. QED
    BY <1>3, <2>1, <2>2
<1>6. q = p
  BY <1>4, <1>5
<1>7. QED
  BY <1>2, <1>3, <1>6

(* The remainder of the next number is the next remainder, and 0 after the last. *)
LEMMA NextRemainder ==
  ASSUME NEW m \in Nat \ {0}, NEW a \in Nat
  PROVE  (a + 1) % m = IF (a % m) + 1 = m THEN 0 ELSE (a % m) + 1
<1>1. PICK b \in Nat : b = a + 1
  OBVIOUS
<1>2. PICK q \in Int, r \in 0 .. m - 1 : q = a \div m /\ r = a % m
  BY DivMod
<1>3. PICK p \in Int, s \in 0 .. m - 1 : p = b \div m /\ s = b % m
  BY DivMod
<1>4. m * q + r + 1 = m * p + s
  <2>1. a = m * q + r
    BY <1>2, DivMod
  <2>2. b = m * p + s
    BY <1>3, DivMod
  <2>3. QED
    BY <1>1, <2>1, <2>2
<1>5. CASE q < p
  <2>1. m * (q + 1) <= m * p
    BY <1>5, SMT
  <2>2. m * (q + 1) = m * q + m
    BY SMT
  <2>3. r + 1 = m /\ s = 0
    BY <1>4, <2>1, <2>2
  <2>4. QED
    BY <1>1, <1>2, <1>3, <2>3
<1>6. CASE p < q
  <2>1. m * (p + 1) <= m * q
    BY <1>6, SMT
  <2>2. m * (p + 1) = m * p + m
    BY SMT
  <2>3. QED
    BY <1>4, <2>1, <2>2
<1>7. CASE p = q
  <2>1. s = r + 1 /\ r + 1 # m
    BY <1>4, <1>7
  <2>2. QED
    BY <1>1, <1>2, <1>3, <2>1
<1>8. QED
  BY <1>5, <1>6, <1>7
============================================================================
