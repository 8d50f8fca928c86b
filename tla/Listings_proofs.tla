-------------------------- MODULE Listings_proofs --------------------------
(***************************************************************************)
(* Proofs about the listings of Operations, for any clients, servers,      *)
(* vendors, zones and workloads: a listing misses and repeats no more than *)
(* what others changed between its requests accounts for.  What a listing  *)
(* is known to have left also gives the variables their types.             *)
(***************************************************************************)
EXTENDS Outcomes_proofs

-----------------------------------------------------------------------------
(* Sets that are bounded *)

\* What is in a bounded set is bounded,
LEMMA NoMore ==
  ASSUME NEW A, IsFiniteSet(A), NEW S, S \subseteq A, NEW n \in Nat, Cardinality(A) <= n
  PROVE  IsFiniteSet(S) /\ Cardinality(S) <= n
<1>1. IsFiniteSet(S) /\ Cardinality(S) <= Cardinality(A)
  BY FS_Subset
<1>2. Cardinality(S) \in Nat /\ Cardinality(A) \in Nat
  BY <1>1, FS_CardinalityType
<1> QED
  BY <1>1, <1>2

\* one element more by one more,
LEMMA OneMore ==
  ASSUME NEW A, IsFiniteSet(A), NEW e, NEW S, S \subseteq A \cup {e},
         NEW n \in Nat, Cardinality(A) <= n
  PROVE  IsFiniteSet(S) /\ Cardinality(S) <= n + 1
<1>1. /\ IsFiniteSet(A \cup {e})
      /\ Cardinality(A \cup {e}) = IF e \in A THEN Cardinality(A) ELSE Cardinality(A) + 1
  BY FS_AddElement
<1>2. Cardinality(A) \in Nat
  BY FS_CardinalityType
<1>3. Cardinality(A \cup {e}) <= n + 1 /\ n + 1 \in Nat
  BY <1>1, <1>2
<1> QED
  BY <1>1, <1>3, NoMore

\* and any set by the bounds of two it lies in.
LEMMA SumOf ==
  ASSUME NEW A, IsFiniteSet(A), NEW B, IsFiniteSet(B), NEW S, S \subseteq A \cup B,
         NEW n \in Nat, Cardinality(A) <= n
  PROVE  IsFiniteSet(S) /\ Cardinality(S) <= n + Cardinality(B)
<1>1. /\ IsFiniteSet(A \cup B)
      /\ Cardinality(A \cup B) = Cardinality(A) + Cardinality(B) - Cardinality(A \cap B)
  BY FS_Union
<1>2. IsFiniteSet(A \cap B)
  BY FS_Intersection
<1>3. Cardinality(A) \in Nat /\ Cardinality(B) \in Nat /\ Cardinality(A \cap B) \in Nat
  BY <1>2, FS_CardinalityType
<1>4. Cardinality(A \cup B) <= n + Cardinality(B) /\ n + Cardinality(B) \in Nat
  BY <1>1, <1>3
<1> QED
  BY <1>1, <1>4, NoMore

\* The values of a function on a finite set are finitely many.
LEMMA FiniteValues ==
  ASSUME NEW S, IsFiniteSet(S), NEW f, DOMAIN f = S
  PROVE  IsFiniteSet(Range(f)) /\ Cardinality(Range(f)) <= Cardinality(S)
<1> DEFINE g == [x \in S |-> f[x]]
<1>1. g \in [S -> Range(f)] /\ \A e \in Range(f) : \E x \in S : g[x] = e
  BY DEF Range
<1>2. g \in Surjection(S, Range(f))
  BY <1>1 DEF Surjection
<1> QED
  BY <1>2, FS_Surjection

-----------------------------------------------------------------------------
(* Sequences that repeat *)

\* What a sequence has at two places.
Twice(q) ==
  {e \in Range(q) : \E i, j \in DOMAIN q : i < j /\ q[i] = e /\ q[j] = e}

\* The zones of a set of records.
ZonesOf(S) == {ZoneOf[r.name] : r \in S}

\* The elements of a sequence are finitely many,
LEMMA FiniteRange ==
  ASSUME NEW R, NEW q \in Seq(R)
  PROVE  IsFiniteSet(Range(q)) /\ Range(q) \subseteq R /\ IsFiniteSet(Twice(q))
<1>1. DOMAIN q = 1..Len(q) /\ Len(q) \in Nat
  OBVIOUS
<1>2. IsFiniteSet(1..Len(q))
  BY <1>1, FS_Interval
<1>3. IsFiniteSet(Range(q))
  BY <1>1, <1>2, FiniteValues
<1>4. Twice(q) \subseteq Range(q)
  BY DEF Twice
<1>5. IsFiniteSet(Twice(q))
  BY <1>3, <1>4, FS_Subset
<1> QED
  BY <1>3, <1>5 DEF Range

\* and so are their zones.
LEMMA FiniteZones ==
  ASSUME NEW S, IsFiniteSet(S)
  PROVE  IsFiniteSet(ZonesOf(S))
<1> DEFINE f == [r \in S |-> ZoneOf[r.name]]
<1>1. IsFiniteSet(Range(f))
  BY FiniteValues
<1>2. Range(f) = ZonesOf(S)
  BY DEF Range, ZonesOf
<1> QED
  BY <1>1, <1>2

\* Of two sequences in a row it has what both have, and what one has twice.
LEMMA TwiceInRow ==
  ASSUME NEW R, NEW p \in Seq(R), NEW q \in Seq(R)
  PROVE  /\ p \o q \in Seq(R) /\ Range(p \o q) = Range(p) \cup Range(q)
         /\ Twice(p \o q) = Twice(p) \cup Twice(q) \cup (Range(p) \cap Range(q))
<1>1. /\ DOMAIN p = 1..Len(p) /\ Len(p) \in Nat /\ DOMAIN q = 1..Len(q) /\ Len(q) \in Nat
      /\ p \o q \in Seq(R) /\ DOMAIN (p \o q) = 1..(Len(p) + Len(q))
  OBVIOUS
<1>2. /\ \A i \in 1..Len(p) : (p \o q)[i] = p[i]
      /\ \A i \in 1..Len(q) : (p \o q)[Len(p) + i] = q[i] /\ Len(p) + i \in DOMAIN (p \o q)
      /\ \A k \in DOMAIN (p \o q) :
           k \in 1..Len(p) \/ (k - Len(p) \in 1..Len(q) /\ k = Len(p) + (k - Len(p)))
  BY <1>1
<1> DEFINE s == p \o q
           m == Len(p)
<1> HIDE DEF s, m
<1>3. /\ DOMAIN p = 1..m /\ DOMAIN q = 1..Len(q) /\ m \in Nat /\ Len(q) \in Nat
      /\ \A i \in 1..m : s[i] = p[i] /\ i \in DOMAIN s
      /\ \A i \in 1..Len(q) : s[m + i] = q[i] /\ m + i \in DOMAIN s
      /\ \A k \in DOMAIN s : k \in 1..m \/ (k - m \in 1..Len(q) /\ k = m + (k - m))
      /\ DOMAIN s = 1..(m + Len(q))
  BY <1>1, <1>2 DEF s, m
<1>4. Range(s) = Range(p) \cup Range(q)
  <2>1. ASSUME NEW e \in Range(s)
        PROVE  e \in Range(p) \cup Range(q)
    <3>1. PICK k \in DOMAIN s : s[k] = e
      BY DEF Range
    <3> QED
      BY <1>3, <3>1 DEF Range
  <2>2. ASSUME NEW e \in Range(p) \cup Range(q)
        PROVE  e \in Range(s)
    BY <1>3 DEF Range
  <2> QED
    BY <2>1, <2>2
<1>5. ASSUME NEW e \in Twice(s)
      PROVE  e \in Twice(p) \cup Twice(q) \cup (Range(p) \cap Range(q))
  <2>1. PICK i, j \in DOMAIN s : i < j /\ s[i] = e /\ s[j] = e
    BY DEF Twice
  <2>2. CASE i \in 1..m /\ j \in 1..m
    BY <1>3, <2>1, <2>2 DEF Twice, Range
  <2>3. CASE i \in 1..m /\ j \notin 1..m
    <3>1. p[i] = e /\ i \in DOMAIN p
      BY <1>3, <2>1, <2>3
    <3>2. q[j - m] = e /\ j - m \in DOMAIN q
      BY <1>3, <2>1, <2>3
    <3> QED
      BY <3>1, <3>2 DEF Range
  <2>4. CASE i \notin 1..m
    <3>1. /\ i - m \in 1..Len(q) /\ j - m \in 1..Len(q) /\ i - m < j - m
          /\ q[i - m] = e /\ q[j - m] = e
      BY <1>3, <2>1, <2>4
    <3> QED
      BY <1>3, <3>1 DEF Twice, Range
  <2> QED
    BY <2>2, <2>3, <2>4
<1>6. ASSUME NEW e \in Twice(p) \cup Twice(q) \cup (Range(p) \cap Range(q))
      PROVE  e \in Twice(s)
  <2>1. CASE e \in Twice(p)
    <3>1. PICK i, j \in DOMAIN p : i < j /\ p[i] = e /\ p[j] = e
      BY <2>1 DEF Twice
    <3> QED
      BY <1>3, <3>1 DEF Twice, Range
  <2>2. CASE e \in Twice(q)
    <3>1. PICK i, j \in DOMAIN q : i < j /\ q[i] = e /\ q[j] = e
      BY <2>2 DEF Twice
    <3>2. m + i < m + j /\ s[m + i] = e /\ s[m + j] = e
          /\ m + i \in DOMAIN s /\ m + j \in DOMAIN s
      BY <1>3, <3>1
    <3> QED
      BY <3>2 DEF Twice, Range
  <2>3. CASE e \in Range(p) \cap Range(q)
    <3>1. PICK i \in DOMAIN p, j \in DOMAIN q : p[i] = e /\ q[j] = e
      BY <2>3 DEF Range
    <3>2. i < m + j /\ s[i] = e /\ s[m + j] = e /\ i \in DOMAIN s /\ m + j \in DOMAIN s
      BY <1>3, <3>1
    <3> QED
      BY <3>2 DEF Twice, Range
  <2> QED
    BY <2>1, <2>2, <2>3
<1> QED
  BY <1>1, <1>4, <1>5, <1>6 DEF s

\* An empty sequence has nothing.
LEMMA NothingTwice ==
  Range(<< >>) = {} /\ Twice(<< >>) = {} /\ \A R : << >> \in Seq(R)
BY DEF Range, Twice

\* The first in front of a sequence,
LEMMA TwiceAhead ==
  ASSUME NEW R, NEW z \in R, NEW q \in Seq(R)
  PROVE  /\ <<z>> \o q \in Seq(R) /\ Range(<<z>> \o q) = {z} \cup Range(q)
         /\ Twice(<<z>> \o q) = Twice(q) \cup ({z} \cap Range(q))
<1>1. PICK p : p = <<z>>
  OBVIOUS
<1>2. p \in Seq(R) /\ Range(p) = {z} /\ Twice(p) = {}
  BY <1>1 DEF Range, Twice
<1>3. /\ p \o q \in Seq(R) /\ Range(p \o q) = Range(p) \cup Range(q)
      /\ Twice(p \o q) = Twice(p) \cup Twice(q) \cup (Range(p) \cap Range(q))
  BY <1>2, TwiceInRow
<1>4. /\ p \o q \in Seq(R) /\ Range(p \o q) = {z} \cup Range(q)
      /\ Twice(p \o q) = Twice(q) \cup ({z} \cap Range(q))
  BY <1>2, <1>3, Zenon
<1> QED
  BY <1>1, <1>4, Zenon

\* and the rest of one.
LEMMA HeadAhead ==
  ASSUME NEW R, NEW q \in Seq(R), q # << >>
  PROVE  Head(q) \in R /\ Tail(q) \in Seq(R) /\ <<Head(q)>> \o Tail(q) = q
         /\ Len(Tail(q)) = Len(q) - 1
<1>1. Head(q) \in R /\ Tail(q) \in Seq(R) /\ Len(q) \in Nat /\ Len(q) > 0
      /\ DOMAIN q = 1..Len(q)
  OBVIOUS
<1>2. Len(Tail(q)) = Len(q) - 1 /\ Head(q) = q[1]
      /\ \A i \in 1..(Len(q) - 1) : Tail(q)[i] = q[i + 1]
  BY <1>1
<1> DEFINE s == <<Head(q)>> \o Tail(q)
<1>3. s \in Seq(R) /\ Len(s) = Len(q)
  BY <1>1, <1>2
<1>4. ASSUME NEW i \in 1..Len(q)
      PROVE  s[i] = q[i]
  <2>1. CASE i = 1
    BY <1>1, <1>2, <2>1
  <2>2. CASE i # 1
    <3>1. s[i] = Tail(q)[i - 1] /\ i - 1 \in 1..(Len(q) - 1)
      BY <1>1, <1>2, <2>2
    <3> QED
      BY <1>2, <3>1
  <2> QED
    BY <2>1, <2>2
<1>5. s = q
  <2> HIDE DEF s
  <2> QED
    BY <1>3, <1>4
<1> QED
  BY <1>1, <1>2, <1>5

\* What is behind the head of a sequence.
LEMMA HeadFirst ==
  ASSUME NEW R, NEW q \in Seq(R), q # << >>
  PROVE  /\ Head(q) \in R /\ Tail(q) \in Seq(R) /\ Len(Tail(q)) = Len(q) - 1
         /\ Range(q) = {Head(q)} \cup Range(Tail(q))
         /\ Twice(q) = Twice(Tail(q)) \cup ({Head(q)} \cap Range(Tail(q)))
<1>1. PICK e, f : e = Head(q) /\ f = Tail(q)
  OBVIOUS
<1>2. e \in R /\ f \in Seq(R) /\ <<e>> \o f = q /\ Len(f) = Len(q) - 1
  BY <1>1, HeadAhead
<1>3. PICK s : s = <<e>> \o f
  OBVIOUS
<1>4. Range(s) = {e} \cup Range(f) /\ Twice(s) = Twice(f) \cup ({e} \cap Range(f))
  BY <1>2, <1>3, TwiceAhead
<1> QED
  BY <1>1, <1>2, <1>3, <1>4

\* A set in some order has each of its elements once.
LEMMA InSomeOrder ==
  ASSUME NEW S, IsFiniteSet(S)
  PROVE  /\ SetToSeq(S) \in Seq(S) /\ Range(SetToSeq(S)) = S /\ Twice(SetToSeq(S)) = {}
         /\ DOMAIN SetToSeq(S) = 1..Cardinality(S)
         /\ \A i, j \in DOMAIN SetToSeq(S) : SetToSeq(S)[i] = SetToSeq(S)[j] => i = j
<1> DEFINE n == Cardinality(S)
           q == SetToSeq(S)
<1>1. n \in Nat /\ ExistsBijection(1..n, S)
  BY FS_CardinalityType
<1>2. PICK f \in [1..n -> S] : IsInjective(f)
  <2>1. PICK g : g \in Bijection(1..n, S)
    BY <1>1 DEF ExistsBijection
  <2>2. g \in [1..n -> S] /\ \A i, j \in 1..n : g[i] = g[j] => i = j
    BY <2>1 DEF Bijection, Injection, IsInjective
  <2> QED
    BY <2>2 DEF IsInjective
<1>3. q \in [1..n -> S] /\ IsInjective(q)
  BY <1>2 DEF SetToSeq
<1> HIDE DEF q
<1>4. q \in Injection(1..n, S)
  BY <1>3 DEF Injection
<1>5. IsFiniteSet(1..n) /\ Cardinality(1..n) = n
  BY <1>1, FS_Interval
<1>6. q \in Surjection(1..n, S)
  BY <1>4, <1>5, FS_Injection
<1>7. \A e \in S : \E i \in 1..n : q[i] = e
  BY <1>6 DEF Surjection
<1>8. Range(q) = S
  BY <1>3, <1>7 DEF Range
<1>9. Twice(q) = {}
  BY <1>3 DEF Twice, IsInjective
<1>10. q \in Seq(S)
  BY <1>1, <1>3
<1> QED
  BY <1>3, <1>8, <1>9, <1>10 DEF IsInjective, q

-----------------------------------------------------------------------------
(* Places in an order *)

\* How many elements of a set come before one, by a key.
Place(S, k, z) == Cardinality({y \in S : k[y] < k[z]})

ByKey(S, k) ==
  IsFiniteSet(S) /\ k \in [S -> Nat] /\ \A y, z \in S : k[y] = k[z] => y = z

\* Places grow with the keys and stay below the number of elements,
LEMMA PlacesGrow ==
  ASSUME NEW S, NEW k, ByKey(S, k), NEW z \in S
  PROVE  /\ Place(S, k, z) \in Nat /\ Place(S, k, z) < Cardinality(S)
         /\ \A y \in S : k[y] < k[z] => Place(S, k, y) < Place(S, k, z)
<1> DEFINE B(y) == {x \in S : k[x] < k[y]}
<1>1. /\ IsFiniteSet(S) /\ k \in [S -> Nat] /\ Cardinality(S) \in Nat
  BY FS_CardinalityType DEF ByKey
<1>2. ASSUME NEW y \in S
      PROVE  IsFiniteSet(B(y)) /\ Cardinality(B(y)) \in Nat
  BY <1>1, FS_Subset, FS_CardinalityType
<1>3. /\ Cardinality(B(z)) <= Cardinality(S) /\ (Cardinality(S) = Cardinality(B(z)) => S = B(z))
  BY <1>1, FS_Subset
<1>4. z \notin B(z)
  BY <1>1
<1>5. ASSUME NEW y \in S, k[y] < k[z]
      PROVE  Cardinality(B(y)) < Cardinality(B(z))
  <2>1. B(y) \subseteq B(z) /\ y \in B(z) /\ y \notin B(y)
    BY <1>1, <1>5
  <2>2. /\ Cardinality(B(y)) <= Cardinality(B(z))
        /\ (Cardinality(B(z)) = Cardinality(B(y)) => B(z) = B(y))
    BY <1>2, <2>1, FS_Subset
  <2> QED
    BY <1>2, <2>1, <2>2
<1> QED
  BY <1>1, <1>2, <1>3, <1>4, <1>5 DEF Place

\* so that each place below it is the place of one.
LEMMA PlacesFill ==
  ASSUME NEW S, NEW k, ByKey(S, k)
  PROVE  /\ \A y, z \in S : Place(S, k, y) = Place(S, k, z) => y = z
         /\ Cardinality(S) \in Nat
         /\ \A i \in 0..(Cardinality(S) - 1) : \E z \in S : Place(S, k, z) = i
<1> DEFINE n == Cardinality(S)
           g == [z \in S |-> Place(S, k, z)]
<1>1. /\ IsFiniteSet(S) /\ n \in Nat
  BY FS_CardinalityType DEF ByKey
<1>2. \A z \in S : Place(S, k, z) \in 0..(n - 1)
  BY <1>1, PlacesGrow
<1>3. ASSUME NEW y \in S, NEW z \in S, Place(S, k, y) = Place(S, k, z)
      PROVE  y = z
  <2>1. Place(S, k, y) \in Nat /\ k[y] \in Nat /\ k[z] \in Nat
    BY PlacesGrow DEF ByKey
  <2>2. ~(k[y] < k[z]) /\ ~(k[z] < k[y])
    BY <1>3, <2>1, PlacesGrow
  <2> QED
    BY <2>1, <2>2 DEF ByKey
<1>4. g \in Injection(S, 0..(n - 1))
  BY <1>2, <1>3 DEF Injection, IsInjective
<1>5. IsFiniteSet(0..(n - 1)) /\ Cardinality(0..(n - 1)) = n
  BY <1>1, FS_Interval
<1>6. g \in Surjection(S, 0..(n - 1))
  BY <1>1, <1>4, <1>5, FS_Injection
<1>7. \A i \in 0..(n - 1) : \E z \in S : g[z] = i
  BY <1>6 DEF Surjection
<1> QED
  BY <1>1, <1>3, <1>7

OnPage(S, k, o, w) == {z \in S : Place(S, k, z) \in o..(o + w - 1)}

\* A page of an order has the next elements; a short one is the last.
LEMMA PageFills ==
  ASSUME NEW S, NEW k, ByKey(S, k), NEW o \in Nat, NEW w \in Nat \ {0}, NEW W,
         W = OnPage(S, k, o, w)
  PROVE  /\ IsFiniteSet(W) /\ Cardinality(W) \in 0..w
         /\ \A i \in 1..Cardinality(W) : \E z \in S : Place(S, k, z) = o + i - 1
         /\ \A z \in S : Place(S, k, z) \in o..(o + w - 1) =>
              Place(S, k, z) - o + 1 \in 1..Cardinality(W)
         /\ Cardinality(W) < w => \A z \in S : Place(S, k, z) < o + Cardinality(W)
<1> DEFINE m == Cardinality(S)
           Pl(z) == Place(S, k, z)
           top == IF m < o + w THEN m ELSE o + w
           g == [z \in W |-> Pl(z)]
<1>1. /\ IsFiniteSet(S) /\ m \in Nat
      /\ \A y, z \in S : Pl(y) = Pl(z) => y = z
      /\ \A i \in 0..(m - 1) : \E z \in S : Pl(z) = i
  BY PlacesFill DEF ByKey
<1>2. \A z \in S : Pl(z) \in 0..(m - 1)
  BY <1>1, PlacesGrow
<1> HIDE DEF Pl
<1>3. W = {z \in S : Pl(z) \in o..(o + w - 1)}
  BY DEF Pl, OnPage
<1>4. IsFiniteSet(W)
  BY <1>1, <1>3, FS_Subset
<1>5. top \in Nat /\ top <= m /\ top <= o + w /\ (top = m \/ top = o + w)
  BY <1>1
<1> HIDE DEF top
<1>6. g \in [W -> o..(top - 1)]
  <2>1. ASSUME NEW z \in W
        PROVE  Pl(z) \in o..(top - 1)
    <3>1. Pl(z) \in 0..(m - 1) /\ Pl(z) \in o..(o + w - 1)
      BY <1>2, <1>3
    <3> QED
      BY <1>1, <1>5, <3>1
  <2> QED
    BY <2>1
<1>7. \A y, z \in W : g[y] = g[z] => y = z
  BY <1>1, <1>3
<1>8. \A i \in o..(top - 1) : \E z \in W : g[z] = i
  <2> TAKE i \in o..(top - 1)
  <2>1. i \in 0..(m - 1) /\ i \in o..(o + w - 1)
    BY <1>1, <1>5
  <2>2. PICK z \in S : Pl(z) = i
    BY <1>1, <2>1
  <2> QED
    BY <1>3, <2>1, <2>2
<1>9. ExistsBijection(W, o..(top - 1))
  <2>1. g \in Bijection(W, o..(top - 1))
    BY <1>6, <1>7, <1>8 DEF Bijection, Injection, Surjection, IsInjective
  <2> QED
    BY <2>1 DEF ExistsBijection
<1>10. Cardinality(W) = Cardinality(o..(top - 1))
  BY <1>4, <1>9, FS_Bijection
<1>11. Cardinality(o..(top - 1)) = IF o > top - 1 THEN 0 ELSE top - 1 - o + 1
  BY <1>5, FS_Interval
<1>12. Cardinality(W) = IF o > top - 1 THEN 0 ELSE top - o
  BY <1>5, <1>10, <1>11
<1>13. Cardinality(W) \in 0..w
  BY <1>5, <1>12
<1>14. ASSUME NEW i \in 1..Cardinality(W)
       PROVE  \E z \in S : Pl(z) = o + i - 1
  <2>1. o + i - 1 \in 0..(m - 1)
    BY <1>1, <1>5, <1>12
  <2> QED
    BY <1>1, <2>1
<1>15. ASSUME NEW z \in S, Pl(z) \in o..(o + w - 1)
       PROVE  Pl(z) - o + 1 \in 1..Cardinality(W)
  <2>1. Pl(z) \in 0..(m - 1)
    BY <1>2
  <2> QED
    BY <1>1, <1>5, <1>12, <1>15, <2>1
<1>16. ASSUME Cardinality(W) < w, NEW z \in S
       PROVE  Pl(z) < o + Cardinality(W)
  <2>1. Pl(z) \in 0..(m - 1)
    BY <1>2
  <2> QED
    BY <1>1, <1>5, <1>12, <1>16, <2>1
<1> QED
  BY <1>4, <1>13, <1>14, <1>15, <1>16 DEF Pl

\* A page of the list of zones, in the order of the zones' places.
LEMMA ZonesOnPage ==
  ASSUME NEW S \in SUBSET Zones, IsFiniteSet(S), NEW o \in Nat,
         NEW page, page = PageOfZones(S, o)
  PROVE  /\ page \in Seq(S) /\ Len(page) \in 0..ZonePage /\ Twice(page) = {}
         /\ Range(page) = {z \in S : ZoneRank(S, z) \in o..(o + ZonePage - 1)}
         /\ \A z \in S : ZoneRank(S, z) \in Nat
         /\ Len(page) < ZonePage => \A z \in S : ZoneRank(S, z) < o + ZonePage
<1> DEFINE k == [y \in S |-> ZonePlace[y]]
           W == ZonesOn(S, o)
           n == Cardinality(W)
<1>1. /\ ZonePlace \in [Zones -> Nat] /\ ZonePage \in Nat \ {0}
      /\ \A y, z \in Zones : ZonePlace[y] = ZonePlace[z] => y = z
  BY OperationsAssumption DEF IsInjective
<1>2. ByKey(S, k)
  BY <1>1 DEF ByKey
<1>3. \A z \in S : ZoneRank(S, z) = Place(S, k, z)
  <2> TAKE z \in S
  <2>1. {y \in S : ZonePlace[y] < ZonePlace[z]} = {y \in S : k[y] < k[z]}
    OBVIOUS
  <2> QED
    BY <2>1 DEF ZoneRank, Place
<1> HIDE DEF k
<1>4. W = OnPage(S, k, o, ZonePage)
  BY <1>3 DEF ZonesOn, OnPage
<1>5. page = [i \in 1..n |-> CHOOSE z \in S : ZoneRank(S, z) = o + i - 1]
  BY DEF PageOfZones
<1> HIDE DEF W
<1>6. /\ IsFiniteSet(W) /\ n \in 0..ZonePage
      /\ \A i \in 1..n : \E z \in S : Place(S, k, z) = o + i - 1
      /\ \A z \in S : Place(S, k, z) \in o..(o + ZonePage - 1) =>
           Place(S, k, z) - o + 1 \in 1..n
      /\ n < ZonePage => \A z \in S : Place(S, k, z) < o + n
  BY <1>1, <1>2, <1>4, PageFills
<1>7. \A y, z \in S : ZoneRank(S, y) = ZoneRank(S, z) => y = z
  BY <1>2, <1>3, PlacesFill
<1>8. \A z \in S : ZoneRank(S, z) \in Nat
  BY <1>2, <1>3, PlacesGrow
<1> HIDE DEF n
<1>9. \A i \in 1..n : page[i] \in S /\ ZoneRank(S, page[i]) = o + i - 1
  <2> TAKE i \in 1..n
  <2>1. \E z \in S : ZoneRank(S, z) = o + i - 1
    BY <1>3, <1>6
  <2> QED
    BY <1>5, <2>1
<1>10. DOMAIN page = 1..n /\ n \in Nat
  BY <1>1, <1>6, <1>5
<1>11. page \in Seq(S) /\ Len(page) = n
  <2>1. page \in [1..n -> S]
    BY <1>5, <1>9
  <2> QED
    BY <1>10, <2>1
<1>12. Twice(page) = {}
  BY <1>9, <1>10 DEF Twice
<1>13. ASSUME NEW z \in Range(page)
       PROVE  z \in S /\ ZoneRank(S, z) \in o..(o + ZonePage - 1)
  <2>1. PICK i \in 1..n : page[i] = z
    BY <1>10 DEF Range
  <2> QED
    BY <1>1, <1>6, <1>9, <2>1
<1>14. ASSUME NEW z \in S, ZoneRank(S, z) \in o..(o + ZonePage - 1)
       PROVE  z \in Range(page)
  <2> DEFINE i == ZoneRank(S, z) - o + 1
  <2>1. i \in 1..n /\ ZoneRank(S, z) = o + i - 1
    BY <1>3, <1>6, <1>8, <1>14
  <2> HIDE DEF i
  <2>2. page[i] = z
    BY <1>7, <1>9, <2>1
  <2> QED
    BY <1>10, <2>1, <2>2 DEF Range
<1>15. n < ZonePage => \A z \in S : ZoneRank(S, z) < o + ZonePage
  BY <1>1, <1>3, <1>6, <1>8
<1> QED
  BY <1>6, <1>8, <1>11, <1>12, <1>13, <1>14, <1>15

\* The records of a UniFi server, each under its own id.
OwnIds(S) ==
  IsFiniteSet(S) /\ (\A r \in S : r.id \in Nat) /\ \A q, r \in S : q.id = r.id => q = r

\* How many ids there are up to one.
Below(S, i) == Cardinality({j \in Ids(S) : j <= i})

\* A page of the list of policies, in the order of their ids.
LEMMA PoliciesOnPage ==
  ASSUME NEW S, OwnIds(S), NEW o \in Nat, NEW page \in PagesOf(S, o)
  PROVE  /\ page \in Seq(S) /\ Len(page) \in 0..PageSize /\ Twice(page) = {}
         /\ Range(page) = {r \in S : Rank(S, r) \in o..(o + Len(page) - 1)}
         /\ \A r \in S : Rank(S, r) \in Nat /\ Rank(S, r) < Cardinality(S)
         /\ Len(page) < PageSize => \A r \in S : Rank(S, r) < o + Len(page)
<1> DEFINE k == [r \in S |-> r.id]
           W == {r \in S : Rank(S, r) \in o..(o + PageSize - 1)}
           n == Cardinality(W)
<1>1. PageSize \in Nat \ {0}
  BY OperationsAssumption
<1>2. ByKey(S, k)
  BY DEF ByKey, OwnIds
<1>3. \A r \in S : Rank(S, r) = Place(S, k, r)
  <2> TAKE r \in S
  <2>1. {q \in S : q.id < r.id} = {q \in S : k[q] < k[r]}
    OBVIOUS
  <2> QED
    BY <2>1 DEF Rank, Place
<1> HIDE DEF k
<1>4. W = OnPage(S, k, o, PageSize)
  BY <1>3 DEF OnPage
<1>5. page \in [1..n -> S] /\ \A i \in 1..n : Rank(S, page[i]) = o + i - 1
  BY DEF PagesOf
<1> HIDE DEF W
<1>6. /\ IsFiniteSet(W) /\ n \in 0..PageSize
      /\ \A i \in 1..n : \E r \in S : Place(S, k, r) = o + i - 1
      /\ \A r \in S : Place(S, k, r) \in o..(o + PageSize - 1) =>
           Place(S, k, r) - o + 1 \in 1..n
      /\ n < PageSize => \A r \in S : Place(S, k, r) < o + n
  BY <1>1, <1>2, <1>4, PageFills
<1>7. \A q, r \in S : Rank(S, q) = Rank(S, r) => q = r
  BY <1>2, <1>3, PlacesFill
<1>8. \A r \in S : Rank(S, r) \in Nat /\ Rank(S, r) < Cardinality(S)
  BY <1>2, <1>3, PlacesGrow
<1> HIDE DEF n
<1>9. DOMAIN page = 1..n /\ n \in Nat
  BY <1>1, <1>6, <1>5
<1>10. page \in Seq(S) /\ Len(page) = n
  BY <1>5, <1>9
<1>11. Twice(page) = {}
  BY <1>5, <1>9 DEF Twice
<1>12. ASSUME NEW r \in Range(page)
       PROVE  r \in S /\ Rank(S, r) \in o..(o + n - 1)
  <2>1. PICK i \in 1..n : page[i] = r
    BY <1>9 DEF Range
  <2> QED
    BY <1>1, <1>6, <1>5, <2>1
<1>13. ASSUME NEW r \in S, Rank(S, r) \in o..(o + n - 1)
       PROVE  r \in Range(page)
  <2> DEFINE i == Rank(S, r) - o + 1
  <2>1. i \in 1..n /\ Rank(S, r) = o + i - 1
    BY <1>1, <1>3, <1>6, <1>8, <1>13
  <2> HIDE DEF i
  <2>2. page[i] = r
    BY <1>7, <1>5, <2>1
  <2> QED
    BY <1>9, <2>1, <2>2 DEF Range
<1>14. n < PageSize => \A r \in S : Rank(S, r) < o + n
  BY <1>3, <1>6
<1>15. Range(page) = {r \in S : Rank(S, r) \in o..(o + n - 1)}
  BY <1>12, <1>13
<1> QED
  BY <1>6, <1>8, <1>10, <1>11, <1>14, <1>15

\* A record's place in that order is told by its id.
LEMMA BelowRank ==
  ASSUME NEW S, OwnIds(S), NEW r \in S
  PROVE  Below(S, r.id) = Rank(S, r) + 1
<1> DEFINE B == {q \in S : q.id < r.id}
           J == {j \in Ids(S) : j < r.id}
           f == [q \in B |-> q.id]
<1>1. IsFiniteSet(B)
  BY FS_Subset DEF OwnIds
<1>2. f \in Bijection(B, J)
  <2>1. f \in [B -> J] /\ \A j \in J : \E q \in B : f[q] = j
    BY DEF Ids
  <2>2. \A p, q \in B : f[p] = f[q] => p = q
    BY DEF OwnIds
  <2> QED
    BY <2>1, <2>2 DEF Bijection, Injection, Surjection, IsInjective
<1>3. IsFiniteSet(J) /\ Cardinality(J) = Cardinality(B)
  BY <1>1, <1>2, FS_Bijection DEF ExistsBijection
<1>4. {j \in Ids(S) : j <= r.id} = J \cup {r.id} /\ r.id \notin J
  BY DEF Ids, OwnIds
<1>5. Cardinality(J \cup {r.id}) = Cardinality(J) + 1
  <2> HIDE DEF J
  <2> QED
    BY <1>3, <1>4, FS_AddElement
<1> QED
  BY <1>3, <1>4, <1>5 DEF Below, Rank

-----------------------------------------------------------------------------
(* What a listing keeps of an answer *)

Of(x) == VendorOf[x.ask.server]

\* A domain given with a zone lies in it or is a label of it.
WellAsked(a) ==
  /\ a \in Parameters /\ a.op = "list_records"
  /\ a.query.zone /\ a.query.domain # None =>
       a.zone \in Within[a.query.domain] \/ a.query.domain \in Labels

\* The domain asked for lies in the zone it is given with, or inferred from.
LEMMA DomainAsked ==
  ASSUME NEW a, WellAsked(a), a.query.domain # None
  PROVE  /\ Asked(a) \in Domains
         /\ a.query.zone => a.zone \in Within[Asked(a)]
         /\ ~a.query.zone => InferredZone(Asked(a)) \in Within[Asked(a)]
<1> DEFINE d == a.query.domain
<1>1. d \in Domains /\ a.zone \in Zones /\ a.query.zone \in BOOLEAN
  BY DEF WellAsked, Parameters, Query
<1>2. CASE a.query.zone /\ a.zone \in Within[d]
  BY <1>1, <1>2 DEF Asked, resolve_fqdn
<1>3. CASE a.query.zone /\ a.zone \notin Within[d]
  <2>1. d \in Labels
    BY <1>3 DEF WellAsked
  <2>2. Asked(a) = Under[a.zone][d]
    BY <1>3 DEF Asked, resolve_fqdn
  <2>3. Under[a.zone][d] \in Domains /\ Parent[Under[a.zone][d]] = a.zone
    BY <1>1, <2>1, OperationsAssumption
  <2>4. a.zone # None
    BY <1>1, OperationsAssumption
  <2>5. a.zone \in Within[Under[a.zone][d]]
    BY <2>3, <2>4, OperationsAssumption
  <2> QED
    BY <1>3, <2>2, <2>3, <2>5
<1>4. CASE ~a.query.zone
  <2>1. Asked(a) = d
    BY <1>4 DEF Asked
  <2>2. d \in Within[d] /\ (Parent[d] # None => Parent[d] \in Within[d])
    BY <1>1, DomainAssumption, OperationsAssumption
  <2> QED
    BY <1>1, <1>4, <2>1, <2>2 DEF InferredZone
<1> QED
  BY <1>1, <1>2, <1>3, <1>4

\* The arguments of a listing of one domain,
LEMMA ArgsOfOne ==
  ASSUME NEW a, WellAsked(a), ~AcrossZones(a)
  PROVE  /\ a.query.domain # None
         /\ a.query.all =>
              /\ ArgsOf(a).all = TRUE
              /\ ArgsOf(a).zones = {ArgsOf(a).domain}
              /\ ArgsOf(a).domain \in Within[Asked(a)]
         /\ ~a.query.all =>
              /\ ArgsOf(a).all = FALSE /\ ArgsOf(a).domain = Asked(a)
              /\ ArgsOf(a).zones = IF a.query.zone THEN {a.zone} ELSE {}
<1>1. a.op = "list_records" /\ a.query.domain # None
  BY DEF WellAsked, AcrossZones, ListsAll
<1>2. /\ a.query.zone => a.zone \in Within[Asked(a)]
      /\ ~a.query.zone => InferredZone(Asked(a)) \in Within[Asked(a)]
  BY <1>1, DomainAsked
<1>3. CASE a.query.all
  <2> DEFINE z == IF a.query.zone THEN a.zone ELSE InferredZone(Asked(a))
  <2>1. ArgsOf(a) = [domain |-> z, zones |-> {z}, all |-> TRUE]
    BY <1>1, <1>3 DEF ArgsOf, Args
  <2>2. z \in Within[Asked(a)]
    BY <1>2
  <2> HIDE DEF z
  <2> QED
    BY <1>1, <1>3, <2>1, <2>2
<1>4. CASE ~a.query.all
  <2>1. ArgsOf(a) = [domain |-> Asked(a), zones |-> IF a.query.zone THEN {a.zone} ELSE {},
                     all |-> FALSE]
    BY <1>1, <1>4 DEF ArgsOf, Args
  <2> QED
    BY <1>1, <1>4, <2>1
<1> QED
  BY <1>3, <1>4

\* and of one zone among all.
LEMMA ArgsOfZone ==
  ASSUME NEW a, NEW z, NEW at, at = ArgsIn(a, z)
  PROVE  at.zones = {z} /\ ZoneName(at) = z
<1>1. at.zones = {z}
  BY DEF ArgsIn, Args
<1> QED
  BY <1>1 DEF ZoneName

\* What each vendor returns, in the terms of its own module.
LEMMA ReturnsOf ==
  ASSUME NEW v \in VendorKind, NEW at, NEW r
  PROVE  /\ v = "technitium" =>
              (Returns(v, at, r) <=> /\ at.zones # {} => ZoneOf[r.name] \in at.zones
                                     /\ ~at.all => r.name = at.domain)
         /\ v = "cloudflare" =>
              (Returns(v, at, r) <=> IF at.zones # {} THEN ZoneOf[r.name] \in at.zones
                                     ELSE ZoneOf[r.name] = at.domain)
         /\ v = "unifi" =>
              (Returns(v, at, r) <=> IF at.zones # {} THEN at.zones \subseteq Within[r.name]
                                     ELSE at.domain \in Within[r.name])
         /\ v = "pihole" =>
              (Returns(v, at, r) <=> IF at.all THEN at.domain \in Within[r.name]
                                     ELSE r.name = at.domain)
         /\ v = "pangolin" =>
              (Returns(v, at, r) <=> (at.zones # {} =>
                 ZoneOf[r.name] \in at.zones /\ (at.all \/ r.name = at.domain)))
<1>1. ASSUME v = "technitium"
      PROVE  Returns(v, at, r) <=> T!Lists(at, r.name, ZoneOf[r.name])
  BY <1>1, Zenon DEF Returns, Lists
<1>2. ASSUME v = "cloudflare"
      PROVE  Returns(v, at, r) <=> C!Lists(at, ZoneOf[r.name])
  BY <1>2, Zenon DEF Returns, Lists
<1>3. ASSUME v = "unifi"
      PROVE  Returns(v, at, r) <=> U!Lists(at, Within[r.name])
  BY <1>3, Zenon DEF Returns, Lists
<1>4. ASSUME v = "pihole"
      PROVE  Returns(v, at, r) <=> P!Lists(at, r.name, Within[r.name])
  BY <1>4, Zenon DEF Returns, Lists
<1>5. ASSUME v = "pangolin"
      PROVE  Returns(v, at, r) <=> G!Lists(at, r.name, ZoneOf[r.name])
  BY <1>5, Zenon DEF Returns, Lists
<1> QED
  BY <1>1, <1>2, <1>3, <1>4, <1>5
  DEF T!Lists, C!Lists, U!Lists, P!Lists, G!Lists

\* A listing of one domain keeps every record it was asked for,
LEMMA KeepsWanted ==
  ASSUME NEW x, WellAsked(x.ask), ~AcrossZones(x.ask), x.at = ArgsOf(x.ask),
         NEW r, r.name \in Names, Wanted(Of(x), x.ask, r),
         Of(x) = "cloudflare" => ZoneName(x.at) \in Zones
  PROVE  Retains(x, r)
<1> DEFINE a == x.ask
           v == Of(x)
<1>1. v \in VendorKind /\ r.name \in Domains /\ Names \subseteq Domains
  BY OperationsAssumption DEF WellAsked, Parameters, Of
<1>2. /\ a.query.domain # None /\ ~IsSearch(a) /\ ~ListsAll(a)
      /\ a.query.all =>
           /\ x.at.all = TRUE
           /\ x.at.zones = {x.at.domain}
           /\ x.at.domain \in Within[Asked(a)]
      /\ ~a.query.all =>
           /\ x.at.all = FALSE /\ x.at.domain = Asked(a)
           /\ x.at.zones = IF a.query.zone THEN {a.zone} ELSE {}
  BY ArgsOfOne DEF AcrossZones
<1>3. /\ Matches(r.name, Asked(a), a.query.all)
      /\ Zoned(v) /\ x.at.zones # {} => ZoneOf[r.name] \in x.at.zones
  BY <1>2 DEF Wanted, Asks
<1>4. Kept1(a, x.at, r)
  BY <1>2, <1>3 DEF Kept1, Matches
<1>5. Returns(v, x.at, r)
  <2>1. CASE a.query.all
    <3>1. Asked(a) \in Within[r.name]
      BY <1>3, <2>1 DEF Matches
    <3>2. Asked(a) \in Domains
      BY <1>1, <3>1, DomainAssumption
    <3>3. x.at.domain \in Within[r.name]
      BY <1>1, <1>2, <2>1, <3>1, <3>2, DomainAssumption
    <3> QED
      BY <1>1, <1>2, <1>3, <2>1, <3>3, ReturnsOf DEF VendorKind, Zoned
  <2>2. CASE ~a.query.all
    <3>1. r.name = Asked(a) /\ Asked(a) = x.at.domain
      BY <1>2, <1>3, <2>2 DEF Matches
    <3>2. r.name \in Within[r.name] /\ (a.query.zone => a.zone \in Within[r.name])
      BY <1>1, <1>2, <3>1, DomainAsked, DomainAssumption
    <3>3. v = "cloudflare" /\ x.at.zones = {} => ZoneOf[r.name] = x.at.domain
      <4> HAVE v = "cloudflare" /\ x.at.zones = {}
      <4>1. r.name \in Zones
        BY <3>1 DEF ZoneName
      <4> QED
        BY <3>1, <4>1, OperationsAssumption
    <3> QED
      BY <1>1, <1>2, <1>3, <2>2, <3>1, <3>2, <3>3, ReturnsOf DEF VendorKind, Zoned
  <2> QED
    BY <2>1, <2>2
<1> QED
  BY <1>4, <1>5 DEF Retains, Of

\* a listing of a zone among all every one of the zone,
LEMMA KeepsInZone ==
  ASSUME NEW x, WellAsked(x.ask), AcrossZones(x.ask), Zoned(Of(x)),
         NEW z \in Zones, x.at = ArgsIn(x.ask, z),
         NEW r, r.name \in Names, ZoneOf[r.name] = z, Wanted(Of(x), x.ask, r),
         ApexOnly(Of(x), x.ask) => r.name \in Zones
  PROVE  Retains(x, r)
<1> DEFINE a == x.ask
           v == Of(x)
<1>1. v \in {"technitium", "cloudflare", "pangolin"} /\ v \in VendorKind
  BY DEF Zoned, VendorKind
<1>2. /\ x.at.zones = {z} /\ ZoneName(x.at) = z
      /\ IsSearch(a) /\ ~a.query.all =>
           x.at.domain = Under[z][a.query.domain] /\ x.at.all = FALSE
      /\ ~(IsSearch(a) /\ ~a.query.all) =>
           x.at.domain = z /\ x.at.all = a.query.all
  <2>1. x.at.zones = {z} /\ ZoneName(x.at) = z
    BY ArgsOfZone
  <2>2. ASSUME IsSearch(a) /\ ~a.query.all
        PROVE  x.at.domain = Under[z][a.query.domain] /\ x.at.all = FALSE
    BY <2>2 DEF ArgsIn, Args
  <2>3. ASSUME ~(IsSearch(a) /\ ~a.query.all)
        PROVE  x.at.domain = z /\ x.at.all = a.query.all
    <3>1. ArgsIn(a, z) = [domain |-> z, zones |-> {z}, all |-> a.query.all]
      BY <2>3 DEF ArgsIn, Args
    <3> QED
      BY <3>1
  <2> QED
    BY <2>1, <2>2, <2>3
<1>3. IsSearch(a) => ~ListsAll(a)
  BY OperationsAssumption DEF IsSearch, ListsAll
<1>4. CASE IsSearch(a)
  <2>1. Matches(r.name, Under[z][a.query.domain], a.query.all)
    BY <1>3, <1>4 DEF Wanted, Asks
  <2>2. Kept1(a, x.at, r)
    BY <1>2, <1>4, <2>1 DEF Kept1
  <2>3. ~a.query.all => r.name = x.at.domain
    BY <1>2, <1>4, <2>1 DEF Matches
  <2>4. Returns(v, x.at, r)
    BY <1>1, <1>2, <1>4, <2>3, ReturnsOf
  <2> QED
    BY <2>2, <2>4 DEF Retains, Of
<1>5. CASE ListsAll(a)
  <2>1. Kept1(a, x.at, r)
    BY <1>3, <1>5 DEF Kept1
  <2>2. ~a.query.all /\ v # "cloudflare" => r.name = z
    <3> HAVE ~a.query.all /\ v # "cloudflare"
    <3>1. r.name \in Zones
      BY <1>1, <1>5 DEF ApexOnly
    <3> QED
      BY <3>1, OperationsAssumption
  <2>3. Returns(v, x.at, r)
    BY <1>1, <1>2, <1>3, <1>5, <2>2, ReturnsOf
  <2> QED
    BY <2>1, <2>3 DEF Retains, Of
<1> QED
  BY <1>4, <1>5 DEF AcrossZones

\* and of no other,
LEMMA KeepsZoneOnly ==
  ASSUME NEW x, Zoned(Of(x)), x.at.zones # {}, NEW r, Retains(x, r)
  PROVE  ZoneOf[r.name] \in x.at.zones
<1>1. Of(x) \in {"technitium", "cloudflare", "pangolin"} /\ Of(x) \in VendorKind
  BY DEF Zoned, VendorKind
<1>2. Returns(Of(x), x.at, r)
  BY DEF Retains, Of
<1> QED
  BY <1>1, <1>2, ReturnsOf

\* and asked for names under a domain, no other record.
LEMMA KeepsAsked ==
  ASSUME NEW x, NEW r, Retains(x, r), x.ask.query.all,
         AcrossZones(x.ask) => Zoned(Of(x)) /\ \E z \in Zones : x.at = ArgsIn(x.ask, z)
  PROVE  Asks(x.ask, r)
<1> DEFINE a == x.ask
<1>1. Kept1(a, x.at, r)
  BY DEF Retains
<1>2. IsSearch(a) => ~ListsAll(a)
  BY OperationsAssumption DEF IsSearch, ListsAll
<1>3. CASE IsSearch(a)
  <2>1. PICK z \in Zones : x.at = ArgsIn(a, z)
    BY <1>3 DEF AcrossZones
  <2>2. x.at.zones = {z} /\ ZoneName(x.at) = z
    BY <2>1, ArgsOfZone
  <2>3. ZoneOf[r.name] = z
    BY <1>3, <2>2, KeepsZoneOnly DEF AcrossZones
  <2>4. Matches(r.name, Under[z][a.query.domain], a.query.all)
    <3>1. Matches(r.name, Under[ZoneName(x.at)][a.query.domain], a.query.all)
      BY <1>1, <1>2, <1>3 DEF Kept1
    <3> QED
      BY <2>2, <3>1
  <2> QED
    BY <1>2, <1>3, <2>3, <2>4 DEF Asks
<1>4. CASE ListsAll(a)
  BY <1>2, <1>4 DEF Asks
<1>5. CASE ~IsSearch(a) /\ ~ListsAll(a)
  BY <1>1, <1>5 DEF Kept1, Asks, Matches
<1> QED
  BY <1>3, <1>4, <1>5

-----------------------------------------------------------------------------
(* What a listing still owes *)

IsListing(x) == x.ask.op = "list_records"

\* The records a listing has to report of those that stood all along, the ones
\* it has not collected, and the zones of these that fit one answer.
Owed(x) ==
  {r \in x.stood : /\ Wanted(Of(x), x.ask, r) /\ ZoneOf[r.name] \notin x.skipped
                   /\ ApexOnly(Of(x), x.ask) => r.name \in Zones}
Missed(x) == Owed(x) \ Range(x.got)
OneAnswer(x, z) == Of(x) = "cloudflare" => Cardinality(InZone(x.seen, z)) <= OnePage
Missing(x) == {z \in ZonesOf(Missed(x)) : OneAnswer(x, z)}

\* It has collected only what it was asked for.
Listing1(x) == x.ask.query.all => \A r \in Range(x.got) : Asks(x.ask, r)

\* ListingIsComplete, of one listing that ended.
Complete(x) ==
  /\ Cardinality(ZonesOf(Twice(x.got))) <= (IF AcrossZones(x.ask) THEN x.grown ELSE 0)
  /\ Range(x.got) \subseteq x.seen
  /\ Listing1(x)
  /\ IF Of(x) = "unifi" THEN Cardinality(Missed(x)) <= x.gone
     ELSE Cardinality(Missing(x)) <= x.cut

\* A listing owes less when less stood, more was there, and it collected or
\* passed over more.
LEMMA FewerOwed ==
  ASSUME NEW x, NEW y, y.ask = x.ask, y.stood \subseteq x.stood, x.seen \subseteq y.seen,
         IsFiniteSet(y.seen), x.skipped \subseteq y.skipped, Range(x.got) \subseteq Range(y.got)
  PROVE  /\ Owed(y) \subseteq Owed(x) /\ Missed(y) \subseteq Missed(x)
         /\ Missing(y) \subseteq Missing(x)
<1>1. Owed(y) \subseteq Owed(x)
  BY DEF Owed, Of
<1>2. Missed(y) \subseteq Missed(x)
  BY <1>1 DEF Missed
<1>3. ASSUME NEW z, OneAnswer(y, z)
      PROVE  OneAnswer(x, z)
  <2> SUFFICES ASSUME Of(x) = "cloudflare"
               PROVE  Cardinality(InZone(x.seen, z)) <= OnePage
    BY DEF OneAnswer
  <2>1. Cardinality(InZone(y.seen, z)) <= OnePage
    BY <1>3 DEF OneAnswer, Of
  <2>2. InZone(x.seen, z) \subseteq InZone(y.seen, z) /\ InZone(y.seen, z) \subseteq y.seen
    BY DEF InZone
  <2>3. IsFiniteSet(InZone(y.seen, z))
    BY <2>2, FS_Subset
  <2>4. OnePage \in Nat
    BY OperationsAssumption
  <2>5. Cardinality(InZone(x.seen, z)) <= OnePage
    BY <2>1, <2>2, <2>3, <2>4, NoMore
  <2> QED
    BY <2>5
<1>4. Missing(y) \subseteq Missing(x)
  BY <1>2, <1>3 DEF Missing, ZonesOf
<1> QED
  BY <1>1, <1>2, <1>4

\* What a listing owes is among what stood, and finite.
LEMMA OwedStood ==
  ASSUME NEW x, IsFiniteSet(x.seen), x.stood \subseteq x.seen
  PROVE  /\ Owed(x) \subseteq x.stood /\ IsFiniteSet(x.stood) /\ IsFiniteSet(Missed(x))
         /\ IsFiniteSet(ZonesOf(x.stood)) /\ IsFiniteSet(Missing(x))
         /\ Missing(x) \subseteq ZonesOf(x.stood)
<1>1. Owed(x) \subseteq x.stood /\ Missed(x) \subseteq x.stood
  BY DEF Owed, Missed
<1>2. IsFiniteSet(x.stood)
  BY FS_Subset
<1>3. IsFiniteSet(ZonesOf(x.stood)) /\ IsFiniteSet(Missed(x))
  BY <1>1, <1>2, FiniteZones, FS_Subset
<1>4. Missing(x) \subseteq ZonesOf(x.stood)
  BY <1>1 DEF Missing, ZonesOf
<1> QED
  BY <1>1, <1>2, <1>3, <1>4, FS_Subset

\* An ended listing is as complete as what it ended with.
LEMMA CompleteAlike ==
  ASSUME NEW x, NEW y, Complete(x), IsFiniteSet(x.seen), x.stood \subseteq x.seen,
         y.ask = x.ask, y.got = x.got, y.stood = x.stood, y.seen = x.seen,
         y.skipped = x.skipped, y.cut = x.cut, y.gone = x.gone, y.grown = x.grown
  PROVE  Complete(y)
<1>1. Owed(y) \subseteq Owed(x) /\ Missed(y) \subseteq Missed(x) /\ Missing(y) \subseteq Missing(x)
  BY FewerOwed
<1>2. Owed(x) \subseteq Owed(y) /\ Missed(x) \subseteq Missed(y) /\ Missing(x) \subseteq Missing(y)
  BY FewerOwed
<1>3. Missed(y) = Missed(x) /\ Missing(y) = Missing(x) /\ Of(y) = Of(x)
  BY <1>1, <1>2 DEF Of
<1> QED
  BY <1>3 DEF Complete, Listing1

\* and holds of the listing that ends with what was collected.
LEMMA EndsComplete ==
  ASSUME NEW x, DOMAIN x = Fields, Complete(x), IsFiniteSet(x.seen), x.stood \subseteq x.seen
  PROVE  Complete(ListingEnds(x)) /\ ListingEnds(x).st = "done"
<1> DEFINE y == ListingEnds(x)
<1>1. /\ y.ask = x.ask /\ y.got = x.got /\ y.stood = x.stood /\ y.seen = x.seen
      /\ y.skipped = x.skipped /\ y.cut = x.cut /\ y.gone = x.gone /\ y.grown = x.grown
      /\ y.st = "done"
  BY DEF ListingEnds, Finished, Idle
<1> HIDE DEF y
<1>2. Complete(y)
  BY <1>1, CompleteAlike
<1> QED
  BY <1>1, <1>2 DEF y

-----------------------------------------------------------------------------
(* The requests of a listing *)

\* The requests for the records of one domain, and of one zone among all.
ToList(v) ==
  IF v = "cloudflare" THEN <<"zone", "act">>
  ELSE IF v = "pangolin" THEN <<"domains", "act">>
  ELSE IF v = "unifi" THEN <<"site", "page">>
  ELSE IF v = "pihole" THEN <<"hosts", "cnames">>
  ELSE <<"act">>
ZoneTodo(v) == {ToList(v), <<"act">>}

\* The clients' requests to list zones and records.
LEMMA ListRequests ==
  ASSUME NEW v \in VendorKind, NEW b
  PROVE  /\ b.op = "list_zones" =>
              Requests(v, b) = IF Zoned(v) THEN <<"act">> ELSE Unsupported
         /\ b.op = "list_records" => Requests(v, b) = ToList(v)
<1>1. CASE v = "technitium"
  <2>1. Requests(v, b) = T!Requests(b)
    BY <1>1, Zenon DEF Requests
  <2>2. b.op \in {"list_zones", "list_records"} => T!Requests(b) = <<"act">>
    BY DEF T!Requests, T!ZoneReads, T!ZoneRead, T!ZoneWrite, T!RecordWrite, T!CacheRead,
           T!CacheWrite, T!StatsRead, T!AccessListRead, T!AccessListWrite, T!ZoneImport,
           T!ZoneExport, T!SettingsRead, T!SettingsWrite, T!ZoneOptionsRead,
           T!ZoneOptionsWrite, T!LogsRead
  <2> QED
    BY <1>1, <2>1, <2>2 DEF Zoned, ToList
<1>2. CASE v = "cloudflare"
  <2>1. Requests(v, b) = C!Requests(b)
    BY <1>2, Zenon DEF Requests
  <2>2. /\ b.op = "list_zones" => C!Requests(b) = <<"act">>
        /\ b.op = "list_records" => C!Requests(b) = <<"zone", "act">>
    BY DEF C!Requests, C!ZoneReads, C!ZoneRead, C!ZoneWrite, C!RecordWrite, C!CacheRead,
           C!CacheWrite, C!StatsRead, C!AccessListRead, C!AccessListWrite, C!ZoneImport,
           C!ZoneExport, C!SettingsRead, C!SettingsWrite, C!ZoneOptionsRead,
           C!ZoneOptionsWrite, C!LogsRead, C!Unoffered, C!UnofferedSettings
  <2> QED
    BY <1>2, <2>1, <2>2 DEF Zoned, ToList
<1>3. CASE v = "unifi"
  <2>1. Requests(v, b) = U!Requests(b)
    BY <1>3, Zenon DEF Requests
  <2>2. /\ b.op = "list_zones" => U!Requests(b) = U!Unsupported
        /\ b.op = "list_records" => U!Requests(b) = <<"site", "page">>
    BY DEF U!Requests, U!ZoneReads, U!ZoneRead, U!ZoneWrite, U!SettingsRead, U!Unoffered,
           U!UnofferedSettings, U!CacheRead, U!CacheWrite, U!StatsRead, U!AccessListRead,
           U!AccessListWrite, U!ZoneImport, U!ZoneExport, U!SettingsWrite,
           U!ZoneOptionsRead, U!ZoneOptionsWrite, U!LogsRead
  <2> QED
    BY <1>3, <2>1, <2>2 DEF Zoned, ToList, Unsupported, U!Unsupported
<1>4. CASE v = "pihole"
  <2>1. Requests(v, b) = P!Requests(b)
    BY <1>4, Zenon DEF Requests
  <2>2. /\ b.op = "list_zones" => P!Requests(b) = P!Unsupported
        /\ b.op = "list_records" => P!Requests(b) = <<"hosts", "cnames">>
    BY DEF P!Requests, P!ZoneReads, P!ZoneRead, P!ZoneWrite, P!RecordWrite, P!CacheRead,
           P!CacheWrite, P!StatsRead, P!AccessListRead, P!AccessListWrite, P!ZoneImport,
           P!ZoneExport, P!SettingsRead, P!SettingsWrite, P!ZoneOptionsRead,
           P!ZoneOptionsWrite, P!LogsRead, P!Unoffered
  <2> QED
    BY <1>4, <2>1, <2>2 DEF Zoned, ToList, Unsupported, P!Unsupported
<1>5. CASE v = "pangolin"
  <2>1. Requests(v, b) = G!Requests(b)
    BY <1>5, Zenon DEF Requests
  <2>2. /\ b.op = "list_zones" => G!Requests(b) = <<"act">>
        /\ b.op = "list_records" => G!Requests(b) = <<"domains", "act">>
    BY DEF G!Requests, G!ZoneReads, G!ZoneRead, G!ZoneWrite, G!RecordWrite, G!CacheRead,
           G!CacheWrite, G!StatsRead, G!AccessListRead, G!AccessListWrite, G!ZoneImport,
           G!ZoneExport, G!SettingsRead, G!SettingsWrite, G!ZoneOptionsRead,
           G!ZoneOptionsWrite, G!LogsRead, G!UnofferedZones, G!UnofferedLists,
           G!UnofferedSettings
  <2> QED
    BY <1>5, <2>1, <2>2 DEF Zoned, ToList
<1> QED
  BY <1>1, <1>2, <1>3, <1>4, <1>5 DEF VendorKind

\* What a listing is: its methods, its server and its requests.
LEMMA ListingMethods ==
  ASSUME NEW x, WellAsked(x.ask)
  PROVE  /\ x.ask.server \in Servers /\ Of(x) \in VendorKind
         /\ ~IsTransfer(x.ask) /\ IsListing(x)
         /\ AcrossZones(x.ask) =>
              /\ Methods(x.ask) = <<At("list_zones", x.ask.server),
                                    At("list_records", x.ask.server)>>
              /\ RequestsOn(x.ask, 1) = IF Zoned(Of(x)) THEN <<"act">> ELSE Unsupported
              /\ RequestsOn(x.ask, 2) = ToList(Of(x))
         /\ ~AcrossZones(x.ask) =>
              /\ Methods(x.ask) = <<At("list_records", x.ask.server)>>
              /\ RequestsOn(x.ask, 1) = ToList(Of(x))
<1>1. x.ask \in Parameters /\ x.ask.op = "list_records" /\ x.ask.server \in Servers
      /\ "op" \in DOMAIN x.ask
  BY DEF WellAsked, Parameters
<1>2. Of(x) \in VendorKind /\ ~IsTransfer(x.ask)
  BY <1>1, OperationsAssumption DEF Of, IsTransfer
<1>3. ASSUME NEW op
      PROVE  /\ At(op, x.ask.server).op = op /\ At(op, x.ask.server).server = x.ask.server
             /\ [x.ask EXCEPT !.op = op].op = op
  BY <1>1 DEF At
<1>4. ASSUME NEW op \in {"list_zones", "list_records"}, NEW i, NEW m,
             m = Methods(x.ask)[i], m = At(op, x.ask.server)
      PROVE  /\ op = "list_zones" =>
                  RequestsOn(x.ask, i) = IF Zoned(Of(x)) THEN <<"act">> ELSE Unsupported
             /\ op = "list_records" => RequestsOn(x.ask, i) = ToList(Of(x))
  <2>1. m.op = op /\ m.server = x.ask.server
    BY <1>3, <1>4
  <2>2. RequestsOn(x.ask, i) = Requests(Of(x), [x.ask EXCEPT !.op = op])
    BY <1>4, <2>1 DEF RequestsOn, Of
  <2> QED
    BY <1>2, <1>3, <2>2, ListRequests
<1>5. CASE AcrossZones(x.ask)
  <2>1. Methods(x.ask) = <<At("list_zones", x.ask.server), At("list_records", x.ask.server)>>
    BY <1>2, <1>5 DEF Methods
  <2> QED
    BY <1>1, <1>2, <1>4, <1>5, <2>1 DEF IsListing
<1>6. CASE ~AcrossZones(x.ask)
  <2>1. Methods(x.ask) = <<At("list_records", x.ask.server)>>
    BY <1>1, <1>2, <1>6 DEF Methods
  <2> QED
    BY <1>1, <1>2, <1>4, <1>6, <2>1 DEF IsListing
<1> QED
  BY <1>5, <1>6

-----------------------------------------------------------------------------
(* The state of a listing between two requests *)

Collects(x) ==
  /\ DOMAIN x = Fields /\ WellAsked(x.ask)
  /\ IsFiniteSet(x.seen) /\ x.stood \subseteq x.seen /\ x.got \in Seq(x.seen)
  /\ x.cut \in Nat /\ x.grown \in Nat /\ x.gone \in Nat

\* While the zones of a server that has Z are paged: the zones that are behind
\* the next page and on no page before, and those on two pages or on one and
\* yet ahead.
Passed(x, Z) == {z \in ZonesOf(x.stood) : ZoneRank(Z, z) < x.offset} \ Range(x.left)
Again(x, Z)  == Twice(x.left) \cup {z \in Range(x.left) \cap Z : ZoneRank(Z, z) >= x.offset}

ZonesPaged(x, Z) ==
  /\ x.leg = 1
  /\ x.todo = <<"act">> /\ x.got = << >> /\ x.skipped = {}
  /\ x.offset \in Nat /\ x.left \in Seq(Zones)
  /\ Cardinality(Passed(x, Z)) <= x.cut
  /\ Cardinality(Again(x, Z)) <= x.grown

\* While the zones ahead are read one by one: what is missing lies in them,
\* and what repeats is a zone that is there twice.
Repeats(x, ahead) ==
  ZonesOf(Twice(x.got)) \cup Twice(ahead) \cup (Range(ahead) \cap ZonesOf(Range(x.got)))

Reading(x, ahead) ==
  /\ ahead \in Seq(Zones)
  /\ Listing1(x)
  /\ Cardinality(Missing(x) \ Range(ahead)) <= x.cut
  /\ Cardinality(Repeats(x, ahead)) <= x.grown

ZonesRead(x) ==
  /\ x.leg = 2
  /\ x.todo \in ZoneTodo(Of(x))
  /\ x.left \in Seq(Zones)
  /\ \E z \in Zones : x.at = ArgsIn(x.ask, z) /\ Reading(x, <<z>> \o x.left)

\* While UniFi's policies are paged, of a server that holds S: what is behind
\* the next page has been collected but for what removals moved there.
Behind(x, S, o) == {r \in x.stood : Below(S, r.id) <= o}

PoliciesPaged(x, S, n) ==
  /\ x.todo \in {<<"site", "page">>, <<"page">>}
  /\ x.skipped = {}
  /\ x.todo = <<"site", "page">> => x.got = << >>
  /\ Twice(x.got) = {}
  /\ x.offset = Len(x.got)
  /\ \A g \in Range(x.got) : g.id \in Nat /\ g.id < n /\ Below(S, g.id) <= x.offset
  /\ Cardinality(Behind(x, S, x.offset) \ Range(x.got)) <= x.gone

\* Between Pi-hole's two lists.
ListsRead(x) ==
  /\ x.skipped = {}
  /\ \/ x.todo = <<"hosts", "cnames">> /\ x.got = << >>
     \/ /\ x.todo = <<"cnames">>
        /\ Twice(x.got) = {} /\ Listing1(x)
        /\ \A g \in Range(x.got) : g.data.type \in P!HostTypes
        /\ \A r \in Owed(x) : r.data.type \in P!HostTypes => r \in Range(x.got)

\* Pangolin's domains, one after the other.
EachDomain(x) == Of(x) = "pangolin" /\ x.at.zones = {}

DomainsRead(x) ==
  /\ x.skipped = {}
  /\ \/ x.todo = <<"domains", "act">> /\ x.got = << >> /\ x.left = << >>
     \/ /\ x.todo \in Seq({"act"}) /\ Len(x.todo) = Len(x.left) /\ x.left # << >>
        /\ x.left \in Seq(Zones) /\ Twice(x.left) = {} /\ Twice(x.got) = {}
        /\ ZonesOf(Range(x.got)) \cap Range(x.left) = {}
        /\ Listing1(x)
        /\ \A r \in Owed(x) : r \in Range(x.got) \/ ZoneOf[r.name] \in Range(x.left)

\* One answer, at the other three.
OneRead(x) == x.skipped = {} /\ x.todo \in ZoneTodo(Of(x)) /\ x.got = << >>

\* A listing under way, at a server that holds S, has the zones Z and gives
\* the id n next.
Following(x, S, Z, n) ==
  /\ Collects(x)
  /\ IF AcrossZones(x.ask) THEN Zoned(Of(x)) /\ (ZonesPaged(x, Z) \/ ZonesRead(x))
     ELSE /\ x.at = ArgsOf(x.ask) /\ x.leg = 1
          /\ Of(x) = "unifi" => PoliciesPaged(x, S, n)
          /\ Of(x) = "pihole" => ListsRead(x)
          /\ Zoned(Of(x)) => IF EachDomain(x) THEN DomainsRead(x) ELSE OneRead(x)

Tracked(x, S, Z, n) ==
  /\ x.st = "busy" /\ IsListing(x) => Following(x, S, Z, n)
  /\ x.st = "busy" /\ ~IsListing(x) => x.at = ArgsOf(x.ask)
  /\ x.st = "done" /\ x.outcome = "ok" /\ IsListing(x) => Complete(x)

\* A call that ended without success promises nothing.
LEMMA EndedTracked ==
  ASSUME NEW x, NEW how, how # "ok", NEW S, NEW Z, NEW n
  PROVE  Tracked(Finished(x, how), S, Z, n)
<1>1. Finished(x, how).st = "done" /\ Finished(x, how).outcome = how
  BY DEF Finished, Idle
<1> QED
  BY <1>1 DEF Tracked

\* What is counted of the zones ahead is finite.
LEMMA AheadFinite ==
  ASSUME NEW x, Collects(x), NEW ahead \in Seq(Zones)
  PROVE  IsFiniteSet(Missing(x)) /\ IsFiniteSet(Missing(x) \ Range(ahead))
         /\ IsFiniteSet(Repeats(x, ahead))
<1>1. IsFiniteSet(Missing(x)) /\ IsFiniteSet(Missing(x) \ Range(ahead))
  BY OwedStood, FS_Subset DEF Collects
<1>2. IsFiniteSet(Twice(x.got)) /\ IsFiniteSet(Twice(ahead)) /\ IsFiniteSet(Range(ahead))
  BY FiniteRange DEF Collects
<1>3. IsFiniteSet(ZonesOf(Twice(x.got)))
  BY <1>2, FiniteZones
<1>4. IsFiniteSet(Range(ahead) \cap ZonesOf(Range(x.got)))
  BY <1>2, FS_Subset
<1> QED
  BY <1>1, <1>2, <1>3, <1>4, FS_Union DEF Repeats

\* Of the zones ahead nothing is promised that time could take.
LEMMA ReadingOn ==
  ASSUME NEW x, Collects(x), NEW y, y.ask = x.ask, y.got = x.got,
         y.stood \subseteq x.stood, x.seen \subseteq y.seen, IsFiniteSet(y.seen),
         x.skipped \subseteq y.skipped,
         y.cut \in Nat, x.cut <= y.cut, y.grown \in Nat, x.grown <= y.grown,
         NEW ahead, Reading(x, ahead)
  PROVE  Reading(y, ahead)
<1>1. Missing(y) \subseteq Missing(x)
  BY FewerOwed
<1>2. /\ IsFiniteSet(Missing(x) \ Range(ahead)) /\ IsFiniteSet(Repeats(x, ahead))
      /\ x.cut \in Nat /\ x.grown \in Nat
  BY AheadFinite DEF Collects, Reading
<1>3. /\ IsFiniteSet(Missing(x) \ Range(ahead)) /\ x.cut \in Nat /\ x.grown \in Nat
      /\ Missing(y) \ Range(ahead) \subseteq Missing(x) \ Range(ahead)
  BY <1>1, <1>2
<1>4. Cardinality(Missing(y) \ Range(ahead)) <= x.cut
  BY <1>3, NoMore DEF Reading
<1>5. IsFiniteSet(Missing(y) \ Range(ahead))
  BY <1>3, FS_Subset
<1>6. Cardinality(Missing(y) \ Range(ahead)) <= y.cut
  BY <1>3, <1>4, <1>5, FS_CardinalityType
<1>7. Repeats(y, ahead) = Repeats(x, ahead)
  BY DEF Repeats
<1>8. Cardinality(Repeats(y, ahead)) <= y.grown
  BY <1>2, <1>7, FS_CardinalityType DEF Reading
<1>9. Listing1(y)
  BY DEF Listing1, Reading
<1> QED
  BY <1>6, <1>8, <1>9 DEF Reading

\* A listing across zones goes on with the next zone ahead, or ends.
LEMMA NextZoneTracked ==
  ASSUME NEW x, Collects(x), x.st = "busy", AcrossZones(x.ask), Zoned(Of(x)),
         Reading(x, x.left), NEW S, NEW Z, NEW n
  PROVE  Tracked(NextZone(x), S, Z, n)
<1>1. DOMAIN x = Fields /\ WellAsked(x.ask) /\ IsFiniteSet(x.seen) /\ x.stood \subseteq x.seen
      /\ x.got \in Seq(x.seen) /\ x.left \in Seq(Zones)
  BY DEF Collects, Reading
<1>2. CASE x.left = << >>
  <2>1. Range(x.left) = {} /\ Twice(x.left) = {}
    BY <1>2, NothingTwice
  <2>2. Missing(x) \ Range(x.left) = Missing(x) /\ Repeats(x, x.left) = ZonesOf(Twice(x.got))
    BY <2>1 DEF Repeats
  <2>3. Of(x) # "unifi" /\ Range(x.got) \subseteq x.seen
    BY <1>1, FiniteRange DEF Zoned
  <2>4. Complete(x)
    BY <2>2, <2>3 DEF Complete, Reading
  <2>5. Complete(ListingEnds(x)) /\ ListingEnds(x).st = "done"
    BY <1>1, <2>4, EndsComplete
  <2> QED
    BY <1>2, <2>5 DEF NextZone, Tracked
<1>3. CASE x.left # << >>
  <2> DEFINE z == Head(x.left)
             y == [x EXCEPT !.leg = 2, !.todo = RequestsOn(x.ask, 2), !.zid = 0,
                            !.at = ArgsIn(x.ask, Head(x.left)), !.left = Tail(@)]
  <2>1. z \in Zones /\ Tail(x.left) \in Seq(Zones) /\ <<z>> \o Tail(x.left) = x.left
    BY <1>1, <1>3, HeadAhead
  <2>2. /\ y.leg = 2 /\ y.todo = RequestsOn(x.ask, 2) /\ y.at = ArgsIn(x.ask, z)
        /\ y.left = Tail(x.left) /\ y.ask = x.ask /\ y.got = x.got /\ y.stood = x.stood
        /\ y.seen = x.seen /\ y.skipped = x.skipped /\ y.cut = x.cut /\ y.grown = x.grown
        /\ y.gone = x.gone /\ y.st = x.st /\ DOMAIN y = Fields
    BY <1>1 DEF Fields
  <2>3. NextZone(x) = y
    BY <1>3 DEF NextZone
  <2> HIDE DEF y, z
  <2>4. Collects(y) /\ Of(y) = Of(x)
    BY <2>2 DEF Collects, Of
  <2>5. x.cut \in Nat /\ x.grown \in Nat
    BY DEF Collects
  <2>6. Reading(y, x.left)
    BY <1>1, <2>2, <2>5, ReadingOn
  <2>7. y.todo \in ZoneTodo(Of(y))
    BY <1>1, <2>2, <2>4, ListingMethods DEF ZoneTodo
  <2>8. ZonesRead(y)
    BY <2>1, <2>2, <2>6, <2>7 DEF ZonesRead
  <2>9. Following(y, S, Z, n)
    BY <2>2, <2>4, <2>8 DEF Following
  <2> QED
    BY <1>1, <2>2, <2>3, <2>9 DEF Tracked, IsListing, WellAsked
<1> QED
  BY <1>2, <1>3

-----------------------------------------------------------------------------
(* The answer to a listing *)

\* What a listing finds at a server that holds S and has the zones Z: what
\* stood is there, what is there it has seen, and it lies in those zones.
Sees(x, S, Z) ==
  /\ x.stood \subseteq S /\ S \subseteq x.seen
  /\ \A r \in S : r.name \in Names
  /\ Z \in SUBSET Zones /\ IsFiniteSet(Z)
  /\ Zoned(Of(x)) => ZonesOf(S) \subseteq Z
  /\ ById(Of(x)) => \A q, r \in S : q.id \in Nat /\ (q.id = r.id => q = r)

\* What the server answers with, and what the listing keeps of it, in some
\* order.
AnswerTo(x, S) ==
  LET L == {r \in S : Returns(Of(x), x.at, r)} IN
  IF Of(x) = "cloudflare" THEN {r \in L : Rank(L, r) < OnePage}
  ELSE IF EachDomain(x) THEN InZone(L, Head(x.left))
  ELSE L

\* What a listing keeps of some records it has seen, in an order.
LEMMA KeptInOrder ==
  ASSUME NEW x, Collects(x), NEW A, A \subseteq x.seen,
         NEW page, page = SetToSeq(KeptOf(x, A))
  PROVE  /\ page \in Seq(x.seen) /\ Twice(page) = {} /\ Range(page) = KeptOf(x, A)
         /\ \A r \in Range(page) : r \in A /\ Retains(x, r)
<1> DEFINE K == KeptOf(x, A)
<1>1. K \subseteq A /\ \A r \in K : Retains(x, r)
  BY DEF KeptOf
<1> HIDE DEF K
<1>2. IsFiniteSet(K)
  BY <1>1, FS_Subset DEF Collects
<1>3. page = SetToSeq(K)
  BY DEF K
<1>4. page \in Seq(K) /\ Twice(page) = {} /\ Range(page) = K
  BY <1>2, <1>3, InSomeOrder
<1>5. page \in Seq(x.seen)
  BY <1>1, <1>4
<1> QED
  BY <1>1, <1>4, <1>5 DEF K

\* Each record of an answer is kept once.
LEMMA AnswerKept ==
  ASSUME NEW x, Collects(x), NEW S, S \subseteq x.seen,
         NEW page, page = SetToSeq(KeptOf(x, AnswerTo(x, S)))
  PROVE  /\ page \in Seq(x.seen) /\ Twice(page) = {} /\ Range(page) = KeptOf(x, AnswerTo(x, S))
         /\ Range(page) \subseteq S /\ \A r \in Range(page) : Retains(x, r)
         /\ EachDomain(x) => \A r \in Range(page) : ZoneOf[r.name] = Head(x.left)
<1>1. /\ AnswerTo(x, S) \subseteq S
      /\ EachDomain(x) => \A r \in AnswerTo(x, S) : ZoneOf[r.name] = Head(x.left)
  BY DEF AnswerTo, InZone, EachDomain
<1> QED
  BY <1>1, KeptInOrder

\* Cloudflare answers with records of one zone.
LEMMA OneZoneAnswered ==
  ASSUME NEW at, NEW z, at.zones \subseteq {z}, NEW q, NEW r,
         Returns("cloudflare", at, q), Returns("cloudflare", at, r)
  PROVE  ZoneOf[q.name] = ZoneOf[r.name]
<1>1. "cloudflare" \in VendorKind
  BY DEF VendorKind
<1> QED
  BY <1>1, ReturnsOf

\* A record the listing retains is in the answer, if the zone's fit in one.
LEMMA AnswerHas ==
  ASSUME NEW x, Collects(x), NEW S, S \subseteq x.seen, NEW r \in S, Retains(x, r),
         NEW z, x.at.zones \subseteq {z}, OneAnswer(x, ZoneOf[r.name]),
         EachDomain(x) => ZoneOf[r.name] = Head(x.left),
         Of(x) = "cloudflare" => \A q \in S : q.id \in Nat
  PROVE  r \in KeptOf(x, AnswerTo(x, S))
<1> DEFINE L == {q \in S : Returns(Of(x), x.at, q)}
           W == InZone(x.seen, ZoneOf[r.name])
           B == {q \in L : q.id < r.id}
<1>1. r \in L
  BY DEF Retains, Of
<1>2. r \in AnswerTo(x, S)
  <2>1. CASE Of(x) = "cloudflare"
    <3>1. ASSUME NEW q \in L
          PROVE  q \in W
      <4>1. ZoneOf[q.name] = ZoneOf[r.name]
        BY <1>1, <2>1, OneZoneAnswered
      <4> QED
        BY <4>1 DEF InZone
    <3>2. IsFiniteSet(W) /\ Cardinality(W) <= OnePage /\ OnePage \in Nat
      <4>1. W \subseteq x.seen
        BY DEF InZone
      <4> QED
        BY <2>1, <4>1, FS_Subset, OperationsAssumption DEF OneAnswer, Collects
    <3>3. r.id \in Nat
      BY <2>1
    <3>4. r \notin B
      BY <3>3
    <3>5. B \subseteq W \ {r} /\ r \in W
      BY <1>1, <3>1, <3>4
    <3>6. IsFiniteSet(W \ {r}) /\ Cardinality(W \ {r}) = Cardinality(W) - 1
      BY <3>2, <3>5, FS_RemoveElement
    <3>7. Cardinality(B) <= Cardinality(W \ {r}) /\ Cardinality(B) \in Nat
      BY <3>5, <3>6, FS_Subset, FS_CardinalityType
    <3>8. Cardinality(W) \in Nat /\ Cardinality(W \ {r}) \in Nat
      BY <3>2, <3>6, FS_CardinalityType
    <3>9. Cardinality(B) < OnePage
      BY <3>2, <3>6, <3>7, <3>8
    <3> QED
      BY <1>1, <2>1, <3>9 DEF AnswerTo, Rank
  <2>2. CASE Of(x) # "cloudflare"
    BY <1>1, <2>2 DEF AnswerTo, InZone
  <2> QED
    BY <2>1, <2>2
<1> QED
  BY <1>2 DEF KeptOf

-----------------------------------------------------------------------------
(* The steps of a listing across zones *)

\* What a listing is, but for the requests that are left.
Resumes(x, y) ==
  /\ DOMAIN y = Fields
  /\ y.st = x.st /\ y.ask = x.ask /\ y.leg = x.leg /\ y.at = x.at /\ y.left = x.left
  /\ y.offset = x.offset /\ y.got = x.got /\ y.stood = x.stood /\ y.seen = x.seen
  /\ y.skipped = x.skipped /\ y.gone = x.gone /\ y.cut = x.cut /\ y.grown = x.grown

\* Whatever is still to be read of it is the same.
LEMMA ResumesCollects ==
  ASSUME NEW x, Collects(x), NEW y, Resumes(x, y)
  PROVE  /\ Collects(y) /\ Of(y) = Of(x)
         /\ \A ahead : Reading(x, ahead) => Reading(y, ahead)
<1>1. y.ask = x.ask /\ y.seen = x.seen /\ y.stood = x.stood /\ y.got = x.got /\ DOMAIN y = Fields
      /\ y.cut = x.cut /\ y.grown = x.grown /\ y.gone = x.gone /\ y.skipped = x.skipped
  BY DEF Resumes
<1>2. Collects(y) /\ Of(y) = Of(x)
  BY <1>1 DEF Collects, Of
<1>3. ASSUME NEW ahead, Reading(x, ahead)
      PROVE  Reading(y, ahead)
  <2>1. IsFiniteSet(y.seen) /\ y.cut \in Nat /\ y.grown \in Nat
    BY <1>2 DEF Collects
  <2> QED
    BY <1>1, <1>3, <2>1, ReadingOn
<1> QED
  BY <1>2, <1>3

\* A zone that was ahead is done with when nothing of it is missing, and a
\* record that repeats lies in a zone that was there twice.
LEMMA ZoneDone ==
  ASSUME NEW x, Collects(x), NEW z \in Zones, Reading(x, <<z>> \o x.left), x.left \in Seq(Zones),
         NEW y, y.cut = x.cut, y.grown = x.grown, y.left = x.left,
         Missing(y) \subseteq Missing(x) \ {z}, Listing1(y),
         Repeats(y, x.left) \subseteq Repeats(x, <<z>> \o x.left)
  PROVE  Reading(y, y.left)
<1> DEFINE q == <<z>> \o x.left
<1>1. q \in Seq(Zones) /\ Range(q) = {z} \cup Range(x.left)
  BY TwiceAhead
<1>2. Reading(x, q) /\ Repeats(y, x.left) \subseteq Repeats(x, q)
  OBVIOUS
<1> HIDE DEF q
<1>3. IsFiniteSet(Missing(x) \ Range(q)) /\ IsFiniteSet(Repeats(x, q))
      /\ x.cut \in Nat /\ x.grown \in Nat
  BY <1>1, AheadFinite DEF Collects
<1>4. Missing(y) \ Range(x.left) \subseteq Missing(x) \ Range(q)
  BY <1>1
<1>5. Cardinality(Missing(x) \ Range(q)) <= x.cut /\ Cardinality(Repeats(x, q)) <= x.grown
  BY <1>2 DEF Reading
<1>6. Cardinality(Missing(y) \ Range(x.left)) <= x.cut
  BY <1>3, <1>4, <1>5, NoMore
<1>7. Cardinality(Repeats(y, x.left)) <= x.grown
  BY <1>2, <1>3, <1>5, NoMore
<1> QED
  BY <1>6, <1>7 DEF Reading

\* A listing that fails ends without success, unless it is a search, which
\* passes over the zone.
LEMMA FailedTracked ==
  ASSUME NEW x, NEW S, NEW Z, NEW n, IsListing(x) => Following(x, S, Z, n), x.st = "busy"
  PROVE  Tracked(Failed(x), S, Z, n)
<1>1. CASE ~(IsSearch(x.ask) /\ x.leg = 2)
  BY <1>1, EndedTracked DEF Failed
<1>2. CASE IsSearch(x.ask) /\ x.leg = 2
  <2> DEFINE y == [x EXCEPT !.skipped = @ \cup x.at.zones]
  <2>1. IsListing(x) /\ AcrossZones(x.ask)
    BY <1>2 DEF IsSearch, IsListing, AcrossZones
  <2>2. Collects(x) /\ Zoned(Of(x)) /\ ZonesRead(x)
    BY <1>2, <2>1 DEF Following, ZonesPaged
  <2>3. PICK z \in Zones : x.at = ArgsIn(x.ask, z) /\ Reading(x, <<z>> \o x.left)
    BY <2>2 DEF ZonesRead
  <2>4. x.at.zones = {z} /\ x.left \in Seq(Zones)
    BY <2>2, <2>3, ArgsOfZone DEF ZonesRead
  <2>5. DOMAIN x = Fields
    BY <2>2 DEF Collects
  <2>6. /\ y.st = x.st /\ y.ask = x.ask /\ y.left = x.left /\ y.got = x.got
        /\ y.stood = x.stood /\ y.seen = x.seen /\ y.skipped = x.skipped \cup {z}
        /\ y.cut = x.cut /\ y.grown = x.grown /\ y.gone = x.gone /\ DOMAIN y = Fields
    BY <2>4, <2>5 DEF Fields
  <2>7. Failed(x) = NextZone(y)
    BY <1>2 DEF Failed
  <2> HIDE DEF y
  <2>8. Collects(y) /\ Of(y) = Of(x)
    BY <2>2, <2>6 DEF Collects, Of
  <2>9. Missing(y) \subseteq Missing(x)
    BY <2>2, <2>6, FewerOwed DEF Collects
  <2>10. z \notin Missing(y)
    <3>1. ASSUME NEW r \in Missed(y)
          PROVE  ZoneOf[r.name] # z
      BY <2>6 DEF Missed, Owed
    <3> QED
      BY <3>1 DEF Missing, ZonesOf
  <2>11. Listing1(y)
    <3>1. Listing1(x)
      BY <2>3 DEF Reading
    <3> QED
      BY <2>6, <3>1 DEF Listing1
  <2>12. Repeats(y, x.left) \subseteq Repeats(x, <<z>> \o x.left)
    <3>1. PICK q : q = <<z>> \o x.left
      OBVIOUS
    <3>2. /\ Range(q) = {z} \cup Range(x.left)
          /\ Twice(q) = Twice(x.left) \cup ({z} \cap Range(x.left))
      BY <2>4, <3>1, TwiceAhead
    <3>3. Repeats(y, x.left) \subseteq Repeats(x, q)
      BY <2>6, <3>2 DEF Repeats
    <3> QED
      BY <3>1, <3>3
  <2>13. Reading(y, y.left)
    BY <2>2, <2>3, <2>4, <2>6, <2>9, <2>10, <2>11, <2>12, ZoneDone
  <2>14. y.st = "busy" /\ AcrossZones(y.ask) /\ Zoned(Of(y))
    BY <2>1, <2>2, <2>6, <2>8
  <2>15. Tracked(NextZone(y), S, Z, n)
    BY <2>8, <2>13, <2>14, NextZoneTracked
  <2> QED
    BY <2>7, <2>15
<1> QED
  BY <1>1, <1>2

\* The records of a zone were read.
LEMMA ZoneReadTracked ==
  ASSUME NEW x, Collects(x), x.st = "busy", AcrossZones(x.ask), Zoned(Of(x)), ZonesRead(x),
         NEW S, NEW Z, NEW n, Sees(x, S, Z),
         NEW page, page = SetToSeq(KeptOf(x, AnswerTo(x, S))),
         NEW y, DOMAIN y = Fields, y.st = "busy", y.ask = x.ask, y.left = x.left,
         y.got = x.got \o page, y.stood = x.stood, y.seen = x.seen, y.skipped = x.skipped,
         y.gone = x.gone, y.cut = x.cut, y.grown = x.grown
  PROVE  Tracked(NextZone(y), S, Z, n)
<1>1. PICK z \in Zones : x.at = ArgsIn(x.ask, z) /\ Reading(x, <<z>> \o x.left)
  BY DEF ZonesRead
<1>2. x.at.zones = {z} /\ x.left \in Seq(Zones)
  BY <1>1, ArgsOfZone DEF ZonesRead
<1>3. /\ x.stood \subseteq S /\ S \subseteq x.seen /\ \A r \in S : r.name \in Names
      /\ Of(x) = "cloudflare" => \A r \in S : r.id \in Nat
  BY DEF Sees, ById
<1>4. ~EachDomain(x)
  BY <1>2 DEF EachDomain
<1>5. /\ page \in Seq(x.seen) /\ Twice(page) = {} /\ Range(page) = KeptOf(x, AnswerTo(x, S))
      /\ \A r \in Range(page) : Retains(x, r)
  BY <1>3, AnswerKept
<1>6. \A r \in Range(page) : ZoneOf[r.name] = z
  BY <1>2, <1>5, KeepsZoneOnly
<1>7. x.got \in Seq(x.seen) /\ IsFiniteSet(x.seen) /\ x.stood \subseteq x.seen /\ WellAsked(x.ask)
  BY DEF Collects
<1>8. /\ y.got \in Seq(x.seen) /\ Range(y.got) = Range(x.got) \cup Range(page)
      /\ Twice(y.got) = Twice(x.got) \cup (Range(x.got) \cap Range(page))
  <2>1. PICK p, R : p = x.got /\ R = x.seen
    OBVIOUS
  <2>2. p \in Seq(R) /\ page \in Seq(R)
    BY <1>5, <1>7, <2>1
  <2>3. /\ p \o page \in Seq(R) /\ Range(p \o page) = Range(p) \cup Range(page)
        /\ Twice(p \o page) = Twice(p) \cup Twice(page) \cup (Range(p) \cap Range(page))
    BY <2>2, TwiceInRow
  <2>4. y.got = p \o page
    BY <2>1
  <2> QED
    BY <1>5, <2>1, <2>3, <2>4
<1>9. Collects(y) /\ Of(y) = Of(x)
  BY <1>8 DEF Collects, Of
<1>10. Missing(y) \subseteq Missing(x)
  BY <1>7, <1>8, FewerOwed
<1>11. z \notin Missing(y)
  <2>1. ASSUME NEW r \in Missed(y), ZoneOf[r.name] = z, OneAnswer(y, z)
        PROVE  FALSE
    <3>1. /\ r \in x.stood /\ r \notin Range(page) /\ Wanted(Of(x), x.ask, r)
          /\ ApexOnly(Of(x), x.ask) => r.name \in Zones
      BY <1>8, <1>9, <2>1 DEF Missed, Owed
    <3>2. r \in S /\ r.name \in Names
      BY <1>3, <3>1
    <3>3. Retains(x, r)
      BY <1>1, <1>7, <2>1, <3>1, <3>2, KeepsInZone
    <3>4. OneAnswer(x, ZoneOf[r.name])
      BY <1>9, <2>1 DEF OneAnswer
    <3>5. x.at.zones \subseteq {z}
      BY <1>2
    <3>6. r \in KeptOf(x, AnswerTo(x, S))
      BY <1>3, <1>4, <3>2, <3>3, <3>4, <3>5, AnswerHas
    <3> QED
      BY <1>5, <3>1, <3>6
  <2> QED
    BY <2>1 DEF Missing, ZonesOf
<1>12. Listing1(y)
  <2> SUFFICES ASSUME x.ask.query.all, NEW r \in Range(y.got)
               PROVE  Asks(x.ask, r)
    BY DEF Listing1
  <2>1. CASE r \in Range(x.got)
    <3>1. Listing1(x)
      BY <1>1 DEF Reading
    <3> QED
      BY <2>1, <3>1 DEF Listing1
  <2>2. CASE r \in Range(page)
    <3>1. Retains(x, r)
      BY <1>5, <2>2
    <3> QED
      BY <1>1, <3>1, KeepsAsked
  <2> QED
    BY <1>8, <2>1, <2>2
<1>13. Repeats(y, x.left) \subseteq Repeats(x, <<z>> \o x.left)
  <2>1. PICK q : q = <<z>> \o x.left
    OBVIOUS
  <2>2. Range(q) = {z} \cup Range(x.left) /\ Twice(q) = Twice(x.left) \cup ({z} \cap Range(x.left))
    BY <1>2, <2>1, TwiceAhead
  <2>3. ASSUME NEW e \in Repeats(y, x.left)
        PROVE  e \in Repeats(x, q)
    <3>1. CASE e \in ZonesOf(Twice(y.got))
      <4>1. PICK r \in Twice(y.got) : e = ZoneOf[r.name]
        BY <3>1 DEF ZonesOf
      <4>2. CASE r \in Twice(x.got)
        BY <4>1, <4>2 DEF Repeats, ZonesOf
      <4>3. CASE r \in Range(x.got) \cap Range(page)
        <5>1. e = z /\ e \in ZonesOf(Range(x.got))
          BY <1>6, <4>1, <4>3 DEF ZonesOf
        <5> QED
          BY <2>2, <5>1 DEF Repeats
      <4> QED
        BY <1>8, <4>2, <4>3
    <3>2. CASE e \in Twice(x.left)
      BY <2>2, <3>2 DEF Repeats
    <3>3. CASE e \in Range(x.left) \cap ZonesOf(Range(y.got))
      <4>1. PICK r \in Range(y.got) : e = ZoneOf[r.name]
        BY <3>3 DEF ZonesOf
      <4>2. CASE r \in Range(x.got)
        <5>1. e \in ZonesOf(Range(x.got))
          BY <4>1, <4>2 DEF ZonesOf
        <5> QED
          BY <2>2, <3>3, <5>1 DEF Repeats
      <4>3. CASE r \in Range(page)
        <5>1. e = z
          BY <1>6, <4>1, <4>3
        <5> QED
          BY <2>2, <3>3, <5>1 DEF Repeats
      <4> QED
        BY <1>8, <4>2, <4>3
    <3> QED
      BY <3>1, <3>2, <3>3 DEF Repeats
  <2> QED
    BY <2>1, <2>3
<1>14. Reading(y, y.left)
  BY <1>1, <1>2, <1>10, <1>11, <1>12, <1>13, ZoneDone
<1> QED
  BY <1>9, <1>14, NextZoneTracked

\* A page of the zones of a server passes over no zone and repeats none but
\* those that were to be repeated.
LEMMA ZonePaged ==
  ASSUME NEW x, Collects(x), NEW Z \in SUBSET Zones, IsFiniteSet(Z), ZonesPaged(x, Z),
         ZonesOf(x.stood) \subseteq Z,
         NEW page, page = PageOfZones(Z, x.offset),
         NEW y, y.stood = x.stood, y.left = x.left \o page, y.offset = x.offset + ZonePage
  PROVE  /\ y.left \in Seq(Zones) /\ y.offset \in Nat
         /\ Passed(y, Z) \subseteq Passed(x, Z) /\ IsFiniteSet(Passed(x, Z))
         /\ Again(y, Z) \subseteq Again(x, Z) /\ IsFiniteSet(Again(x, Z))
         /\ Len(page) < ZonePage => \A z \in Z : ZoneRank(Z, z) < y.offset
<1>1. x.offset \in Nat /\ x.left \in Seq(Zones) /\ ZonePage \in Nat
  BY OperationsAssumption DEF ZonesPaged
<1>2. /\ page \in Seq(Z) /\ Twice(page) = {}
      /\ Range(page) = {z \in Z : ZoneRank(Z, z) \in x.offset..(x.offset + ZonePage - 1)}
      /\ \A z \in Z : ZoneRank(Z, z) \in Nat
      /\ Len(page) < ZonePage => \A z \in Z : ZoneRank(Z, z) < x.offset + ZonePage
  BY <1>1, ZonesOnPage
<1>3. page \in Seq(Zones)
  BY <1>2
<1>4. /\ y.left \in Seq(Zones) /\ Range(y.left) = Range(x.left) \cup Range(page)
      /\ Twice(y.left) = Twice(x.left) \cup (Range(x.left) \cap Range(page))
  BY <1>1, <1>2, <1>3, TwiceInRow
<1>5. \A z \in Z : ZoneRank(Z, z) < y.offset => ZoneRank(Z, z) < x.offset \/ z \in Range(page)
  BY <1>1, <1>2
<1>6. \A z \in Range(page) : z \in Z /\ ZoneRank(Z, z) >= x.offset /\ ~(ZoneRank(Z, z) >= y.offset)
  BY <1>1, <1>2
<1>7. \A z \in Z : ZoneRank(Z, z) >= y.offset => ZoneRank(Z, z) >= x.offset
  BY <1>1, <1>2
<1>8. Passed(y, Z) \subseteq Passed(x, Z)
  BY <1>4, <1>5 DEF Passed
<1>9. Again(y, Z) \subseteq Again(x, Z)
  BY <1>4, <1>6, <1>7 DEF Again
<1>10. IsFiniteSet(Passed(x, Z))
  <2>1. Passed(x, Z) \subseteq ZonesOf(x.stood)
    BY DEF Passed
  <2> QED
    BY <2>1, OwedStood, FS_Subset DEF Collects
<1>11. IsFiniteSet(Again(x, Z))
  <2>1. Again(x, Z) \subseteq Range(x.left)
    BY DEF Again, Twice
  <2>2. IsFiniteSet(Range(x.left))
    BY <1>1, FiniteRange
  <2> QED
    BY <2>1, <2>2, FS_Subset
<1> QED
  BY <1>1, <1>2, <1>4, <1>8, <1>9, <1>10, <1>11

\* A page of zones was fetched: there are more, or the listing goes on with
\* the first of those on the pages.
LEMMA ZonesFetched ==
  ASSUME NEW x, Collects(x), x.st = "busy", AcrossZones(x.ask), Zoned(Of(x)),
         NEW S, NEW Z, NEW n, ZonesPaged(x, Z), Sees(x, S, Z),
         NEW page, page = PageOfZones(Z, x.offset),
         NEW y, DOMAIN y = Fields, y.st = "busy", y.ask = x.ask, y.leg = x.leg, y.todo = x.todo,
         y.left = x.left \o page, y.offset = x.offset + ZonePage, y.got = x.got,
         y.stood = x.stood, y.seen = x.seen, y.skipped = x.skipped,
         y.gone = x.gone, y.cut = x.cut, y.grown = x.grown
  PROVE  Tracked(IF Len(page) = ZonePage THEN y ELSE NextZone(y), S, Z, n)
<1>1. /\ Z \in SUBSET Zones /\ IsFiniteSet(Z) /\ ZonesOf(S) \subseteq Z /\ x.stood \subseteq S
  BY DEF Sees
<1>2. ZonesOf(x.stood) \subseteq Z
  BY <1>1 DEF ZonesOf
<1>3. /\ y.left \in Seq(Zones) /\ y.offset \in Nat
      /\ Passed(y, Z) \subseteq Passed(x, Z) /\ IsFiniteSet(Passed(x, Z))
      /\ Again(y, Z) \subseteq Again(x, Z) /\ IsFiniteSet(Again(x, Z))
      /\ Len(page) < ZonePage => \A z \in Z : ZoneRank(Z, z) < y.offset
  BY <1>1, <1>2, ZonePaged
<1>4. Collects(y) /\ Of(y) = Of(x) /\ x.cut \in Nat /\ x.grown \in Nat
  BY DEF Collects, Of
<1>5. /\ x.leg = 1 /\ x.todo = <<"act">> /\ x.got = << >> /\ x.skipped = {} /\ x.offset \in Nat
      /\ Cardinality(Passed(x, Z)) <= x.cut /\ Cardinality(Again(x, Z)) <= x.grown
  BY DEF ZonesPaged
<1>6. /\ IsFiniteSet(Passed(y, Z)) /\ Cardinality(Passed(y, Z)) <= x.cut
      /\ IsFiniteSet(Again(y, Z)) /\ Cardinality(Again(y, Z)) <= x.grown
  BY <1>3, <1>4, <1>5, NoMore
<1>7. CASE Len(page) = ZonePage
  <2>1. ZonesPaged(y, Z)
    BY <1>3, <1>5, <1>6 DEF ZonesPaged
  <2>2. Following(y, S, Z, n)
    BY <1>4, <2>1 DEF Following
  <2>3. IsListing(y)
    BY DEF Collects, WellAsked, IsListing
  <2> QED
    BY <1>7, <2>2, <2>3 DEF Tracked
<1>8. CASE Len(page) # ZonePage
  <2>1. Len(page) < ZonePage
    <3>1. Len(page) \in 0..ZonePage /\ ZonePage \in Nat
      BY <1>1, <1>5, ZonesOnPage, OperationsAssumption
    <3> QED
      BY <1>8, <3>1
  <2>2. Missing(y) \ Range(y.left) \subseteq Passed(y, Z)
    <3>1. Missing(y) \subseteq ZonesOf(y.stood)
      BY <1>4, OwedStood DEF Collects
    <3> QED
      BY <1>2, <1>3, <2>1, <3>1 DEF Passed
  <2>3. Range(y.got) = {} /\ Twice(y.got) = {}
    BY <1>5, NothingTwice
  <2>4. Repeats(y, y.left) \subseteq Again(y, Z) /\ Listing1(y)
    BY <2>3 DEF Repeats, Again, ZonesOf, Listing1
  <2>5. Cardinality(Missing(y) \ Range(y.left)) <= x.cut
    BY <1>4, <1>6, <2>2, NoMore
  <2>6. Cardinality(Repeats(y, y.left)) <= x.grown
    BY <1>4, <1>6, <2>4, NoMore
  <2>7. Reading(y, y.left)
    BY <1>3, <2>4, <2>5, <2>6 DEF Reading
  <2> QED
    BY <1>4, <1>8, <2>7, NextZoneTracked
<1> QED
  BY <1>7, <1>8

\* A lookup was answered; the listing goes on as it was.
LEMMA LookupTracked ==
  ASSUME NEW x, NEW S, NEW Z, NEW n, Following(x, S, Z, n), x.st = "busy",
         Head(x.todo) \in {"zone", "site", "domains"}, ~EachDomain(x),
         NEW y, Resumes(x, y), y.todo = x.todo
  PROVE  Tracked(Answered(y), S, Z, n)
<1> DEFINE t == [y EXCEPT !.todo = Tail(@)]
<1>1. Collects(x) /\ DOMAIN y = Fields
  BY DEF Following, Resumes
<1>2. /\ t.st = x.st /\ t.ask = x.ask /\ t.leg = x.leg /\ t.at = x.at /\ t.left = x.left
      /\ t.offset = x.offset /\ t.got = x.got /\ t.stood = x.stood /\ t.seen = x.seen
      /\ t.skipped = x.skipped /\ t.gone = x.gone /\ t.cut = x.cut /\ t.grown = x.grown
      /\ DOMAIN t = Fields /\ t.todo = Tail(x.todo)
  BY <1>1 DEF Resumes, Fields
<1>3. Tail(x.todo) # << >> => Answered(y) = t
  BY DEF Answered
<1> HIDE DEF t
<1>4. Resumes(x, t)
  BY <1>2 DEF Resumes
<1>5. /\ Collects(t) /\ Of(t) = Of(x)
      /\ \A ahead : Reading(x, ahead) => Reading(t, ahead)
  BY <1>1, <1>4, ResumesCollects
<1>6. x.todo \in ZoneTodo(Of(x)) => Tail(x.todo) = <<"act">> \/ Of(x) \in {"unifi", "pihole"}
  <2> SUFFICES ASSUME x.todo \in ZoneTodo(Of(x)), Of(x) \notin {"unifi", "pihole"}
               PROVE  Tail(x.todo) = <<"act">>
    OBVIOUS
  <2>1. x.todo # <<"act">>
    OBVIOUS
  <2>2. x.todo \in {<<"zone", "act">>, <<"domains", "act">>}
    BY <2>1 DEF ZoneTodo, ToList
  <2>3. Tail(<<"zone", "act">>) = <<"act">> /\ Tail(<<"domains", "act">>) = <<"act">>
    OBVIOUS
  <2> QED
    BY <2>2, <2>3
<1>7. Tail(x.todo) # << >> /\ Following(t, S, Z, n)
  <2>1. CASE AcrossZones(x.ask)
    <3>1. Zoned(Of(x)) /\ (ZonesPaged(x, Z) \/ ZonesRead(x))
      BY <2>1 DEF Following
    <3>2. ZonesRead(x)
      BY <3>1 DEF ZonesPaged
    <3>3. Tail(x.todo) = <<"act">>
      BY <1>6, <3>1, <3>2 DEF ZonesRead, Zoned
    <3>4. ZonesRead(t)
      BY <1>2, <1>5, <3>2, <3>3 DEF ZonesRead, ZoneTodo
    <3> QED
      BY <1>2, <1>5, <2>1, <3>1, <3>3, <3>4 DEF Following
  <2>2. CASE ~AcrossZones(x.ask)
    <3>1. /\ x.at = ArgsOf(x.ask) /\ x.leg = 1
          /\ Of(x) = "unifi" => PoliciesPaged(x, S, n)
          /\ Of(x) = "pihole" => ListsRead(x)
          /\ Zoned(Of(x)) => OneRead(x)
      BY <2>2 DEF Following
    <3>2. Of(x) # "pihole"
      BY <3>1 DEF ListsRead
    <3>3. CASE Of(x) = "unifi"
      <4>1. PoliciesPaged(x, S, n)
        BY <3>1, <3>3
      <4>2. x.todo # <<"page">> /\ Tail(<<"site", "page">>) = <<"page">>
        OBVIOUS
      <4>3. x.todo = <<"site", "page">> /\ Tail(x.todo) = <<"page">>
        BY <4>1, <4>2 DEF PoliciesPaged
      <4>4. Behind(t, S, t.offset) = Behind(x, S, x.offset)
        BY <1>2 DEF Behind
      <4>5. PoliciesPaged(t, S, n)
        BY <1>2, <4>1, <4>3, <4>4 DEF PoliciesPaged
      <4> QED
        BY <1>2, <1>5, <2>2, <3>1, <3>3, <4>3, <4>5 DEF Following, Zoned
    <3>4. CASE Zoned(Of(x))
      <4>1. OneRead(x) /\ Of(x) # "unifi" /\ Of(x) # "pihole"
        BY <3>1, <3>4 DEF Zoned
      <4>2. Tail(x.todo) = <<"act">>
        BY <1>6, <4>1 DEF OneRead
      <4>3. OneRead(t) /\ ~EachDomain(t)
        BY <1>2, <1>5, <4>1, <4>2 DEF OneRead, ZoneTodo, EachDomain
      <4>4. t.ask = x.ask /\ t.at = x.at /\ t.leg = x.leg /\ Collects(t) /\ Of(t) = Of(x)
        BY <1>2, <1>5
      <4>5. /\ Of(t) = "unifi" => PoliciesPaged(t, S, n)
            /\ Of(t) = "pihole" => ListsRead(t)
            /\ Zoned(Of(t)) => IF EachDomain(t) THEN DomainsRead(t) ELSE OneRead(t)
        BY <4>1, <4>3, <4>4
      <4>6. t.at = ArgsOf(t.ask) /\ t.leg = 1 /\ ~AcrossZones(t.ask)
        BY <2>2, <3>1, <4>4
      <4>7. Tail(x.todo) # << >>
        BY <4>2
      <4> QED
        BY <4>4, <4>5, <4>6, <4>7 DEF Following
    <3> QED
      BY <1>1, <3>2, <3>3, <3>4, ListingMethods DEF Collects, VendorKind, Zoned
  <2> QED
    BY <2>1, <2>2
<1>8. IsListing(t)
  BY <1>5 DEF Collects, WellAsked, IsListing
<1> QED
  BY <1>2, <1>3, <1>7, <1>8 DEF Tracked

-----------------------------------------------------------------------------
(* The steps of a listing of one domain *)

\* A listing of one domain that collected nothing twice, only what it was
\* asked for, and all it owed of the zones that fit an answer, is complete.
LEMMA AllCollected ==
  ASSUME NEW y, Collects(y), Of(y) # "unifi", Twice(y.got) = {}, Listing1(y), Missing(y) = {}
  PROVE  Complete(y)
<1>1. ZonesOf(Twice(y.got)) = {}
  BY DEF ZonesOf
<1>2. Cardinality({}) = 0
  BY FS_EmptySet
<1>3. y.cut \in Nat /\ y.grown \in Nat /\ y.got \in Seq(y.seen)
  BY DEF Collects
<1>4. Range(y.got) \subseteq y.seen
  BY <1>3, FiniteRange
<1>5. Cardinality(ZonesOf(Twice(y.got))) = 0 /\ Cardinality(Missing(y)) = 0
  BY <1>1, <1>2
<1> QED
  BY <1>3, <1>4, <1>5 DEF Complete

\* The end of a listing that is complete.
LEMMA EndTracked ==
  ASSUME NEW y, Collects(y), Complete(y), NEW S, NEW Z, NEW n
  PROVE  Tracked(ListingEnds(y), S, Z, n)
<1>1. Complete(ListingEnds(y)) /\ ListingEnds(y).st = "done"
  BY EndsComplete DEF Collects
<1> QED
  BY <1>1 DEF Tracked

\* What a call keeps when it takes a page.
Takes(x, page, y) ==
  /\ DOMAIN y = Fields
  /\ y.st = x.st /\ y.ask = x.ask /\ y.leg = x.leg /\ y.at = x.at
  /\ y.got = x.got \o page /\ y.stood = x.stood /\ y.seen = x.seen
  /\ y.skipped = x.skipped /\ y.gone = x.gone /\ y.cut = x.cut /\ y.grown = x.grown

\* The page comes after what was collected before.
After(x, page, y) ==
  /\ Range(y.got) = Range(x.got) \cup Range(page)
  /\ Twice(y.got) = Twice(x.got) \cup (Range(x.got) \cap Range(page))
  /\ x.got = << >> => Twice(y.got) = {} /\ Range(y.got) = Range(page)

\* A page is added to what was collected, and nothing more is owed for it.
LEMMA TakesCollects ==
  ASSUME NEW x, Collects(x), NEW page \in Seq(x.seen), Twice(page) = {}, NEW y, Takes(x, page, y)
  PROVE  Collects(y) /\ Of(y) = Of(x) /\ Owed(y) = Owed(x) /\ After(x, page, y)
<1>1. PICK p, R : p = x.got /\ R = x.seen
  OBVIOUS
<1>2. p \in Seq(R) /\ page \in Seq(R)
  BY <1>1 DEF Collects
<1>3. /\ p \o page \in Seq(R) /\ Range(p \o page) = Range(p) \cup Range(page)
      /\ Twice(p \o page) = Twice(p) \cup Twice(page) \cup (Range(p) \cap Range(page))
  BY <1>2, TwiceInRow
<1>4. y.got = p \o page
  BY <1>1 DEF Takes
<1>5. p = << >> => Range(p) = {} /\ Twice(p) = {}
  BY NothingTwice
<1>6. y.got \in Seq(x.seen) /\ After(x, page, y)
  BY <1>1, <1>3, <1>4, <1>5 DEF After
<1>7. Collects(y) /\ Of(y) = Of(x)
  BY <1>6 DEF Collects, Of, Takes
<1> QED
  BY <1>6, <1>7 DEF Owed, Takes

\* What a listing of one domain retains was asked for.
LEMMA PageAsked ==
  ASSUME NEW x, Collects(x), ~AcrossZones(x.ask), Listing1(x),
         NEW page \in Seq(x.seen), Twice(page) = {}, \A r \in Range(page) : Retains(x, r),
         NEW y, Takes(x, page, y)
  PROVE  Listing1(y)
<1>1. After(x, page, y)
  BY TakesCollects
<1>2. Range(y.got) = Range(x.got) \cup Range(page)
  BY <1>1 DEF After
<1> SUFFICES ASSUME x.ask.query.all, NEW r \in Range(y.got)
             PROVE  Asks(x.ask, r)
  BY DEF Listing1, Takes
<1>3. CASE r \in Range(x.got)
  BY <1>2, <1>3 DEF Listing1
<1>4. CASE r \in Range(page)
  BY <1>2, <1>4, KeepsAsked
<1> QED
  BY <1>2, <1>3, <1>4

\* The one answer of a listing of one domain has all it was asked for.
LEMMA OneReadTracked ==
  ASSUME NEW x, NEW S, NEW Z, NEW n, Following(x, S, Z, n), Sees(x, S, Z),
         ~AcrossZones(x.ask), Zoned(Of(x)), ~EachDomain(x),
         Of(x) = "cloudflare" => ZoneName(x.at) \in Zones,
         NEW page, page = SetToSeq(KeptOf(x, AnswerTo(x, S))),
         NEW y, Takes(x, page, y)
  PROVE  Tracked(ListingEnds(y), S, Z, n)
<1>1. Collects(x) /\ x.at = ArgsOf(x.ask) /\ OneRead(x)
  BY DEF Following
<1>2. /\ x.stood \subseteq S /\ S \subseteq x.seen /\ \A r \in S : r.name \in Names
      /\ Of(x) = "cloudflare" => \A r \in S : r.id \in Nat
  BY DEF Sees, ById
<1>3. /\ page \in Seq(x.seen) /\ Twice(page) = {} /\ Range(page) = KeptOf(x, AnswerTo(x, S))
      /\ \A r \in Range(page) : Retains(x, r)
  BY <1>1, <1>2, AnswerKept
<1>4. x.got = << >> /\ WellAsked(x.ask)
  BY <1>1 DEF OneRead, Collects
<1>5. Collects(y) /\ Of(y) = Of(x) /\ Owed(y) = Owed(x) /\ After(x, page, y)
  BY <1>1, <1>3, TakesCollects
<1>6. Twice(y.got) = {} /\ Range(y.got) = Range(page)
  BY <1>4, <1>5 DEF After
<1>7. Range(x.got) = {}
  BY <1>4, NothingTwice
<1>8. Listing1(x)
  BY <1>7 DEF Listing1
<1>9. Listing1(y)
  BY <1>1, <1>3, <1>8, PageAsked
<1>10. PICK z : x.at.zones \subseteq {z}
  <2>1. CASE x.ask.query.all
    <3>1. x.at.zones = {x.at.domain}
      BY <1>1, <1>4, <2>1, ArgsOfOne
    <3> QED
      BY <3>1
  <2>2. CASE ~x.ask.query.all
    <3>1. x.at.zones = IF x.ask.query.zone THEN {x.ask.zone} ELSE {}
      BY <1>1, <1>4, <2>2, ArgsOfOne
    <3> QED
      BY <3>1
  <2> QED
    BY <2>1, <2>2
<1>11. ASSUME NEW r \in Missed(y), OneAnswer(y, ZoneOf[r.name])
       PROVE  FALSE
  <2>1. r \in Owed(x) /\ r \notin Range(page)
    BY <1>6, <1>5, <1>11 DEF Missed
  <2>2. r \in x.stood /\ Wanted(Of(x), x.ask, r)
    BY <2>1 DEF Owed
  <2>3. r \in S /\ r.name \in Names
    BY <1>2, <2>2
  <2>4. Retains(x, r)
    BY <1>1, <1>4, <2>2, <2>3, KeepsWanted
  <2>5. OneAnswer(x, ZoneOf[r.name])
    BY <1>5, <1>11 DEF OneAnswer, Takes
  <2>6. r \in KeptOf(x, AnswerTo(x, S))
    BY <1>1, <1>2, <1>10, <2>3, <2>4, <2>5, AnswerHas
  <2> QED
    BY <1>3, <2>1, <2>6
<1>12. Missing(y) = {}
  BY <1>11 DEF Missing, ZonesOf
<1>13. Complete(y)
  BY <1>6, <1>5, <1>9, <1>12, AllCollected DEF Zoned
<1> QED
  BY <1>5, <1>13, EndTracked

\* Pangolin's domains, when they were fetched,
LEMMA DomainsFetched ==
  ASSUME NEW x, NEW S, NEW Z, NEW n, Following(x, S, Z, n), x.st = "busy", Sees(x, S, Z),
         ~AcrossZones(x.ask), EachDomain(x), Head(x.todo) = "domains",
         NEW zs, zs = SetToSeq(Z),
         NEW y, y = [x EXCEPT !.todo = [i \in DOMAIN zs |-> "act"], !.left = zs]
  PROVE  Tracked(IF zs = << >> THEN ListingEnds(x) ELSE y, S, Z, n)
<1>1. Of(x) = "pangolin" /\ Zoned(Of(x)) /\ Of(x) # "unifi"
  BY DEF EachDomain, Zoned
<1>2. Collects(x) /\ x.at = ArgsOf(x.ask) /\ x.leg = 1 /\ DomainsRead(x)
  BY <1>1 DEF Following
<1>3. x.skipped = {} /\ x.got = << >>
  <2>1. ASSUME x.todo \in Seq({"act"}), Len(x.todo) = Len(x.left), x.left # << >>,
               x.left \in Seq(Zones)
        PROVE  FALSE
    <3>1. Len(x.left) > 0
      BY <2>1
    <3>2. Head(x.todo) \in {"act"}
      BY <2>1, <3>1
    <3> QED
      BY <3>2
  <2> QED
    BY <1>2, <2>1 DEF DomainsRead
<1>4. Range(x.got) = {} /\ Twice(x.got) = {} /\ Listing1(x) /\ ZonesOf(Range(x.got)) = {}
  BY <1>3, NothingTwice DEF Listing1, ZonesOf
<1>5. /\ Z \in SUBSET Zones /\ IsFiniteSet(Z) /\ x.stood \subseteq S /\ ZonesOf(S) \subseteq Z
  BY <1>1 DEF Sees
<1>6. zs \in Seq(Z) /\ Range(zs) = Z /\ Twice(zs) = {} /\ DOMAIN zs = 1..Cardinality(Z)
  BY <1>5, InSomeOrder
<1>7. \A r \in Owed(x) : ZoneOf[r.name] \in Z
  BY <1>5 DEF Owed, ZonesOf
<1>8. CASE zs = << >>
  <2>1. Z = {}
    BY <1>6, <1>8, NothingTwice
  <2>2. Missing(x) = {}
    BY <1>7, <2>1 DEF Missing, Missed, ZonesOf
  <2>3. Complete(x)
    BY <1>1, <1>2, <1>4, <2>2, AllCollected
  <2> QED
    BY <1>2, <1>8, <2>3, EndTracked
<1>9. CASE zs # << >>
  <2>1. DOMAIN x = Fields
    BY <1>2 DEF Collects
  <2>2. PICK todo : todo = [i \in DOMAIN zs |-> "act"]
    OBVIOUS
  <2>3. todo \in Seq({"act"}) /\ Len(todo) = Len(zs)
    <3>1. Len(zs) \in Nat /\ DOMAIN zs = 1..Len(zs)
      BY <1>6
    <3> QED
      BY <2>2, <3>1
  <2>4. /\ y.todo = todo /\ y.left = zs /\ y.st = x.st /\ y.ask = x.ask /\ y.at = x.at
        /\ y.leg = x.leg /\ y.got = x.got /\ y.stood = x.stood /\ y.seen = x.seen
        /\ y.skipped = x.skipped /\ y.gone = x.gone /\ y.cut = x.cut /\ y.grown = x.grown
        /\ DOMAIN y = Fields
    BY <2>1, <2>2 DEF Fields
  <2>5. Collects(y) /\ Of(y) = Of(x) /\ Owed(y) = Owed(x) /\ EachDomain(y)
    BY <1>2, <2>4 DEF Collects, Of, Owed, EachDomain
  <2>6. zs \in Seq(Zones)
    BY <1>5, <1>6
  <2>7. Listing1(y)
    BY <1>4, <2>4 DEF Listing1
  <2>8. DomainsRead(y)
    BY <1>3, <1>4, <1>6, <1>7, <1>9, <2>3, <2>4, <2>5, <2>6, <2>7 DEF DomainsRead
  <2>9. Of(y) # "pihole" /\ Of(y) # "unifi"
    BY <1>1, <2>5
  <2>10. Following(y, S, Z, n)
    BY <1>2, <2>4, <2>5, <2>8, <2>9 DEF Following
  <2>11. IsListing(y)
    BY <2>5 DEF Collects, WellAsked, IsListing
  <2> QED
    BY <1>9, <2>4, <2>10, <2>11 DEF Tracked
<1> QED
  BY <1>8, <1>9

\* and the records of one of them, when they were read.
LEMMA DomainReadTracked ==
  ASSUME NEW x, NEW S, NEW Z, NEW n, Following(x, S, Z, n), x.st = "busy", Sees(x, S, Z),
         ~AcrossZones(x.ask), EachDomain(x), Head(x.todo) = "act",
         NEW page, page = SetToSeq(KeptOf(x, AnswerTo(x, S))),
         NEW y, Takes(x, page, y), y.todo = x.todo, y.left = Tail(x.left)
  PROVE  Tracked(Answered(y), S, Z, n)
<1>1. Of(x) = "pangolin" /\ Zoned(Of(x)) /\ Of(x) # "unifi" /\ Of(x) # "pihole"
      /\ Of(x) # "cloudflare"
  BY DEF EachDomain, Zoned
<1>2. Collects(x) /\ x.at = ArgsOf(x.ask) /\ x.leg = 1 /\ DomainsRead(x) /\ WellAsked(x.ask)
  BY <1>1 DEF Following, Collects
<1>3. /\ x.todo \in Seq({"act"}) /\ Len(x.todo) = Len(x.left) /\ x.left # << >>
      /\ x.left \in Seq(Zones) /\ Twice(x.left) = {} /\ Twice(x.got) = {} /\ x.skipped = {}
      /\ ZonesOf(Range(x.got)) \cap Range(x.left) = {}
      /\ Listing1(x)
      /\ \A r \in Owed(x) : r \in Range(x.got) \/ ZoneOf[r.name] \in Range(x.left)
  <2>1. x.todo # <<"domains", "act">>
    OBVIOUS
  <2> QED
    BY <1>2, <2>1 DEF DomainsRead
<1> DEFINE z == Head(x.left)
           rest == Tail(x.left)
<1>4. /\ z \in Zones /\ rest \in Seq(Zones) /\ Len(rest) = Len(x.left) - 1
      /\ Range(x.left) = {z} \cup Range(rest)
      /\ Twice(x.left) = Twice(rest) \cup ({z} \cap Range(rest))
  BY <1>3, HeadFirst
<1>5. Range(x.left) = {z} \cup Range(rest) /\ Twice(rest) = {} /\ z \notin Range(rest)
  BY <1>3, <1>4
<1>6. /\ x.stood \subseteq S /\ S \subseteq x.seen /\ \A r \in S : r.name \in Names
  BY DEF Sees
<1>7. /\ page \in Seq(x.seen) /\ Twice(page) = {} /\ Range(page) = KeptOf(x, AnswerTo(x, S))
      /\ \A r \in Range(page) : Retains(x, r)
  BY <1>2, <1>6, AnswerKept
<1>8. \A r \in Range(page) : ZoneOf[r.name] = z
  BY <1>2, <1>6, AnswerKept
<1>9. y.left = rest /\ y.got = x.got \o page /\ y.skipped = {} /\ y.ask = x.ask /\ y.at = x.at
      /\ y.leg = 1 /\ DOMAIN y = Fields /\ y.st = "busy"
  BY <1>2, <1>3 DEF Takes
<1> HIDE DEF z, rest
<1>10. Collects(y) /\ Of(y) = Of(x) /\ Owed(y) = Owed(x) /\ After(x, page, y)
  BY <1>2, <1>7, TakesCollects
<1>11. /\ Range(y.got) = Range(x.got) \cup Range(page)
       /\ Twice(y.got) = Twice(x.got) \cup (Range(x.got) \cap Range(page))
  BY <1>10 DEF After
<1>12. Listing1(y)
  BY <1>2, <1>3, <1>7, PageAsked
<1>13. Twice(y.got) = {}
  <2>1. ASSUME NEW r \in Range(x.got) \cap Range(page)
        PROVE  FALSE
    <3>1. ZoneOf[r.name] = z /\ z \in ZonesOf(Range(x.got))
      BY <1>8, <2>1 DEF ZonesOf
    <3> QED
      BY <1>3, <1>5, <3>1
  <2> QED
    BY <1>3, <1>11, <2>1
<1>14. ZonesOf(Range(y.got)) \cap Range(rest) = {}
  <2>1. ZonesOf(Range(y.got)) \subseteq ZonesOf(Range(x.got)) \cup {z}
    BY <1>8, <1>11 DEF ZonesOf
  <2> QED
    BY <1>3, <1>5, <2>1
<1>15. ASSUME NEW r \in Owed(y)
       PROVE  r \in Range(y.got) \/ ZoneOf[r.name] \in Range(rest)
  <2>1. CASE ZoneOf[r.name] = z
    <3>1. r \in x.stood /\ Wanted(Of(x), x.ask, r)
      BY <1>10, <1>15 DEF Owed
    <3>2. r \in S /\ r.name \in Names
      BY <1>6, <3>1
    <3>3. Retains(x, r)
      BY <1>1, <1>2, <3>1, <3>2, KeepsWanted
    <3>4. OneAnswer(x, ZoneOf[r.name]) /\ x.at.zones \subseteq {z}
      BY <1>1 DEF OneAnswer, EachDomain
    <3>5. r \in KeptOf(x, AnswerTo(x, S))
      BY <1>1, <1>2, <1>6, <2>1, <3>2, <3>3, <3>4, AnswerHas DEF z
    <3> QED
      BY <1>7, <1>11, <3>5
  <2>2. CASE ZoneOf[r.name] # z
    BY <1>3, <1>5, <1>11, <1>10, <1>15, <2>2
  <2> QED
    BY <2>1, <2>2
<1>16. /\ Tail(x.todo) \in Seq({"act"}) /\ Len(Tail(x.todo)) = Len(rest)
       /\ Tail(x.todo) = << >> <=> rest = << >>
  <2>1. x.todo # << >>
    BY <1>3
  <2>2. Tail(x.todo) \in Seq({"act"}) /\ Len(Tail(x.todo)) = Len(x.todo) - 1
    BY <1>3, <2>1, HeadAhead
  <2>3. Len(Tail(x.todo)) = Len(rest)
    <3>1. Len(x.todo) = Len(x.left)
      BY <1>3
    <3>2. Len(rest) = Len(x.left) - 1
      BY <1>4
    <3> QED
      BY <2>2, <3>1, <3>2
  <2>4. Tail(x.todo) = << >> <=> Len(Tail(x.todo)) = 0
    <3>1. PICK q : q = Tail(x.todo)
      OBVIOUS
    <3>2. q \in Seq({"act"})
      BY <2>2, <3>1
    <3>3. q = << >> <=> Len(q) = 0
      BY <3>2
    <3> QED
      BY <3>1, <3>3
  <2>5. rest = << >> <=> Len(rest) = 0
    <3>1. rest \in Seq(Zones)
      BY <1>4
    <3> QED
      BY <3>1
  <2> QED
    BY <2>2, <2>3, <2>4, <2>5
<1>17. y.ask.op = "list_records" /\ ~IsTransfer(y.ask) /\ IsListing(y)
  BY <1>2, <1>9 DEF WellAsked, IsTransfer, IsListing
<1>18. CASE rest = << >>
  <2>1. Answered(y) = ListingEnds(y)
    BY <1>9, <1>16, <1>17, <1>18 DEF Answered
  <2>2. Missing(y) = {}
    BY <1>15, <1>18, NothingTwice DEF Missing, Missed, ZonesOf
  <2>3. Complete(y)
    BY <1>1, <1>10, <1>12, <1>13, <2>2, AllCollected
  <2> QED
    BY <1>10, <2>1, <2>3, EndTracked
<1>19. CASE rest # << >>
  <2> DEFINE t == [y EXCEPT !.todo = Tail(@)]
  <2>1. Answered(y) = t
    BY <1>16, <1>19 DEF Answered
  <2>2. /\ t.st = "busy" /\ t.ask = y.ask /\ t.leg = 1 /\ t.at = y.at /\ t.left = rest
        /\ t.offset = y.offset /\ t.got = y.got /\ t.stood = y.stood /\ t.seen = y.seen
        /\ t.skipped = {} /\ t.gone = y.gone /\ t.cut = y.cut /\ t.grown = y.grown
        /\ DOMAIN t = Fields /\ t.todo = Tail(x.todo)
    BY <1>9 DEF Fields
  <2> HIDE DEF t
  <2>3. Collects(t) /\ Of(t) = Of(y) /\ Owed(t) = Owed(y) /\ Listing1(t) /\ EachDomain(t)
    BY <1>9, <1>10, <1>12, <2>2 DEF Collects, Of, Owed, Listing1, EachDomain
  <2>4. DomainsRead(t)
    BY <1>4, <1>5, <1>13, <1>14, <1>15, <1>16, <1>19, <2>2, <2>3 DEF DomainsRead
  <2>5. t.at = ArgsOf(t.ask) /\ ~AcrossZones(t.ask) /\ Of(t) = "pangolin" /\ IsListing(t)
    BY <1>1, <1>2, <1>9, <1>10, <1>17, <2>2, <2>3 DEF IsListing
  <2>6. Following(t, S, Z, n)
    BY <2>2, <2>3, <2>4, <2>5 DEF Following
  <2> QED
    BY <2>1, <2>2, <2>5, <2>6 DEF Tracked
<1> QED
  BY <1>18, <1>19

-----------------------------------------------------------------------------
(* The steps of a listing at Pi-hole *)

\* What Pi-hole has in one of its lists.
ListOf(S, hosts) == {r \in S : hosts <=> r.data.type \in P!HostTypes}

\* The addresses were read.
LEMMA HostsRead ==
  ASSUME NEW x, NEW S, NEW Z, NEW n, Following(x, S, Z, n), x.st = "busy", Sees(x, S, Z),
         Of(x) = "pihole", ~AcrossZones(x.ask), Head(x.todo) = "hosts",
         NEW page, page = SetToSeq(KeptOf(x, ListOf(S, TRUE))),
         NEW y, Takes(x, page, y), y.todo = x.todo
  PROVE  Tracked(Answered(y), S, Z, n)
<1>1. /\ Collects(x) /\ x.at = ArgsOf(x.ask) /\ x.leg = 1 /\ ListsRead(x) /\ WellAsked(x.ask)
  BY DEF Following, Collects
<1>2. x.todo = <<"hosts", "cnames">> /\ x.got = << >> /\ x.skipped = {}
  <2>1. x.todo # <<"cnames">>
    OBVIOUS
  <2> QED
    BY <1>1, <2>1 DEF ListsRead
<1>3. x.stood \subseteq S /\ S \subseteq x.seen /\ \A r \in S : r.name \in Names
  BY DEF Sees
<1>4. ListOf(S, TRUE) \subseteq x.seen /\ \A r \in ListOf(S, TRUE) : r.data.type \in P!HostTypes
  BY <1>3 DEF ListOf
<1>5. /\ page \in Seq(x.seen) /\ Twice(page) = {} /\ Range(page) = KeptOf(x, ListOf(S, TRUE))
      /\ \A r \in Range(page) : r \in ListOf(S, TRUE) /\ Retains(x, r)
  BY <1>1, <1>4, KeptInOrder
<1>6. y.got = x.got \o page /\ y.skipped = {} /\ y.ask = x.ask /\ y.at = x.at
      /\ y.leg = 1 /\ DOMAIN y = Fields /\ y.st = "busy"
  BY <1>1, <1>2 DEF Takes
<1>7. Collects(y) /\ Of(y) = Of(x) /\ Owed(y) = Owed(x) /\ After(x, page, y)
  BY <1>1, <1>5, TakesCollects
<1>8. Twice(y.got) = {} /\ Range(y.got) = Range(page)
  BY <1>2, <1>7 DEF After
<1>9. Listing1(x)
  BY <1>2, NothingTwice DEF Listing1
<1>10. Listing1(y)
  BY <1>1, <1>5, <1>9, PageAsked
<1>11. ASSUME NEW r \in Owed(y), r.data.type \in P!HostTypes
       PROVE  r \in Range(y.got)
  <2>1. r \in x.stood /\ Wanted(Of(x), x.ask, r)
    BY <1>7, <1>11 DEF Owed
  <2>2. r \in S /\ r.name \in Names
    BY <1>3, <2>1
  <2>3. Retains(x, r)
    BY <1>1, <2>1, <2>2, KeepsWanted
  <2>4. r \in KeptOf(x, ListOf(S, TRUE))
    BY <1>11, <2>2, <2>3 DEF KeptOf, ListOf
  <2> QED
    BY <1>5, <1>8, <2>4
<1> DEFINE t == [y EXCEPT !.todo = Tail(@)]
<1>12. Tail(x.todo) = <<"cnames">>
  BY <1>2
<1>13. Answered(y) = t
  BY <1>12 DEF Answered
<1>14. /\ t.st = "busy" /\ t.ask = x.ask /\ t.leg = 1 /\ t.at = x.at
       /\ t.got = y.got /\ t.stood = y.stood /\ t.seen = y.seen
       /\ t.skipped = y.skipped /\ t.gone = y.gone /\ t.cut = y.cut /\ t.grown = y.grown
       /\ DOMAIN t = Fields /\ t.todo = <<"cnames">>
  BY <1>6, <1>12 DEF Fields
<1> HIDE DEF t
<1>15. Collects(t) /\ Of(t) = Of(y) /\ Owed(t) = Owed(y) /\ Listing1(t)
  BY <1>6, <1>7, <1>10, <1>14 DEF Collects, Of, Owed, Listing1
<1>16. ListsRead(t)
  BY <1>4, <1>5, <1>6, <1>8, <1>11, <1>14, <1>15 DEF ListsRead
<1>17. ~AcrossZones(t.ask) /\ t.at = ArgsOf(t.ask) /\ Of(t) = "pihole"
       /\ Of(t) # "unifi" /\ ~Zoned(Of(t)) /\ IsListing(t)
  BY <1>1, <1>7, <1>14, <1>15 DEF Zoned, IsListing, WellAsked
<1>18. Following(t, S, Z, n)
  BY <1>14, <1>15, <1>16, <1>17 DEF Following
<1> QED
  BY <1>13, <1>14, <1>17, <1>18 DEF Tracked

\* The aliases were read.
LEMMA AliasesRead ==
  ASSUME NEW x, NEW S, NEW Z, NEW n, Following(x, S, Z, n), x.st = "busy", Sees(x, S, Z),
         Of(x) = "pihole", ~AcrossZones(x.ask), Head(x.todo) = "cnames",
         NEW page, page = SetToSeq(KeptOf(x, ListOf(S, FALSE))),
         NEW y, Takes(x, page, y), y.todo = x.todo
  PROVE  Tracked(Answered(y), S, Z, n)
<1>1. /\ Collects(x) /\ x.at = ArgsOf(x.ask) /\ x.leg = 1 /\ ListsRead(x) /\ WellAsked(x.ask)
  BY DEF Following, Collects
<1>2. /\ x.todo = <<"cnames">> /\ x.skipped = {} /\ Twice(x.got) = {} /\ Listing1(x)
      /\ \A g \in Range(x.got) : g.data.type \in P!HostTypes
      /\ \A r \in Owed(x) : r.data.type \in P!HostTypes => r \in Range(x.got)
  <2>1. x.todo # <<"hosts", "cnames">>
    OBVIOUS
  <2> QED
    BY <1>1, <2>1 DEF ListsRead
<1>3. x.stood \subseteq S /\ S \subseteq x.seen /\ \A r \in S : r.name \in Names
  BY DEF Sees
<1>4. /\ ListOf(S, FALSE) \subseteq x.seen
      /\ \A r \in ListOf(S, FALSE) : r.data.type \notin P!HostTypes
  BY <1>3 DEF ListOf
<1>5. /\ page \in Seq(x.seen) /\ Twice(page) = {} /\ Range(page) = KeptOf(x, ListOf(S, FALSE))
      /\ \A r \in Range(page) : r \in ListOf(S, FALSE) /\ Retains(x, r)
  BY <1>1, <1>4, KeptInOrder
<1>6. y.got = x.got \o page /\ y.ask = x.ask /\ DOMAIN y = Fields
  BY DEF Takes
<1>7. Collects(y) /\ Of(y) = Of(x) /\ Owed(y) = Owed(x) /\ After(x, page, y)
  BY <1>1, <1>5, TakesCollects
<1>8. /\ Range(y.got) = Range(x.got) \cup Range(page)
      /\ Twice(y.got) = Twice(x.got) \cup (Range(x.got) \cap Range(page))
  BY <1>7 DEF After
<1>9. Twice(y.got) = {}
  BY <1>2, <1>4, <1>5, <1>8
<1>10. Listing1(y)
  BY <1>1, <1>2, <1>5, PageAsked
<1>11. ASSUME NEW r \in Owed(y)
       PROVE  r \in Range(y.got)
  <2>1. CASE r.data.type \in P!HostTypes
    BY <1>2, <1>8, <1>7, <1>11, <2>1
  <2>2. CASE r.data.type \notin P!HostTypes
    <3>1. r \in x.stood /\ Wanted(Of(x), x.ask, r)
      BY <1>7, <1>11 DEF Owed
    <3>2. r \in S /\ r.name \in Names
      BY <1>3, <3>1
    <3>3. Retains(x, r)
      BY <1>1, <3>1, <3>2, KeepsWanted
    <3>4. r \in KeptOf(x, ListOf(S, FALSE))
      BY <2>2, <3>2, <3>3 DEF KeptOf, ListOf
    <3> QED
      BY <1>5, <1>8, <3>4
  <2> QED
    BY <2>1, <2>2
<1>12. Missing(y) = {}
  BY <1>11 DEF Missing, Missed, ZonesOf
<1>13. Complete(y)
  BY <1>9, <1>7, <1>10, <1>12, AllCollected
<1>14. y.todo = <<"cnames">> /\ y.ask.op = "list_records" /\ ~IsTransfer(y.ask)
  BY <1>1, <1>2, <1>6 DEF WellAsked, IsTransfer
<1>15. Answered(y) = ListingEnds(y)
  BY <1>6, <1>14 DEF Answered
<1> QED
  BY <1>7, <1>13, <1>15, EndTracked

-----------------------------------------------------------------------------
(* The steps of a listing at UniFi *)

\* Of the pages a listing keeps what it retains, in the order it was in.
LEMMA KeptPagesOf ==
  ASSUME NEW x, NEW R, NEW got \in Seq(R), NEW kept, kept = KeptPages(x, got)
  PROVE  /\ kept \in Seq(R) /\ Range(kept) = {g \in Range(got) : Retains(x, g)}
         /\ Twice(got) = {} => Twice(kept) = {}
<1> DEFINE I == {i \in DOMAIN got : Retains(x, got[i])}
           place == SetToSeq(I)
<1>1. DOMAIN got = 1..Len(got) /\ Len(got) \in Nat /\ \A i \in 1..Len(got) : got[i] \in R
  OBVIOUS
<1>2. IsFiniteSet(I)
  <2>1. IsFiniteSet(1..Len(got)) /\ I \subseteq 1..Len(got)
    BY <1>1, FS_Interval
  <2> QED
    BY <2>1, FS_Subset
<1>3. kept = [j \in DOMAIN place |-> got[place[j]]]
  BY DEF KeptPages
<1>4. /\ place \in Seq(I) /\ Range(place) = I /\ DOMAIN place = 1..Cardinality(I)
      /\ \A i, j \in DOMAIN place : place[i] = place[j] => i = j
  BY <1>2, InSomeOrder
<1>5. Cardinality(I) \in Nat
  BY <1>2, FS_CardinalityType
<1> HIDE DEF place
<1>6. \A j \in DOMAIN place : place[j] \in I
  BY <1>4 DEF Range
<1>7. \A i \in I : \E j \in DOMAIN place : place[j] = i
  BY <1>4 DEF Range
<1>8. I \subseteq 1..Len(got) /\ \A i \in I : got[i] \in R /\ Retains(x, got[i])
  BY <1>1
<1>9. kept \in Seq(R)
  <2>1. \A j \in DOMAIN place : got[place[j]] \in R
    BY <1>6, <1>8
  <2>2. PICK m \in Nat : m = Cardinality(I)
    BY <1>5
  <2>3. kept \in [1..m -> R]
    BY <1>3, <1>4, <2>1, <2>2
  <2> QED
    BY <2>3
<1>10. Range(kept) = {g \in Range(got) : Retains(x, g)}
  <2>1. ASSUME NEW g \in Range(kept)
        PROVE  g \in Range(got) /\ Retains(x, g)
    <3>1. PICK j \in DOMAIN place : g = got[place[j]]
      BY <1>3 DEF Range
    <3> QED
      BY <1>1, <1>6, <1>8, <3>1 DEF Range
  <2>2. ASSUME NEW g \in Range(got), Retains(x, g)
        PROVE  g \in Range(kept)
    <3>1. PICK i \in DOMAIN got : g = got[i]
      BY DEF Range
    <3>2. i \in I
      BY <2>2, <3>1
    <3> QED
      BY <1>3, <1>7, <3>1, <3>2 DEF Range
  <2> QED
    BY <2>1, <2>2
<1>11. ASSUME NEW e \in Twice(kept)
       PROVE  e \in Twice(got)
  <2>1. PICK i, j \in DOMAIN place : i < j /\ got[place[i]] = e /\ got[place[j]] = e
    BY <1>3 DEF Twice
  <2>2. place[i] \in 1..Len(got) /\ place[j] \in 1..Len(got)
    BY <1>6, <1>8
  <2>3. place[i] # place[j]
    BY <1>4, <1>5, <2>1
  <2>4. place[i] < place[j] \/ place[j] < place[i]
    BY <1>1, <2>2, <2>3
  <2> QED
    BY <1>1, <2>1, <2>2, <2>4 DEF Twice, Range
<1> QED
  BY <1>9, <1>10, <1>11

\* A page of policies up to k: nothing of it was collected before, and of what
\* is behind it no more is missing than before.
PagedTo(x, S, n, page, y, k) ==
  /\ y.got \in Seq(x.seen) /\ Twice(y.got) = {} /\ Len(y.got) = k /\ k \in Nat
  /\ \A g \in Range(y.got) : g.id \in Nat /\ g.id < n /\ Below(S, g.id) <= k
  /\ Cardinality(Behind(y, S, k) \ Range(y.got)) <= x.gone
  /\ IsFiniteSet(Behind(y, S, k) \ Range(y.got))
  /\ Len(page) < PageSize \/ k >= Cardinality(S) => S \cap x.stood \subseteq Behind(y, S, k)

\* A page of policies is read after the pages before it.
LEMMA PoliciesFetched ==
  ASSUME NEW x, Collects(x), NEW S, NEW n, PoliciesPaged(x, S, n), x.stood \subseteq S,
         OwnIds(S), \A r \in S : r.id < n,
         NEW page \in PagesOf(S, x.offset), NEW k, k = x.offset + Len(page),
         NEW y, y.stood = x.stood, y.got = x.got \o page, S \subseteq x.seen
  PROVE  PagedTo(x, S, n, page, y, k)
<1>1. /\ Twice(x.got) = {} /\ x.offset = Len(x.got) /\ x.offset \in Nat
      /\ \A g \in Range(x.got) : g.id \in Nat /\ g.id < n /\ Below(S, g.id) <= x.offset
      /\ Cardinality(Behind(x, S, x.offset) \ Range(x.got)) <= x.gone
      /\ x.got \in Seq(x.seen) /\ x.gone \in Nat
  <2>1. x.got \in Seq(x.seen)
    BY DEF Collects
  <2>2. Len(x.got) \in Nat
    BY <2>1
  <2> QED
    BY <2>1, <2>2 DEF PoliciesPaged, Collects
<1>2. /\ page \in Seq(S) /\ Len(page) \in 0..PageSize /\ Twice(page) = {}
      /\ Range(page) = {r \in S : Rank(S, r) \in x.offset..(x.offset + Len(page) - 1)}
      /\ \A r \in S : Rank(S, r) \in Nat /\ Rank(S, r) < Cardinality(S)
      /\ Len(page) < PageSize => \A r \in S : Rank(S, r) < x.offset + Len(page)
  <2>1. PICK o \in Nat : o = x.offset
    BY <1>1
  <2>2. page \in PagesOf(S, o)
    BY <2>1
  <2> QED
    BY <2>1, <2>2, PoliciesOnPage
<1>3. \A r \in S : Below(S, r.id) = Rank(S, r) + 1 /\ r.id \in Nat
  BY BelowRank DEF OwnIds
<1>4. PageSize \in Nat /\ Len(page) \in Nat /\ k \in Nat /\ x.offset <= k
  BY <1>1, <1>2, OperationsAssumption
<1>5. \A r \in S : /\ r \in Range(page) <=> Below(S, r.id) > x.offset /\ Below(S, r.id) <= k
                   /\ Below(S, r.id) \in Nat
  BY <1>1, <1>2, <1>3, <1>4
<1>6. page \in Seq(x.seen) /\ Range(page) \subseteq S
  BY <1>2
<1>7. PICK p, q, R : p = x.got /\ q = page /\ R = x.seen
  OBVIOUS
<1>8. p \in Seq(R) /\ q \in Seq(R)
  BY <1>1, <1>6, <1>7
<1>9. /\ p \o q \in Seq(R) /\ Range(p \o q) = Range(p) \cup Range(q)
      /\ Twice(p \o q) = Twice(p) \cup Twice(q) \cup (Range(p) \cap Range(q))
      /\ Len(p \o q) = Len(p) + Len(q)
  <2>1. Len(p \o q) = Len(p) + Len(q)
    BY <1>8
  <2> QED
    BY <1>8, <2>1, TwiceInRow
<1>10. /\ y.got \in Seq(x.seen) /\ Range(y.got) = Range(x.got) \cup Range(page)
       /\ Twice(y.got) = Range(x.got) \cap Range(page) /\ Len(y.got) = k
  <2>1. y.got = p \o q /\ Twice(p) = {} /\ Twice(q) = {} /\ Len(p) + Len(q) = k
    BY <1>1, <1>2, <1>7
  <2> QED
    BY <1>7, <1>9, <2>1
<1>11. Twice(y.got) = {}
  <2>1. ASSUME NEW g \in Range(x.got) \cap Range(page)
        PROVE  FALSE
    <3>1. Below(S, g.id) <= x.offset
      BY <1>1, <2>1
    <3>2. Below(S, g.id) > x.offset /\ Below(S, g.id) \in Nat
      BY <1>5, <1>6, <2>1
    <3> QED
      BY <1>1, <3>1, <3>2
  <2> QED
    BY <1>10, <2>1
<1>12. ASSUME NEW g \in Range(y.got)
       PROVE  g.id \in Nat /\ g.id < n /\ Below(S, g.id) <= k
  <2>1. CASE g \in Range(page)
    BY <1>3, <1>5, <1>6, <2>1
  <2>2. CASE g \in Range(x.got)
    <3>1. Below(S, g.id) <= x.offset /\ g.id \in Nat /\ g.id < n
      BY <1>1, <2>2
    <3>2. Below(S, g.id) \in Nat
      <4>1. \A j \in Ids(S) : j \in Nat
        BY <1>3 DEF Ids
      <4>2. {j \in Ids(S) : j <= g.id} \subseteq 0..g.id
        BY <3>1, <4>1
      <4>3. IsFiniteSet(0..g.id)
        BY <3>1, FS_Interval
      <4>4. IsFiniteSet({j \in Ids(S) : j <= g.id})
        BY <4>2, <4>3, FS_Subset
      <4> QED
        BY <4>4, FS_CardinalityType DEF Below
    <3> QED
      BY <1>1, <1>4, <3>1, <3>2
  <2> QED
    BY <1>10, <2>1, <2>2
<1>13. Behind(y, S, k) \ Range(y.got) \subseteq Behind(x, S, x.offset) \ Range(x.got)
  <2> SUFFICES ASSUME NEW r \in Behind(y, S, k), r \notin Range(y.got)
               PROVE  r \in Behind(x, S, x.offset) /\ r \notin Range(x.got)
    OBVIOUS
  <2>1. r \in x.stood /\ r \in S /\ Below(S, r.id) <= k /\ r \notin Range(page)
    BY <1>10 DEF Behind
  <2>2. Below(S, r.id) <= x.offset
    BY <1>1, <1>5, <2>1
  <2> QED
    BY <1>10, <2>1, <2>2 DEF Behind
<1>14. IsFiniteSet(Behind(x, S, x.offset) \ Range(x.got))
  <2>1. Behind(x, S, x.offset) \ Range(x.got) \subseteq x.stood
    BY DEF Behind
  <2> QED
    BY <2>1, OwedStood, FS_Subset DEF Collects
<1>15. /\ IsFiniteSet(Behind(y, S, k) \ Range(y.got))
       /\ Cardinality(Behind(y, S, k) \ Range(y.got)) <= x.gone
  BY <1>1, <1>13, <1>14, NoMore
<1>16. ASSUME Len(page) < PageSize \/ k >= Cardinality(S), NEW r \in S \cap x.stood
       PROVE  r \in Behind(y, S, k)
  <2>1. Rank(S, r) < k
    <3>1. CASE Len(page) < PageSize
      BY <1>2, <3>1
    <3>2. CASE k >= Cardinality(S)
      <4>1. Rank(S, r) < Cardinality(S) /\ Rank(S, r) \in Nat /\ Cardinality(S) \in Nat
        BY <1>2, FS_CardinalityType DEF OwnIds
      <4> QED
        BY <1>4, <3>2, <4>1
    <3> QED
      BY <1>16, <3>1, <3>2
  <2>2. Below(S, r.id) <= k
    BY <1>2, <1>3, <1>4, <2>1
  <2> QED
    BY <2>2 DEF Behind
<1> QED
  BY <1>4, <1>10, <1>11, <1>12, <1>15, <1>16 DEF PagedTo

\* What a listing sees at UniFi are policies under ids of their own.
LEMMA PoliciesSeen ==
  ASSUME NEW x, Collects(x), NEW S, NEW Z, Sees(x, S, Z), Of(x) = "unifi"
  PROVE  /\ x.stood \subseteq S /\ S \subseteq x.seen /\ OwnIds(S)
         /\ \A r \in S : r.name \in Names
<1>1. /\ x.stood \subseteq S /\ S \subseteq x.seen /\ \A r \in S : r.name \in Names
      /\ \A q, r \in S : q.id \in Nat /\ (q.id = r.id => q = r)
  BY DEF Sees, ById
<1>2. IsFiniteSet(S)
  BY <1>1, FS_Subset DEF Collects
<1> QED
  BY <1>1, <1>2 DEF OwnIds

\* With a page of policies that is not the last the listing goes on,
LEMMA PageTracked ==
  ASSUME NEW x, NEW S, NEW Z, NEW n, Following(x, S, Z, n), x.st = "busy", Sees(x, S, Z),
         ~AcrossZones(x.ask), Of(x) = "unifi", x.todo = <<"page">>, \A r \in S : r.id < n,
         NEW page \in PagesOf(S, x.offset), NEW y, Takes(x, page, y), y.todo = x.todo,
         y.offset = x.offset + Len(page)
  PROVE  Tracked(y, S, Z, n)
<1>1. Collects(x) /\ x.at = ArgsOf(x.ask) /\ x.leg = 1 /\ PoliciesPaged(x, S, n)
  BY DEF Following
<1>2. /\ x.stood \subseteq S /\ S \subseteq x.seen /\ OwnIds(S)
  BY <1>1, PoliciesSeen
<1>3. y.stood = x.stood /\ y.got = x.got \o page
  BY DEF Takes
<1>4. PICK k : k = x.offset + Len(page)
  OBVIOUS
<1>5. PagedTo(x, S, n, page, y, k)
  BY <1>1, <1>2, <1>3, <1>4, PoliciesFetched
<1>6. /\ y.leg = x.leg /\ y.at = x.at /\ y.ask = x.ask /\ y.st = x.st /\ y.skipped = x.skipped
      /\ y.gone = x.gone /\ y.offset = k /\ y.todo = <<"page">>
  BY <1>4 DEF Takes
<1>7. y.todo # <<"site", "page">>
  BY <1>6
<1>8. PoliciesPaged(y, S, n)
  BY <1>1, <1>5, <1>6, <1>7 DEF PoliciesPaged, PagedTo
<1>9. Collects(y)
  BY <1>1, <1>5 DEF Collects, Takes, PagedTo
<1>10. Of(y) = "unifi" /\ ~Zoned(Of(y)) /\ Of(y) # "pihole"
  BY <1>6 DEF Of, Zoned
<1>11. Following(y, S, Z, n)
  BY <1>1, <1>6, <1>8, <1>9, <1>10 DEF Following
<1>12. IsListing(y)
  BY <1>9 DEF Collects, WellAsked, IsListing
<1> QED
  BY <1>6, <1>11, <1>12 DEF Tracked

\* and with the last it has what it owes.
LEMMA PagesEndTracked ==
  ASSUME NEW x, NEW S, NEW Z, NEW n, Following(x, S, Z, n), Sees(x, S, Z),
         ~AcrossZones(x.ask), Of(x) = "unifi", x.todo = <<"page">>, \A r \in S : r.id < n,
         NEW page \in PagesOf(S, x.offset), NEW y, Takes(x, page, y), y.todo = x.todo,
         Len(page) < PageSize \/ Len(y.got) >= Cardinality(S),
         NEW e, e = [y EXCEPT !.got = KeptPages(y, y.got)]
  PROVE  Tracked(Answered(e), S, Z, n)
<1>1. Collects(x) /\ x.at = ArgsOf(x.ask) /\ PoliciesPaged(x, S, n) /\ x.skipped = {}
  BY DEF Following, PoliciesPaged
<1>2. /\ x.stood \subseteq S /\ S \subseteq x.seen /\ OwnIds(S) /\ \A r \in S : r.name \in Names
  BY <1>1, PoliciesSeen
<1>3. y.stood = x.stood /\ y.got = x.got \o page /\ y.seen = x.seen
  BY DEF Takes
<1>4. PICK k : k = x.offset + Len(page)
  OBVIOUS
<1>5. PagedTo(x, S, n, page, y, k)
  BY <1>1, <1>2, <1>3, <1>4, PoliciesFetched
<1>6. /\ y.got \in Seq(x.seen) /\ Twice(y.got) = {} /\ Len(y.got) = k
      /\ Cardinality(Behind(y, S, k) \ Range(y.got)) <= x.gone
      /\ IsFiniteSet(Behind(y, S, k) \ Range(y.got))
      /\ Len(page) < PageSize \/ k >= Cardinality(S) => S \cap x.stood \subseteq Behind(y, S, k)
  BY <1>5 DEF PagedTo
<1>7. x.stood \subseteq Behind(y, S, k)
  BY <1>2, <1>6
<1>8. PICK got, kept, R : got = y.got /\ kept = KeptPages(y, got) /\ R = x.seen
  OBVIOUS
<1>9. /\ kept \in Seq(R) /\ Range(kept) = {g \in Range(got) : Retains(y, g)}
      /\ Twice(kept) = {}
  <2>1. got \in Seq(R)
    BY <1>6, <1>8
  <2>2. /\ kept \in Seq(R) /\ Range(kept) = {g \in Range(got) : Retains(y, g)}
        /\ Twice(got) = {} => Twice(kept) = {}
    BY <1>8, <2>1, KeptPagesOf
  <2> QED
    BY <1>6, <1>8, <2>2
<1>10. /\ e.st = x.st /\ e.ask = x.ask /\ e.at = x.at /\ e.got = kept /\ e.stood = x.stood
      /\ e.seen = x.seen /\ e.skipped = x.skipped /\ e.gone = x.gone /\ e.cut = x.cut
      /\ e.grown = x.grown /\ DOMAIN e = Fields /\ e.todo = <<"page">>
  BY <1>8 DEF Takes, Fields
<1>11. Collects(e) /\ Of(e) = Of(x) /\ Owed(e) = Owed(x)
  BY <1>1, <1>8, <1>9, <1>10 DEF Collects, Of, Owed
<1>12. \A r : Retains(y, r) <=> Retains(x, r)
  BY DEF Takes, Retains
<1>13. \A r \in Range(kept) : Retains(e, r)
  BY <1>9, <1>10, <1>12 DEF Retains
<1>14. Listing1(e)
  <2> SUFFICES ASSUME e.ask.query.all, NEW r \in Range(e.got)
               PROVE  Asks(e.ask, r)
    BY DEF Listing1
  <2>1. Retains(e, r)
    BY <1>10, <1>13
  <2> QED
    BY <1>10, <2>1, KeepsAsked
<1>15. ASSUME NEW r \in Missed(e)
       PROVE  r \in Behind(y, S, k) \ Range(y.got)
  <2>1. r \in Owed(x) /\ r \notin Range(kept)
    BY <1>10, <1>11, <1>15 DEF Missed
  <2>2. r \in x.stood /\ Wanted(Of(x), x.ask, r)
    BY <2>1 DEF Owed
  <2>3. r.name \in Names /\ WellAsked(x.ask) /\ Of(x) # "cloudflare"
    BY <1>1, <1>2, <2>2 DEF Collects
  <2>4. Retains(x, r)
    BY <1>1, <2>2, <2>3, KeepsWanted
  <2> QED
    BY <1>7, <1>8, <1>9, <1>12, <2>1, <2>2, <2>4
<1>16. Cardinality(Missed(e)) <= e.gone
  <2>1. Missed(e) \subseteq Behind(y, S, k) \ Range(y.got)
    BY <1>15
  <2>2. x.gone \in Nat
    BY <1>1 DEF Collects
  <2>3. Cardinality(Missed(e)) <= x.gone
    BY <1>6, <2>1, <2>2, NoMore
  <2> QED
    BY <1>10, <2>3
<1>17. Cardinality(ZonesOf(Twice(e.got))) = 0
  <2>1. ZonesOf(Twice(e.got)) = {}
    BY <1>9, <1>10 DEF ZonesOf
  <2> QED
    BY <2>1, FS_EmptySet
<1>18. Range(e.got) \subseteq e.seen /\ Of(e) = "unifi"
  BY <1>8, <1>9, <1>10, <1>11, FiniteRange
<1>19. Complete(e)
  BY <1>10, <1>14, <1>16, <1>17, <1>18 DEF Complete
<1>20. e.todo = <<"page">> /\ e.ask.op = "list_records" /\ ~IsTransfer(e.ask) /\ ~AcrossZones(e.ask)
  BY <1>10, <1>11 DEF Collects, WellAsked, IsTransfer
<1>21. Answered(e) = ListingEnds(e)
  <2>1. ASSUME NEW f, f.todo = <<"page">>, f.ask.op = "list_records", ~IsTransfer(f.ask),
               ~AcrossZones(f.ask)
        PROVE  Answered(f) = ListingEnds(f)
    BY <2>1 DEF Answered
  <2> QED
    BY <1>20, <2>1
<1> QED
  BY <1>11, <1>19, <1>21, EndTracked

-----------------------------------------------------------------------------
(* Every request keeps the listings *)

\* A server has finitely many zones, and what it holds lies in zones it has.
Rooted ==
  \A s \in Servers :
    /\ IsFiniteSet(ZonesAt(s))
    /\ Zoned(VendorOf[s]) => \A r \in held[s] : zid[s][ZoneOf[r.name]] # 0

\* A call at the server it asks.
Followed(x) == Tracked(x, held[x.ask.server], ZonesAt(x.ask.server), nextId)

Listings == Rooted /\ \A c \in Clients : Followed(call[c])

\* A listing under way at a server that holds S, has the zones Z and gives the
\* id n next.
Attends(x, S, Z, n) ==
  /\ Following(x, S, Z, n) /\ Sees(x, S, Z)
  /\ x.st = "busy" /\ DOMAIN x = Fields
  /\ ById(Of(x)) => \A r \in S : r.id < n

\* What holds of a listing under way.
LEMMA ListingAtWork ==
  ASSUME Inv, Settled, Listings, NEW c \in Clients, Busy(c), IsListing(call[c])
  PROVE  /\ Attends(call[c], held[Server(c)], ZonesAt(Server(c)), nextId)
         /\ Server(c) = call[c].ask.server /\ Vendor(c) = Of(call[c]) /\ ~IsTransfer(call[c].ask)
         /\ AcrossZones(call[c].ask) /\ call[c].leg = 1 => Op(c) = "list_zones"
         /\ ~(AcrossZones(call[c].ask) /\ call[c].leg = 1) => Op(c) = "list_records"
<1> DEFINE x == call[c]
           s == x.ask.server
<1>1. /\ UnderWay(x) /\ Watches(x, held) /\ Op(c) = Method(x).op /\ Server(c) = Method(x).server
      /\ Vendor(c) = VendorOf[Server(c)]
  BY BusyAtWork DEF AtWork, Vendor
<1>2. /\ x.st = "busy" /\ DOMAIN x = Fields /\ x.ask \in Parameters /\ x.leg \in {1, 2}
      /\ x.leg = 2 => IsTransfer(x.ask) \/ AcrossZones(x.ask)
  BY <1>1 DEF UnderWay, IsCall
<1>3. s \in Servers
  BY <1>2 DEF Parameters
<1>4. ~IsTransfer(x.ask)
  BY DEF IsListing, IsTransfer
<1>5. Following(x, held[s], ZonesAt(s), nextId)
  BY <1>2 DEF Listings, Followed, Tracked
<1>6. ASSUME AcrossZones(x.ask)
      PROVE  /\ Server(c) = s
             /\ (x.leg = 1 => Op(c) = "list_zones") /\ (x.leg = 2 => Op(c) = "list_records")
  <2>1. Methods(x.ask) = <<At("list_zones", s), At("list_records", s)>>
    BY <1>4, <1>6 DEF Methods
  <2>2. /\ Methods(x.ask)[1].server = s /\ Methods(x.ask)[1].op = "list_zones"
        /\ Methods(x.ask)[2].server = s /\ Methods(x.ask)[2].op = "list_records"
    BY <2>1 DEF At
  <2>3. Server(c) = Methods(x.ask)[x.leg].server /\ Op(c) = Methods(x.ask)[x.leg].op
    BY DEF Server, Op
  <2>4. CASE x.leg = 1
    <3>1. Server(c) = s /\ Op(c) = "list_zones"
      BY <2>3, <2>2, <2>4, Zenon
    <3> QED
      BY <1>6, <2>4, <3>1
  <2>5. CASE x.leg = 2
    <3>1. Server(c) = s /\ Op(c) = "list_records"
      BY <2>3, <2>2, <2>5, Zenon
    <3> QED
      BY <1>6, <2>5, <3>1
  <2> QED
    BY <1>2, <2>4, <2>5
<1>7. ASSUME ~AcrossZones(x.ask)
      PROVE  Server(c) = s /\ Op(c) = "list_records"
  <2>1. Methods(x.ask) = <<At("list_records", s)>>
    BY <1>4, <1>7 DEF Methods, IsListing
  <2>2. Methods(x.ask)[1].server = s /\ Methods(x.ask)[1].op = "list_records"
    BY <2>1 DEF At
  <2>3. x.leg = 1
    BY <1>2, <1>4, <1>7
  <2>4. Server(c) = Methods(x.ask)[x.leg].server /\ Op(c) = Methods(x.ask)[x.leg].op
    BY DEF Server, Op
  <2>5. Server(c) = s /\ Op(c) = "list_records"
    BY <2>2, <2>3, <2>4, Zenon
  <2> QED
    BY <1>7, <2>5
<1>8. /\ Server(c) = s
      /\ AcrossZones(x.ask) /\ x.leg = 1 => Op(c) = "list_zones"
      /\ ~(AcrossZones(x.ask) /\ x.leg = 1) => Op(c) = "list_records"
  BY <1>2, <1>6, <1>7
<1>9. Sees(x, held[s], ZonesAt(s))
  <2>1. x.stood \subseteq held[s] /\ held[s] \subseteq x.seen
    BY <1>1 DEF Watches, Between
  <2>2. /\ \A r \in held[s] : r.name \in Names
        /\ ById(Of(x)) => \A q, r \in held[s] : q.id \in Nat /\ (q.id = r.id => q = r)
    BY <1>3 DEF Inv, HeldOK, Of
  <2>3. ZonesAt(s) \in SUBSET Zones /\ IsFiniteSet(ZonesAt(s))
    BY <1>3 DEF Listings, Rooted, ZonesAt
  <2>4. Zoned(Of(x)) => ZonesOf(held[s]) \subseteq ZonesAt(s)
    <3> SUFFICES ASSUME Zoned(Of(x)), NEW r \in held[s]
                 PROVE  ZoneOf[r.name] \in ZonesAt(s)
      BY DEF ZonesOf
    <3>1. zid[s][ZoneOf[r.name]] # 0
      BY <1>3 DEF Listings, Rooted, Of
    <3>2. ZoneOf[r.name] \in Zones
      BY <2>2, OperationsAssumption
    <3> QED
      BY <3>1, <3>2 DEF ZonesAt
  <2> QED
    BY <2>1, <2>2, <2>3, <2>4 DEF Sees
<1>10. ById(Of(x)) => \A r \in held[s] : r.id < nextId
  BY <1>3 DEF Inv, HeldOK, Of
<1> QED
  BY <1>1, <1>2, <1>4, <1>5, <1>8, <1>9, <1>10 DEF Attends, Of

\* What a listing asks for next tells what it is.
LEMMA NextRequest ==
  ASSUME NEW x, NEW S, NEW Z, NEW n, Following(x, S, Z, n)
  PROVE  /\ Head(x.todo) = "zone" => Of(x) = "cloudflare"
         /\ Head(x.todo) = "domains" => Of(x) = "pangolin"
         /\ Head(x.todo) \in {"hosts", "cnames"} => Of(x) = "pihole" /\ ~AcrossZones(x.ask)
         /\ Head(x.todo) = "site" => Of(x) = "unifi"
         /\ Head(x.todo) = "page" => Of(x) = "unifi" /\ ~AcrossZones(x.ask) /\ x.todo = <<"page">>
         /\ Head(x.todo) = "act" => Zoned(Of(x))
         /\ Head(x.todo) # "find"
<1>1. /\ Head(<<"act">>) = "act" /\ Head(<<"zone", "act">>) = "zone"
      /\ Head(<<"domains", "act">>) = "domains" /\ Head(<<"site", "page">>) = "site"
      /\ Head(<<"page">>) = "page" /\ Head(<<"hosts", "cnames">>) = "hosts"
      /\ Head(<<"cnames">>) = "cnames"
  OBVIOUS
<1>2. Of(x) \in VendorKind
  BY ListingMethods DEF Following, Collects
<1>3. ASSUME x.todo \in ZoneTodo(Of(x)), Zoned(Of(x))
      PROVE  /\ Head(x.todo) \in {"zone", "domains", "act"}
             /\ Head(x.todo) = "zone" => Of(x) = "cloudflare"
             /\ Head(x.todo) = "domains" => Of(x) = "pangolin"
  BY <1>1, <1>3 DEF ZoneTodo, ToList, Zoned
<1>4. CASE AcrossZones(x.ask)
  <2>1. Zoned(Of(x)) /\ (x.todo = <<"act">> \/ x.todo \in ZoneTodo(Of(x)))
    BY <1>4 DEF Following, ZonesPaged, ZonesRead
  <2> QED
    BY <1>1, <1>3, <2>1
<1>5. CASE ~AcrossZones(x.ask)
  <2>1. CASE Of(x) = "unifi"
    <3>1. x.todo \in {<<"site", "page">>, <<"page">>}
      BY <1>5, <2>1 DEF Following, PoliciesPaged
    <3> QED
      BY <1>1, <1>5, <2>1, <3>1
  <2>2. CASE Of(x) = "pihole"
    <3>1. x.todo \in {<<"hosts", "cnames">>, <<"cnames">>}
      BY <1>5, <2>2 DEF Following, ListsRead
    <3> QED
      BY <1>1, <1>5, <2>2, <3>1
  <2>3. CASE Zoned(Of(x)) /\ ~EachDomain(x)
    <3>1. x.todo \in ZoneTodo(Of(x))
      BY <1>5, <2>3 DEF Following, OneRead
    <3> QED
      BY <1>3, <2>3, <3>1
  <2>4. CASE Zoned(Of(x)) /\ EachDomain(x)
    <3>1. DomainsRead(x) /\ Of(x) = "pangolin"
      BY <1>5, <2>4 DEF Following, EachDomain
    <3>2. ASSUME x.todo \in Seq({"act"}), Len(x.todo) = Len(x.left), x.left # << >>,
                 x.left \in Seq(Zones)
          PROVE  Head(x.todo) = "act"
      <4>1. Len(x.left) > 0
        BY <3>2
      <4>2. Head(x.todo) \in {"act"}
        BY <3>2, <4>1
      <4> QED
        BY <4>2
    <3>3. Head(x.todo) \in {"domains", "act"}
      BY <1>1, <3>1, <3>2 DEF DomainsRead
    <3> QED
      BY <2>4, <3>1, <3>3
  <2> QED
    BY <1>2, <2>1, <2>2, <2>3, <2>4 DEF VendorKind, Zoned
<1> QED
  BY <1>4, <1>5

\* A call that lists nothing keeps its arguments.
LEMMA OtherwiseTracked ==
  ASSUME NEW x, IsCall(x), x.st = "busy", ~IsListing(x), x.at = ArgsOf(x.ask),
         NEW S, NEW Z, NEW n
  PROVE  /\ Tracked(x, S, Z, n) /\ Tracked(Answered(x), S, Z, n) /\ Tracked(Failed(x), S, Z, n)
         /\ Tracked(ListingEnds(x), S, Z, n) /\ \A how : Tracked(Finished(x, how), S, Z, n)
<1>1. ASSUME NEW y, y.ask = x.ask, y.st = "busy" => y.at = x.at
      PROVE  Tracked(y, S, Z, n)
  BY <1>1 DEF Tracked, IsListing
<1>2. ~AcrossZones(x.ask) /\ ~IsSearch(x.ask) /\ x.ask.op # "list_records"
  BY DEF IsListing, AcrossZones, IsSearch, ListsAll
<1>3. \A how : Finished(x, how).ask = x.ask /\ Finished(x, how).st # "busy"
  BY DEF Finished, Idle
<1>4. ListingEnds(x).ask = x.ask /\ ListingEnds(x).st # "busy"
  BY DEF ListingEnds, Finished, Idle
<1>5. Failed(x) = Finished(x, "error")
  BY <1>2 DEF Failed
<1>6. Answered(x).ask = x.ask /\ (Answered(x).st = "busy" => Answered(x).at = x.at)
  <2>1. CASE Tail(x.todo) # << >>
    <3>1. Answered(x) = [x EXCEPT !.todo = Tail(@)]
      BY <2>1 DEF Answered
    <3>2. [x EXCEPT !.todo = Tail(@)].ask = x.ask /\ [x EXCEPT !.todo = Tail(@)].at = x.at
      BY DEF IsCall, Fields
    <3> QED
      BY <3>1, <3>2
  <2>2. CASE Tail(x.todo) = << >> /\ IsTransfer(x.ask) /\ x.leg = 1
    <3> DEFINE y == [x EXCEPT !.leg = 2, !.todo = RequestsOn(x.ask, 2), !.zid = 0]
    <3>1. Answered(x) \in {Finished(x, "unsupported"), y}
      BY <2>2 DEF Answered, Import
    <3>2. y.ask = x.ask /\ y.at = x.at
      BY DEF IsCall, Fields
    <3> HIDE DEF y
    <3> QED
      BY <1>3, <3>1, <3>2
  <2>3. CASE Tail(x.todo) = << >> /\ ~(IsTransfer(x.ask) /\ x.leg = 1)
    <3>1. Answered(x) = Finished(x, "ok")
      BY <1>2, <2>3 DEF Answered
    <3> QED
      BY <1>3, <3>1
  <2> QED
    BY <2>1, <2>2, <2>3
<1> QED
  BY <1>1, <1>3, <1>4, <1>5, <1>6

\* A call that is followed in the place of another.
LEMMA BecomesFollowed ==
  ASSUME Inv, Listings, NEW c \in Clients, NEW y, Followed(y), Become(c, y),
         held' = held, zid' = zid, nextId' = nextId
  PROVE  Listings'
<1>1. DOMAIN call = Clients
  BY DEF Inv
<1>2. \A s : ZonesAt(s)' = ZonesAt(s)
  BY DEF ZonesAt
<1>3. Rooted'
  BY <1>2 DEF Listings, Rooted
<1>4. ASSUME NEW d \in Clients
      PROVE  Followed(call[d])'
  <2>1. CASE d = c
    <3>1. call'[d] = y
      BY <1>1, <2>1 DEF Become
    <3> QED
      BY <1>2, <3>1 DEF Followed
  <2>2. CASE d # c
    <3>1. call'[d] = call[d]
      BY <1>1, <2>2 DEF Become
    <3>2. Followed(call[d])
      BY DEF Listings
    <3> QED
      BY <1>2, <3>1, <3>2 DEF Followed
  <2> QED
    BY <2>1, <2>2
<1> QED
  BY <1>3, <1>4 DEF Listings

\* A call in the place of client c's, at the same server.
FollowsOn(c, y) ==
  /\ y.ask = call[c].ask
  /\ Tracked(y, held[call[c].ask.server], ZonesAt(call[c].ask.server), nextId)

\* Such a call may take the place of client c's.
LEMMA FollowsOnKeeps ==
  ASSUME Inv, Listings, NEW c \in Clients, NEW y, FollowsOn(c, y), Become(c, y),
         held' = held, zid' = zid, nextId' = nextId
  PROVE  Listings'
<1>1. Followed(y)
  BY DEF FollowsOn, Followed
<1> QED
  BY <1>1, BecomesFollowed

\* What may become of a call that lists nothing.
LEMMA OtherwiseFollowed ==
  ASSUME Inv, Listings, NEW c \in Clients, Busy(c), ~IsListing(call[c]),
         NEW y, DOMAIN y = Fields, y.st = "busy", y.ask = call[c].ask, y.leg = call[c].leg,
         y.at = call[c].at
  PROVE  /\ FollowsOn(c, y) /\ FollowsOn(c, Answered(y)) /\ FollowsOn(c, Failed(y))
         /\ FollowsOn(c, ListingEnds(y)) /\ \A how : FollowsOn(c, Finished(y, how))
<1>1. IsCall(call[c]) /\ call[c].st = "busy"
  BY BusyCall
<1>2. IsCall(y) /\ ~IsListing(y)
  BY <1>1 DEF IsCall, IsListing
<1>3. y.at = ArgsOf(y.ask)
  BY <1>1 DEF Listings, Followed, Tracked
<1>4. /\ Answered(y).ask = y.ask /\ Failed(y).ask = y.ask /\ ListingEnds(y).ask = y.ask
      /\ \A how : Finished(y, how).ask = y.ask
  BY <1>2, AnsweredCarries, FailedCarries, ListingEndsCarries, FinishedCarries DEF Carries
<1> DEFINE S == held[call[c].ask.server]
           Z == ZonesAt(call[c].ask.server)
<1> HIDE DEF S, Z
<1>5. /\ Tracked(y, S, Z, nextId) /\ Tracked(Answered(y), S, Z, nextId)
      /\ Tracked(Failed(y), S, Z, nextId) /\ Tracked(ListingEnds(y), S, Z, nextId)
      /\ \A how : Tracked(Finished(y, how), S, Z, nextId)
  BY <1>2, <1>3, OtherwiseTracked
<1> QED
  BY <1>4, <1>5 DEF FollowsOn, S, Z

\* What holds of a listing under way, at the server it asks.
LEMMA ListingFollowed ==
  ASSUME Inv, Settled, Listings, NEW c \in Clients, Busy(c), IsListing(call[c])
  PROVE  /\ IsCall(call[c]) /\ call[c].st = "busy" /\ DOMAIN call[c] = Fields
         /\ Attends(call[c], held[call[c].ask.server], ZonesAt(call[c].ask.server), nextId)
         /\ FollowsOn(c, Failed(call[c]))
         /\ \A how : how # "ok" => FollowsOn(c, Finished(call[c], how))
<1> DEFINE x == call[c]
           S == held[x.ask.server]
           Z == ZonesAt(x.ask.server)
<1>1. IsCall(x) /\ x.st = "busy" /\ DOMAIN x = Fields
  BY BusyCall DEF IsCall
<1>2. Attends(x, S, Z, nextId)
  BY ListingAtWork
<1>3. Failed(x).ask = x.ask /\ \A how : Finished(x, how).ask = x.ask
  BY <1>1, FailedCarries, FinishedCarries DEF Carries
<1> HIDE DEF S, Z
<1>4. Tracked(Failed(x), S, Z, nextId)
  BY <1>1, <1>2, FailedTracked DEF Attends
<1>5. \A how : how # "ok" => Tracked(Finished(x, how), S, Z, nextId)
  BY EndedTracked
<1> QED
  BY <1>1, <1>2, <1>3, <1>4, <1>5 DEF FollowsOn, S, Z

\* A refusal.
LEMMA RefusedFollowed ==
  ASSUME Inv, Settled, Listings, NEW c \in Clients, Busy(c), Refused(c),
         held' = held, zid' = zid, nextId' = nextId
  PROVE  Listings'
<1> DEFINE x == call[c]
           z == [x EXCEPT !.heard = "refused"]
<1>1. PICK ans \in Refusals(Vendor(c)) :
        Become(c, IF Reads(Vendor(c), Op(c), Next1(c), ans) THEN Answered(z) ELSE Failed(x))
  BY DEF Refused
<1>2. CASE IsListing(x)
  <2>1. Op(c) \in {"list_zones", "list_records"} /\ Vendor(c) \in VendorKind /\ UnderWay(x)
    BY <1>2, ListingAtWork, BusyAtWork DEF AtWork
  <2>2. Op(c) \notin ZoneExport \cup LogsRead
    BY <2>1, ChangingMethods
  <2>3. ~Reads(Vendor(c), Op(c), Next1(c), ans)
    BY <2>1, <2>2, RefusalIsError
  <2>4. Become(c, Failed(x))
    BY <1>1, <2>3
  <2> QED
    BY <1>2, <2>4, ListingFollowed, FollowsOnKeeps
<1>3. CASE ~IsListing(x)
  <2>1. DOMAIN x = Fields /\ x.st = "busy"
    BY BusyCall DEF IsCall
  <2>2. DOMAIN z = Fields /\ z.st = "busy" /\ z.ask = x.ask /\ z.leg = x.leg /\ z.at = x.at
    BY <2>1 DEF Fields
  <2>3. \E y \in {Answered(z), Failed(x)} : Become(c, y)
    BY <1>1
  <2> HIDE DEF z
  <2>4. FollowsOn(c, Answered(z)) /\ FollowsOn(c, Failed(x))
    BY <1>3, <2>1, <2>2, OtherwiseFollowed
  <2> QED
    BY <2>3, <2>4, FollowsOnKeeps
<1> QED
  BY <1>2, <1>3

\* Lookups, answers that are not noted or go into a file, and none at all.
LEMMA LookUpFollowed ==
  ASSUME Inv, Settled, Listings, NEW c \in Clients,
         LookUpZone(c) \/ LookUpSite(c) \/ LookUpLogFile(c) \/ FindRecord(c) \/ Read(c)
           \/ ExportZone(c) \/ Fail(c)
  PROVE  Listings'
<1> DEFINE x == call[c]
<1>1. Busy(c) /\ held' = held /\ zid' = zid /\ nextId' = nextId
  BY DEF LookUpZone, LookUpSite, LookUpLogFile, FindRecord, Read, ExportZone, Fail, Due
<1>2. CASE IsListing(x)
  <2> DEFINE S == held[x.ask.server]
             Z == ZonesAt(x.ask.server)
  <2>1. /\ DOMAIN x = Fields /\ x.st = "busy" /\ IsCall(x) /\ FollowsOn(c, Failed(x))
        /\ Attends(x, S, Z, nextId)
    BY <1>1, <1>2, ListingFollowed
  <2>2. Op(c) \in {"list_zones", "list_records"} /\ UnderWay(x)
        /\ (~AcrossZones(x.ask) => Op(c) = "list_records")
    BY <1>1, <1>2, ListingAtWork, BusyAtWork DEF AtWork
  <2>3. ~Read(c) /\ ~ExportZone(c)
    BY <2>2, ChangingMethods DEF Read, ExportZone
  <2> HIDE DEF S, Z
  <2>4. Following(x, S, Z, nextId)
    BY <2>1 DEF Attends
  <2>5. ~LookUpLogFile(c) /\ ~FindRecord(c)
    BY <2>4, NextRequest DEF LookUpLogFile, FindRecord, Due, Next1
  <2>6. ASSUME NEW y, Resumes(x, y), y.todo = x.todo, Head(x.todo) \in {"zone", "site"}
        PROVE  FollowsOn(c, Answered(y))
    <3>1. ~EachDomain(x)
      BY <2>4, <2>6, NextRequest DEF EachDomain
    <3>2. Tracked(Answered(y), S, Z, nextId)
      BY <2>1, <2>4, <2>6, <3>1, LookupTracked
    <3>3. IsCall(y) /\ y.ask = x.ask
      BY <2>1, <2>6 DEF Resumes, IsCall
    <3>4. Answered(y).ask = x.ask
      BY <3>3, AnsweredCarries DEF Carries
    <3> QED
      BY <3>2, <3>4 DEF FollowsOn, S, Z
  <2>7. CASE LookUpZone(c)
    <3>1. Head(x.todo) \in {"zone", "site"}
      BY <2>7 DEF LookUpZone, Due, Next1
    <3>2. PICK z : Become(c, Failed(x)) \/ Become(c, Answered([x EXCEPT !.zid = z]))
      BY <2>7 DEF LookUpZone
    <3> DEFINE y == [x EXCEPT !.zid = z]
    <3>3. Resumes(x, y) /\ y.todo = x.todo
      BY <2>1 DEF Resumes, Fields
    <3>4. Become(c, Failed(x)) \/ Become(c, Answered(y))
      BY <3>2
    <3> HIDE DEF y
    <3>5. FollowsOn(c, Answered(y))
      BY <2>6, <3>1, <3>3
    <3> QED
      BY <1>1, <2>1, <3>4, <3>5, FollowsOnKeeps
  <2>8. CASE LookUpSite(c)
    <3>1. Head(x.todo) \in {"zone", "site"} /\ Become(c, Answered(x))
      BY <2>8 DEF LookUpSite, Due, Next1
    <3>2. Resumes(x, x)
      BY <2>1 DEF Resumes
    <3>3. FollowsOn(c, Answered(x))
      BY <2>6, <3>1, <3>2
    <3> QED
      BY <1>1, <3>1, <3>3, FollowsOnKeeps
  <2>9. CASE Fail(c)
    <3>1. Become(c, Failed(x))
      BY <2>9 DEF Fail
    <3> QED
      BY <1>1, <2>1, <3>1, FollowsOnKeeps
  <2> QED
    BY <2>3, <2>5, <2>7, <2>8, <2>9
<1>3. CASE ~IsListing(x)
  <2>1. DOMAIN x = Fields /\ x.st = "busy"
    BY <1>1, BusyCall DEF IsCall
  <2>2. ASSUME NEW y, DOMAIN y = Fields, y.st = "busy", y.ask = x.ask, y.leg = x.leg, y.at = x.at
        PROVE  FollowsOn(c, Answered(y)) /\ FollowsOn(c, Failed(y))
               /\ FollowsOn(c, Finished(y, "error"))
    BY <1>1, <1>3, <2>2, OtherwiseFollowed
  <2>3. /\ FollowsOn(c, Answered(x)) /\ FollowsOn(c, Failed(x))
        /\ FollowsOn(c, Finished(x, "error"))
    BY <2>1, <2>2
  <2>4. ASSUME NEW z
        PROVE  FollowsOn(c, Answered([x EXCEPT !.zid = z]))
    <3> DEFINE y == [x EXCEPT !.zid = z]
    <3>1. DOMAIN y = Fields /\ y.st = "busy" /\ y.ask = x.ask /\ y.leg = x.leg /\ y.at = x.at
      BY <2>1 DEF Fields
    <3> HIDE DEF y
    <3>2. FollowsOn(c, Answered(y))
      BY <2>2, <3>1
    <3> QED
      BY <3>2 DEF y
  <2>5. ASSUME NEW i
        PROVE  FollowsOn(c, Answered([x EXCEPT !.target = i]))
    <3> DEFINE y == [x EXCEPT !.target = i]
    <3>1. DOMAIN y = Fields /\ y.st = "busy" /\ y.ask = x.ask /\ y.leg = x.leg /\ y.at = x.at
      BY <2>1 DEF Fields
    <3> HIDE DEF y
    <3>2. FollowsOn(c, Answered(y))
      BY <2>2, <3>1
    <3> QED
      BY <3>2 DEF y
  <2>6. ASSUME NEW f
        PROVE  FollowsOn(c, Answered([x EXCEPT !.file = f]))
    <3> DEFINE y == [x EXCEPT !.file = f]
    <3>1. DOMAIN y = Fields /\ y.st = "busy" /\ y.ask = x.ask /\ y.leg = x.leg /\ y.at = x.at
      BY <2>1 DEF Fields
    <3> HIDE DEF y
    <3>2. FollowsOn(c, Answered(y))
      BY <2>2, <3>1
    <3> QED
      BY <3>2 DEF y
  <2>7. Refused(c) \/ \E y : Become(c, y) /\ FollowsOn(c, y)
    <3>1. CASE LookUpZone(c)
      BY <2>3, <2>4, <3>1 DEF LookUpZone
    <3>2. CASE LookUpSite(c) \/ LookUpLogFile(c) \/ Read(c) \/ Fail(c)
      BY <2>3, <3>2 DEF LookUpSite, LookUpLogFile, Read, Fail
    <3>3. CASE FindRecord(c)
      BY <2>3, <2>5, <3>3 DEF FindRecord, Ended
    <3>4. CASE ExportZone(c)
      BY <2>6, <3>4 DEF ExportZone
    <3> QED
      BY <3>1, <3>2, <3>3, <3>4
  <2> QED
    BY <1>1, <2>7, FollowsOnKeeps, RefusedFollowed
<1> QED
  BY <1>2, <1>3

\* Of one zone, the request that brings the answer is the last.
LEMMA LastRequest ==
  ASSUME NEW v, Zoned(v), NEW todo \in ZoneTodo(v), Head(todo) = "act"
  PROVE  todo = <<"act">> /\ Tail(todo) = << >>
<1>1. Head(<<"zone", "act">>) = "zone" /\ Head(<<"domains", "act">>) = "domains"
      /\ Tail(<<"act">>) = << >>
  OBVIOUS
<1>2. todo = <<"act">>
  BY <1>1 DEF ZoneTodo, ToList, Zoned
<1> QED
  BY <1>1, <1>2

\* Pangolin's domains.
LEMMA LookUpDomainFollowed ==
  ASSUME Inv, Settled, Listings, NEW c \in Clients, LookUpDomain(c)
  PROVE  Listings'
<1> DEFINE x  == call[c]
           zs == SetToSeq(ZonesAt(Server(c)))
           y  == [x EXCEPT !.todo = [i \in DOMAIN zs |-> "act"], !.left = zs]
<1>1. Busy(c) /\ Head(x.todo) = "domains" /\ held' = held /\ zid' = zid /\ nextId' = nextId
  BY DEF LookUpDomain, Due, Next1
<1>2. Become(c, IF x.at.zones = {} THEN (IF zs = << >> THEN ListingEnds(x) ELSE y)
                ELSE IF IdAt(Server(c), x.at) = 0 THEN Failed(x) ELSE Answered(x))
  BY DEF LookUpDomain
<1>3. CASE ~IsListing(x)
  <2>1. DOMAIN x = Fields /\ x.st = "busy"
    BY <1>1, BusyCall DEF IsCall
  <2>2. DOMAIN y = Fields /\ y.st = "busy" /\ y.ask = x.ask /\ y.leg = x.leg /\ y.at = x.at
    BY <2>1 DEF Fields
  <2>3. \E z \in {ListingEnds(x), y, Failed(x), Answered(x)} : Become(c, z)
    BY <1>2
  <2> HIDE DEF y
  <2>4. FollowsOn(c, y)
    BY <1>1, <1>3, <2>2, OtherwiseFollowed
  <2>5. FollowsOn(c, ListingEnds(x)) /\ FollowsOn(c, Failed(x)) /\ FollowsOn(c, Answered(x))
    BY <1>1, <1>3, <2>1, OtherwiseFollowed
  <2> QED
    BY <1>1, <2>3, <2>4, <2>5, FollowsOnKeeps
<1>4. CASE IsListing(x)
  <2> DEFINE S == held[x.ask.server]
             Z == ZonesAt(x.ask.server)
  <2>1. /\ DOMAIN x = Fields /\ x.st = "busy" /\ IsCall(x) /\ FollowsOn(c, Failed(x))
        /\ Attends(x, S, Z, nextId) /\ Server(c) = x.ask.server
    BY <1>1, <1>4, ListingFollowed, ListingAtWork
  <2> HIDE DEF S
  <2>2. Following(x, S, Z, nextId) /\ Sees(x, S, Z)
    BY <2>1 DEF Attends
  <2>3. Of(x) = "pangolin"
    BY <1>1, <2>2, NextRequest
  <2>4. CASE x.at.zones = {}
    <3>1. EachDomain(x)
      BY <2>3, <2>4 DEF EachDomain
    <3>2. ~AcrossZones(x.ask)
      <4> SUFFICES ASSUME AcrossZones(x.ask)
                   PROVE  FALSE
        OBVIOUS
      <4>1. ZonesPaged(x, Z) \/ ZonesRead(x)
        BY <2>2 DEF Following
      <4>2. ~ZonesPaged(x, Z)
        <5>1. Head(<<"act">>) = "act"
          OBVIOUS
        <5> QED
          BY <1>1, <5>1 DEF ZonesPaged
      <4>3. PICK z \in Zones : x.at = ArgsIn(x.ask, z)
        BY <4>1, <4>2 DEF ZonesRead
      <4>4. x.at.zones = {z}
        BY <4>3, ArgsOfZone
      <4> QED
        BY <2>4, <4>4
    <3>3. zs = SetToSeq(Z)
      BY <2>1
    <3>4. y = [x EXCEPT !.todo = [i \in DOMAIN zs |-> "act"], !.left = zs]
      OBVIOUS
    <3>5. y.ask = x.ask /\ ListingEnds(x).ask = x.ask
      BY <2>1, ListingEndsCarries DEF Fields, Carries
    <3>6. Become(c, IF zs = << >> THEN ListingEnds(x) ELSE y)
      BY <1>2, <2>4
    <3> HIDE DEF y, zs, Z
    <3>7. Tracked(IF zs = << >> THEN ListingEnds(x) ELSE y, S, Z, nextId)
      BY <1>1, <2>1, <2>2, <3>1, <3>2, <3>3, <3>4, DomainsFetched
    <3>8. FollowsOn(c, IF zs = << >> THEN ListingEnds(x) ELSE y)
      BY <3>5, <3>7 DEF FollowsOn, S, Z
    <3> QED
      BY <1>1, <3>6, <3>8, FollowsOnKeeps
  <2>5. CASE x.at.zones # {}
    <3>1. ~EachDomain(x) /\ Resumes(x, x)
      BY <2>1, <2>5 DEF EachDomain, Resumes
    <3>2. Become(c, Failed(x)) \/ Become(c, Answered(x))
      BY <1>2, <2>5
    <3> HIDE DEF Z
    <3>3. Tracked(Answered(x), S, Z, nextId)
      BY <1>1, <2>1, <2>2, <3>1, LookupTracked
    <3>4. Answered(x).ask = x.ask
      BY <2>1, AnsweredCarries DEF Carries
    <3>5. FollowsOn(c, Answered(x))
      BY <3>3, <3>4 DEF FollowsOn, S, Z
    <3> QED
      BY <1>1, <2>1, <3>2, <3>5, FollowsOnKeeps
  <2> QED
    BY <2>4, <2>5
<1> QED
  BY <1>3, <1>4

\* A page of the zones.
LEMMA FetchZonesFollowed ==
  ASSUME Inv, Settled, Listings, NEW c \in Clients, FetchZones(c)
  PROVE  Listings'
<1> DEFINE x    == call[c]
           S    == held[x.ask.server]
           Z    == ZonesAt(x.ask.server)
           page == PageOfZones(ZonesAt(Server(c)), x.offset)
           y    == [x EXCEPT !.left = @ \o page, !.offset = @ + ZonePage]
<1>1. /\ Busy(c) /\ held' = held /\ zid' = zid /\ nextId' = nextId
      /\ AcrossZones(x.ask) /\ Op(c) = "list_zones"
  BY DEF FetchZones, Due
<1>2. IsListing(x)
  BY <1>1 DEF AcrossZones, IsSearch, ListsAll, IsListing
<1>3. /\ DOMAIN x = Fields /\ x.st = "busy" /\ IsCall(x) /\ Server(c) = x.ask.server /\ x.leg = 1
      /\ Attends(x, S, Z, nextId)
  <2>1. Op(c) # "list_records"
    BY <1>1
  <2> QED
    BY <1>1, <1>2, <2>1, ListingFollowed, ListingAtWork
<1>4. Become(c, IF Len(page) = ZonePage THEN y ELSE NextZone(y))
  BY DEF FetchZones
<1>5. /\ DOMAIN y = Fields /\ y.st = "busy" /\ y.ask = x.ask /\ y.leg = x.leg /\ y.todo = x.todo
      /\ y.left = x.left \o page /\ y.offset = x.offset + ZonePage /\ y.got = x.got
      /\ y.stood = x.stood /\ y.seen = x.seen /\ y.skipped = x.skipped
      /\ y.gone = x.gone /\ y.cut = x.cut /\ y.grown = x.grown
  BY <1>3 DEF Fields
<1>6. page = PageOfZones(Z, x.offset)
  BY <1>3
<1> HIDE DEF y, page, S, Z
<1>7. Collects(x) /\ Zoned(Of(x)) /\ ZonesPaged(x, Z) /\ Sees(x, S, Z)
  BY <1>1, <1>3 DEF Attends, Following, ZonesRead
<1>8. Tracked(IF Len(page) = ZonePage THEN y ELSE NextZone(y), S, Z, nextId)
  BY <1>1, <1>3, <1>5, <1>6, <1>7, ZonesFetched
<1>9. NextZone(y).ask = x.ask
  BY <1>1, <1>3, <1>5, NextZoneCarries DEF IsCall, Carries
<1>10. FollowsOn(c, IF Len(page) = ZonePage THEN y ELSE NextZone(y))
  BY <1>5, <1>8, <1>9 DEF FollowsOn, S, Z
<1> QED
  BY <1>1, <1>4, <1>10, FollowsOnKeeps

\* Pi-hole's two lists.
LEMMA ListsFollowed ==
  ASSUME Inv, Settled, Listings, NEW c \in Clients, FetchHosts(c) \/ FetchAliases(c)
  PROVE  Listings'
<1> DEFINE x == call[c]
           S == held[x.ask.server]
           Z == ZonesAt(x.ask.server)
<1>1. Busy(c) /\ held' = held /\ zid' = zid /\ nextId' = nextId
  BY DEF FetchHosts, FetchAliases, Due
<1>2. PICK hosts \in BOOLEAN :
        /\ Become(c, Answered([x EXCEPT !.got = @ \o Entries(c, hosts)]))
        /\ Head(x.todo) = IF hosts THEN "hosts" ELSE "cnames"
  BY DEF FetchHosts, FetchAliases, Due, Next1
<1> DEFINE page == Entries(c, hosts)
           y    == [x EXCEPT !.got = @ \o page]
<1>3. DOMAIN x = Fields /\ x.st = "busy" /\ IsCall(x)
  BY <1>1, BusyCall DEF IsCall
<1>4. /\ Takes(x, page, y) /\ y.todo = x.todo /\ DOMAIN y = Fields /\ y.st = "busy"
      /\ y.ask = x.ask /\ y.leg = x.leg /\ y.at = x.at
  BY <1>3 DEF Takes, Fields
<1>5. Become(c, Answered(y))
  BY <1>2
<1> HIDE DEF y
<1>6. CASE ~IsListing(x)
  BY <1>1, <1>4, <1>5, <1>6, OtherwiseFollowed, FollowsOnKeeps
<1>7. CASE IsListing(x)
  <2>1. Attends(x, S, Z, nextId) /\ Server(c) = x.ask.server
    BY <1>1, <1>7, ListingFollowed, ListingAtWork
  <2>2. page = SetToSeq(KeptOf(x, ListOf(S, hosts)))
    BY <2>1 DEF Entries, ListOf
  <2> HIDE DEF S, Z, page
  <2>3. Following(x, S, Z, nextId) /\ Sees(x, S, Z)
    BY <2>1 DEF Attends
  <2>4. Of(x) = "pihole" /\ ~AcrossZones(x.ask)
    <3>1. Head(x.todo) \in {"hosts", "cnames"}
      BY <1>2
    <3> QED
      BY <2>3, <3>1, NextRequest
  <2>5. Tracked(Answered(y), S, Z, nextId)
    <3>1. CASE hosts
      <4>1. hosts = TRUE /\ Head(x.todo) = "hosts"
        BY <1>2, <3>1
      <4>2. page = SetToSeq(KeptOf(x, ListOf(S, TRUE)))
        BY <2>2, <4>1
      <4> QED
        BY <1>3, <1>4, <2>3, <2>4, <4>1, <4>2, HostsRead
    <3>2. CASE ~hosts
      <4>1. hosts = FALSE /\ Head(x.todo) = "cnames"
        BY <1>2, <3>2
      <4>2. page = SetToSeq(KeptOf(x, ListOf(S, FALSE)))
        BY <2>2, <4>1
      <4> QED
        BY <1>3, <1>4, <2>3, <2>4, <4>1, <4>2, AliasesRead
    <3> QED
      BY <3>1, <3>2
  <2>6. Answered(y).ask = x.ask
    BY <1>3, <1>4, AnsweredCarries DEF IsCall, Carries
  <2>7. FollowsOn(c, Answered(y))
    BY <2>5, <2>6 DEF FollowsOn, S, Z
  <2> QED
    BY <1>1, <1>5, <2>7, FollowsOnKeeps
<1> QED
  BY <1>6, <1>7

\* The answer to a listing.
LEMMA ReadFollowed ==
  ASSUME Inv, Settled, Listings, NEW c \in Clients, ReadRecords(c)
  PROVE  Listings'
<1> DEFINE x == call[c]
           S == held[x.ask.server]
           Z == ZonesAt(x.ask.server)
           page == SetToSeq(KeptOf(x, Listed(c)))
           y    == [x EXCEPT !.got = @ \o page, !.left = IF EachZone(c) THEN Tail(@) ELSE @]
<1>1. /\ Busy(c) /\ Head(x.todo) = "act" /\ held' = held /\ zid' = zid /\ nextId' = nextId
      /\ Op(c) = "list_records"
  BY DEF ReadRecords, Due, Next1
<1>2. CASE Refused(c)
  BY <1>1, <1>2, RefusedFollowed
<1>3. CASE ~Refused(c)
  <2>1. ZoneStands(c) /\ Become(c, Answered(y))
    BY <1>3 DEF ReadRecords
  <2>2. DOMAIN x = Fields /\ x.st = "busy" /\ IsCall(x)
    BY <1>1, BusyCall DEF IsCall
  <2>3. /\ Takes(x, page, y) /\ y.todo = x.todo /\ DOMAIN y = Fields /\ y.st = "busy"
        /\ y.ask = x.ask /\ y.leg = x.leg /\ y.at = x.at
        /\ y.left = IF EachZone(c) THEN Tail(x.left) ELSE x.left
        /\ y.got = x.got \o page /\ y.stood = x.stood /\ y.seen = x.seen
        /\ y.skipped = x.skipped /\ y.gone = x.gone /\ y.cut = x.cut /\ y.grown = x.grown
    BY <2>2 DEF Takes, Fields
  <2> HIDE DEF y
  <2>4. CASE ~IsListing(x)
    BY <1>1, <2>1, <2>3, <2>4, OtherwiseFollowed, FollowsOnKeeps
  <2>5. CASE IsListing(x)
    <3>1. /\ Attends(x, S, Z, nextId) /\ Server(c) = x.ask.server /\ Vendor(c) = Of(x)
          /\ ~IsTransfer(x.ask)
      BY <1>1, <2>5, ListingFollowed, ListingAtWork
    <3>2. ~(AcrossZones(x.ask) /\ x.leg = 1)
      <4>1. Op(c) # "list_zones"
        BY <1>1
      <4> QED
        BY <1>1, <2>5, <4>1, ListingAtWork
    <3>3. EachZone(c) <=> EachDomain(x)
      BY <3>1 DEF EachZone, EachDomain
    <3>4. page = SetToSeq(KeptOf(x, AnswerTo(x, S)))
      <4>1. Listed(c) = AnswerTo(x, S)
        BY <3>1, <3>3 DEF Listed, AnswerTo
      <4> QED
        BY <4>1
    <3>5. Of(x) = "cloudflare" => ZoneName(x.at) \in Zones
      BY <2>1, <3>1 DEF ZoneStands, IdAt
    <3> HIDE DEF S, Z, page
    <3>6. Following(x, S, Z, nextId) /\ Sees(x, S, Z)
      BY <3>1 DEF Attends
    <3>7. Collects(x) /\ Zoned(Of(x))
      BY <1>1, <3>6, NextRequest DEF Following
    <3>8. Tracked(Answered(y), S, Z, nextId)
      <4>1. CASE AcrossZones(x.ask)
        <5>1. ZonesRead(x)
          BY <3>6, <3>2, <4>1 DEF Following, ZonesPaged
        <5>2. x.todo = <<"act">> /\ Tail(x.todo) = << >>
          BY <1>1, <3>7, <5>1, LastRequest DEF ZonesRead
        <5>3. ~EachDomain(x)
          <6>1. PICK z \in Zones : x.at = ArgsIn(x.ask, z)
            BY <5>1 DEF ZonesRead
          <6>2. x.at.zones = {z}
            BY <6>1, ArgsOfZone
          <6> QED
            BY <6>2 DEF EachDomain
        <5>4. y.left = x.left
          BY <2>3, <3>3, <5>3
        <5>5. Answered(y) = NextZone(y)
          BY <2>3, <3>1, <4>1, <5>2 DEF Answered
        <5>6. Tracked(NextZone(y), S, Z, nextId)
          BY <2>2, <2>3, <3>4, <3>6, <3>7, <4>1, <5>1, <5>4, ZoneReadTracked
        <5> QED
          BY <5>5, <5>6
      <4>2. CASE ~AcrossZones(x.ask) /\ EachDomain(x)
        <5>1. y.left = Tail(x.left)
          BY <2>3, <3>3, <4>2
        <5> QED
          BY <1>1, <2>2, <2>3, <3>4, <3>6, <4>2, <5>1, DomainReadTracked
      <4>3. CASE ~AcrossZones(x.ask) /\ ~EachDomain(x)
        <5>1. x.todo \in ZoneTodo(Of(x))
          BY <3>6, <3>7, <4>3 DEF Following, OneRead
        <5>2. Tail(x.todo) = << >>
          BY <1>1, <3>7, <5>1, LastRequest
        <5>3. Answered(y) = ListingEnds(y)
          BY <2>3, <2>5, <3>1, <4>3, <5>2 DEF Answered, IsListing
        <5>4. Tracked(ListingEnds(y), S, Z, nextId)
          BY <2>3, <3>4, <3>5, <3>6, <3>7, <4>3, OneReadTracked
        <5> QED
          BY <5>3, <5>4
      <4> QED
        BY <4>1, <4>2, <4>3
    <3>9. Answered(y).ask = x.ask
      BY <2>2, <2>3, AnsweredCarries DEF IsCall, Carries
    <3>10. FollowsOn(c, Answered(y))
      BY <3>8, <3>9 DEF FollowsOn, S, Z
    <3> QED
      BY <1>1, <2>1, <3>10, FollowsOnKeeps
  <2> QED
    BY <2>4, <2>5
<1> QED
  BY <1>2, <1>3

\* A page of UniFi's policies.
LEMMA FetchPageFollowed ==
  ASSUME Inv, Settled, Listings, NEW c \in Clients, FetchPage(c)
  PROVE  Listings'
<1> DEFINE x == call[c]
           H == held[Server(c)]
<1>1. Busy(c) /\ Head(x.todo) = "page" /\ held' = held /\ zid' = zid /\ nextId' = nextId
  BY DEF FetchPage, Due, Next1
<1>2. PICK page \in PagesOf(H, x.offset), totals \in {{}, {Cardinality(H)}} :
        \E z \in {[x EXCEPT !.got = @ \o page, !.pages = @ + 1,
                            !.offset = U!NextOffset(@, Len(page))]} :
          Become(c, IF U!LastPage(Len(page), Len(z.got), totals, PageSize) THEN PagesEnd(c, z)
                    ELSE IF z.pages = MaxPages THEN Ended(c, "error")
                    ELSE z)
  BY DEF FetchPage
<1> DEFINE y == [x EXCEPT !.got = @ \o page, !.pages = @ + 1,
                          !.offset = U!NextOffset(@, Len(page))]
           last == U!LastPage(Len(page), Len(y.got), totals, PageSize)
           kept == [y EXCEPT !.got = KeptPages(y, y.got)]
           hit  == [y EXCEPT !.target = CHOOSE i \in FirstMatch(y.got, y.ask) : TRUE,
                             !.got = << >>]
<1>3. /\ last => Become(c, PagesEnd(c, y))
      /\ ~last => Become(c, Ended(c, "error")) \/ Become(c, y)
  BY <1>2
<1>4. DOMAIN x = Fields /\ x.st = "busy" /\ IsCall(x)
  BY <1>1, BusyCall DEF IsCall
<1>5. /\ Takes(x, page, y) /\ y.todo = x.todo /\ DOMAIN y = Fields /\ y.st = "busy"
      /\ y.ask = x.ask /\ y.leg = x.leg /\ y.at = x.at
      /\ y.offset = U!NextOffset(x.offset, Len(page))
  BY <1>4 DEF Takes, Fields
<1> HIDE DEF y
<1>6. /\ DOMAIN kept = Fields /\ kept.st = "busy" /\ kept.ask = x.ask /\ kept.leg = x.leg
      /\ kept.at = x.at
      /\ DOMAIN hit = Fields /\ hit.st = "busy" /\ hit.ask = x.ask /\ hit.leg = x.leg
      /\ hit.at = x.at
  BY <1>5 DEF Fields
<1>7. CASE ~IsListing(x)
  <2>1. PagesEnd(c, y) \in {Answered(kept), Ended(c, "error"), Answered(hit)}
    BY DEF PagesEnd
  <2> HIDE DEF kept, hit, last
  <2>2. FollowsOn(c, Answered(kept)) /\ FollowsOn(c, Answered(hit))
    BY <1>1, <1>6, <1>7, OtherwiseFollowed
  <2>3. FollowsOn(c, y)
    BY <1>1, <1>5, <1>7, OtherwiseFollowed
  <2>4. FollowsOn(c, Ended(c, "error"))
    BY <1>1, <1>4, <1>7, OtherwiseFollowed DEF Ended
  <2>5. \E z \in {Answered(kept), Answered(hit), y, Ended(c, "error")} : Become(c, z)
    BY <1>3, <2>1
  <2> QED
    BY <1>1, <2>2, <2>3, <2>4, <2>5, FollowsOnKeeps
<1>8. CASE IsListing(x)
  <2> DEFINE S == held[x.ask.server]
             Z == ZonesAt(x.ask.server)
  <2>1. /\ Attends(x, S, Z, nextId) /\ Server(c) = x.ask.server
        /\ FollowsOn(c, Ended(c, "error"))
    BY <1>1, <1>8, ListingFollowed, ListingAtWork DEF Ended
  <2>2. H = S /\ page \in PagesOf(S, x.offset) /\ totals \in {{}, {Cardinality(S)}}
    BY <1>2, <2>1
  <2> HIDE DEF S, Z, H
  <2>3. Following(x, S, Z, nextId) /\ Sees(x, S, Z)
    BY <2>1 DEF Attends
  <2>4. Of(x) = "unifi" /\ ~AcrossZones(x.ask) /\ x.todo = <<"page">>
    BY <1>1, <2>3, NextRequest
  <2>5. Op(c) = "list_records"
    BY <1>1, <1>8, <2>4, ListingAtWork
  <2>6. \A r \in S : r.id < nextId
    BY <2>1, <2>4 DEF Attends, ById
  <2>7. CASE last
    <3>1. Len(page) < PageSize \/ Len(y.got) >= Cardinality(S)
      <4>1. PageSize \in Nat \ {0}
        BY OperationsAssumption
      <4> QED
        BY <2>2, <2>7, <4>1 DEF U!LastPage
    <3>2. PagesEnd(c, y) = Answered(kept)
      BY <2>5 DEF PagesEnd
    <3>3. Tracked(Answered(kept), S, Z, nextId)
      <4>1. kept = [y EXCEPT !.got = KeptPages(y, y.got)]
        OBVIOUS
      <4> HIDE DEF kept
      <4> QED
        BY <1>5, <2>2, <2>3, <2>4, <2>6, <3>1, <4>1, PagesEndTracked
    <3> HIDE DEF kept, hit
    <3>4. Answered(kept).ask = x.ask
      BY <1>4, <1>6, AnsweredCarries DEF IsCall, Carries
    <3>5. FollowsOn(c, Answered(kept))
      BY <3>3, <3>4 DEF FollowsOn, S, Z
    <3> QED
      BY <1>1, <1>3, <2>7, <3>2, <3>5, FollowsOnKeeps
  <2>8. CASE ~last
    <3>1. Len(page) # 0
      BY <2>8 DEF U!LastPage
    <3>2. y.offset = x.offset + Len(page)
      BY <1>5, <3>1 DEF U!NextOffset
    <3> HIDE DEF kept, hit, last
    <3>3. Tracked(y, S, Z, nextId)
      BY <1>4, <1>5, <2>2, <2>3, <2>4, <2>6, <3>2, PageTracked
    <3>4. FollowsOn(c, y)
      BY <1>5, <3>3 DEF FollowsOn, S, Z
    <3> QED
      BY <1>1, <1>3, <2>1, <2>8, <3>4, FollowsOnKeeps
  <2> QED
    BY <2>7, <2>8
<1> QED
  BY <1>7, <1>8

\* A listing that begins has nothing and owes nothing.
LEMMA BegunFollowing ==
  ASSUME NEW x, DOMAIN x = Fields, WellAsked(x.ask), NEW S, IsFiniteSet(S), NEW Z, IsFiniteSet(Z),
         Of(x) = "unifi" => OwnIds(S),
         x.todo = RequestsOn(x.ask, 1), RequestsOn(x.ask, 1) # Unsupported,
         x.leg = 1, x.at = ArgsOf(x.ask), x.left = << >>, x.got = << >>, x.offset = 0,
         x.stood = S, x.seen = S, x.skipped = {}, x.gone = 0, x.cut = 0, x.grown = 0,
         NEW n
  PROVE  Following(x, S, Z, n)
<1>1. Collects(x)
  <2>1. x.got \in Seq(x.seen)
    BY NothingTwice
  <2> QED
    BY <2>1 DEF Collects
<1>2. Range(x.left) = {} /\ Twice(x.left) = {} /\ x.left \in Seq(Zones)
      /\ Range(x.got) = {} /\ Twice(x.got) = {}
  BY NothingTwice
<1>3. Cardinality({}) = 0 /\ Len(<< >>) = 0
  BY FS_EmptySet
<1>4. CASE AcrossZones(x.ask)
  <2>1. Zoned(Of(x)) /\ x.todo = <<"act">>
    BY <1>4, ListingMethods
  <2>2. \A z : ZoneRank(Z, z) \in Nat
    <3> TAKE z
    <3>1. IsFiniteSet({y \in Z : ZonePlace[y] < ZonePlace[z]})
      BY FS_Subset
    <3> QED
      BY <3>1, FS_CardinalityType DEF ZoneRank
  <2>3. Passed(x, Z) = {}
    BY <2>2 DEF Passed
  <2>4. Again(x, Z) = {}
    BY <1>2 DEF Again
  <2>5. Cardinality(Passed(x, Z)) = 0 /\ Cardinality(Again(x, Z)) = 0
    BY <1>3, <2>3, <2>4, Zenon
  <2>6. Cardinality(Passed(x, Z)) <= x.cut /\ Cardinality(Again(x, Z)) <= x.grown
    BY <2>5
  <2>7. ZonesPaged(x, Z)
    <3>1. x.offset \in Nat
      OBVIOUS
    <3> QED
      BY <1>2, <2>1, <2>6, <3>1, Zenon DEF ZonesPaged
  <2> QED
    BY <1>1, <1>4, <2>1, <2>7 DEF Following
<1>5. CASE ~AcrossZones(x.ask)
  <2>1. x.todo = ToList(Of(x))
    BY <1>5, ListingMethods
  <2>2. ASSUME Of(x) = "unifi"
        PROVE  PoliciesPaged(x, S, n)
    <3>1. x.todo = <<"site", "page">>
      BY <2>1, <2>2 DEF ToList
    <3>2. ASSUME NEW r \in S
          PROVE  ~(Below(S, r.id) <= 0)
      <4>1. Below(S, r.id) = Rank(S, r) + 1
        BY <2>2, BelowRank
      <4>2. IsFiniteSet({q \in S : q.id < r.id})
        BY FS_Subset
      <4>3. Rank(S, r) \in Nat
        BY <4>2, FS_CardinalityType DEF Rank
      <4> QED
        BY <4>1, <4>3
    <3>3. Behind(x, S, x.offset) = {}
      BY <3>2 DEF Behind
    <3>4. Behind(x, S, x.offset) \ Range(x.got) = {}
      BY <3>3
    <3>5. Cardinality(Behind(x, S, x.offset) \ Range(x.got)) <= x.gone
      <4>1. Cardinality(Behind(x, S, x.offset) \ Range(x.got)) = 0
        BY <1>3, <3>4, Zenon
      <4> QED
        BY <4>1
    <3> QED
      BY <1>2, <1>3, <3>1, <3>5 DEF PoliciesPaged
  <2>3. Of(x) = "pihole" => ListsRead(x)
    BY <2>1 DEF ToList, ListsRead
  <2>4. EachDomain(x) => DomainsRead(x)
    BY <2>1 DEF ToList, DomainsRead, EachDomain
  <2>5. OneRead(x)
    BY <2>1 DEF ZoneTodo, OneRead
  <2> QED
    BY <1>1, <1>5, <2>2, <2>3, <2>4, <2>5 DEF Following
<1> QED
  BY <1>4, <1>5

\* A call that begins, or is refused before its first request.
LEMMA BeginFollowed ==
  ASSUME Inv, Listings, NEW c \in Clients, NEW q \in load.asks[c],
         NEW how \in {"denied", Refusal(q.ask), "error"}, Begin(c, q, how)
  PROVE  Listings'
<1> DEFINE a == q.ask
           S == held[a.server]
           Z == ZonesAt(a.server)
           y == [Idle EXCEPT
                   !.st = IF how = "none" THEN "busy" ELSE "done",
                   !.mcp = q.mcp, !.ask = q.ask, !.outcome = how,
                   !.todo = IF how = "none" THEN RequestsOn(q.ask, 1) ELSE << >>,
                   !.at = ArgsOf(q.ask), !.stood = held[q.ask.server],
                   !.seen = held[q.ask.server]]
<1>1. Become(c, y) /\ held' = held /\ zid' = zid /\ nextId' = nextId
  BY DEF Begin
<1>2. a \in Parameters /\ a.server \in Servers
  BY OperationsAssumption DEF Inv, Parameters
<1>3. a.op = "list_records" => WellAsked(a)
  BY <1>2, OperationsAssumption DEF Inv, WellAsked
<1>4. /\ DOMAIN y = Fields
      /\ y.st = (IF how = "none" THEN "busy" ELSE "done") /\ y.ask = a /\ y.outcome = how
      /\ y.todo = (IF how = "none" THEN RequestsOn(a, 1) ELSE << >>)
      /\ y.leg = 1 /\ y.at = ArgsOf(a) /\ y.left = << >> /\ y.got = << >> /\ y.offset = 0
      /\ y.stood = S /\ y.seen = S /\ y.skipped = {} /\ y.gone = 0 /\ y.cut = 0 /\ y.grown = 0
  BY DEF Idle, Fields
<1> HIDE DEF y
<1>5. how \in {"none", "denied", "unsupported", "error"}
      /\ (how = "none" => RequestsOn(a, 1) # Unsupported)
  BY DEF Refusal
<1>6. IsFiniteSet(S) /\ (Of(y) = "unifi" => OwnIds(S))
  <2>1. /\ IsFiniteSet(S)
        /\ ById(VendorOf[a.server]) =>
             \A p, r \in S : p.id \in 1..(nextId - 1) /\ (p.id = r.id => p = r)
    BY <1>2 DEF Inv, HeldOK
  <2>2. nextId \in Nat \ {0}
    BY DEF Inv
  <2>3. Of(y) = "unifi" => ById(VendorOf[a.server])
    BY <1>4 DEF Of, ById
  <2> HIDE DEF S
  <2> QED
    BY <2>1, <2>2, <2>3 DEF OwnIds
<1>7. IsFiniteSet(Z)
  BY <1>2 DEF Listings, Rooted
<1> HIDE DEF S, Z, a
<1>8. how = "none" /\ IsListing(y) => Following(y, S, Z, nextId)
  <2> SUFFICES ASSUME how = "none", IsListing(y)
               PROVE  Following(y, S, Z, nextId)
    OBVIOUS
  <2>1. WellAsked(y.ask) /\ y.todo = RequestsOn(y.ask, 1) /\ RequestsOn(y.ask, 1) # Unsupported
        /\ y.at = ArgsOf(y.ask)
    BY <1>3, <1>4, <1>5 DEF IsListing
  <2> QED
    BY <1>4, <1>6, <1>7, <2>1, BegunFollowing
<1>9. Tracked(y, S, Z, nextId)
  <2>1. CASE how = "none"
    <3>1. y.st = "busy"
      BY <1>4, <2>1
    <3> QED
      BY <1>4, <1>8, <2>1, <3>1 DEF Tracked
  <2>2. CASE how # "none"
    <3>1. y.st = "done" /\ y.outcome # "ok"
      BY <1>4, <1>5, <2>2
    <3> QED
      BY <3>1 DEF Tracked
  <2> QED
    BY <2>1, <2>2
<1>10. Followed(y)
  BY <1>4, <1>9 DEF Followed, S, Z
<1> QED
  BY <1>1, <1>10, BecomesFollowed

\* A tool, or a command.
LEMMA StartFollowed ==
  ASSUME Inv, Listings, NEW c \in Clients, StartTool(c) \/ StartCommand(c)
  PROVE  Listings'
<1>1. \E q \in load.asks[c] : \E how \in {"denied", Refusal(q.ask), "error"} : Begin(c, q, how)
  BY DEF StartTool, StartCommand
<1> QED
  BY <1>1, BeginFollowed

-----------------------------------------------------------------------------
(* A listing watches a change of its server *)

\* A zone that is created moves the ones behind it on by one place.
LEMMA RankMoves ==
  ASSUME NEW Z \in SUBSET Zones, IsFiniteSet(Z), NEW w \in Zones \ Z, NEW z \in Zones
  PROVE  /\ ZoneRank(Z, z) \in Nat
         /\ ZoneRank(Z \cup {w}, z) =
              IF ZonePlace[w] < ZonePlace[z] THEN ZoneRank(Z, z) + 1 ELSE ZoneRank(Z, z)
         /\ ~(ZonePlace[w] < ZonePlace[z]) => ZoneRank(Z, z) <= ZoneRank(Z, w)
         /\ ZonePlace[w] < ZonePlace[z] => ZoneRank(Z, w) <= ZoneRank(Z, z)
<1> DEFINE B == {y \in Z : ZonePlace[y] < ZonePlace[z]}
           C1 == {y \in Z \cup {w} : ZonePlace[y] < ZonePlace[z]}
           W == {y \in Z : ZonePlace[y] < ZonePlace[w]}
<1>1. IsFiniteSet(B) /\ IsFiniteSet(W)
  BY FS_Subset
<1>2. Cardinality(B) \in Nat /\ Cardinality(W) \in Nat
  BY <1>1, FS_CardinalityType
<1>3. ZonePlace \in [Zones -> Nat]
  BY OperationsAssumption
<1>4. CASE ZonePlace[w] < ZonePlace[z]
  <2>1. C1 = B \cup {w} /\ w \notin B /\ W \subseteq B
    BY <1>3, <1>4
  <2> HIDE DEF B, C1, W
  <2>2. Cardinality(C1) = Cardinality(B) + 1
    BY <1>1, <2>1, FS_AddElement
  <2>3. Cardinality(W) <= Cardinality(B)
    BY <1>1, <2>1, FS_Subset
  <2> QED
    BY <1>2, <1>4, <2>2, <2>3 DEF ZoneRank, B, C1, W
<1>5. CASE ~(ZonePlace[w] < ZonePlace[z])
  <2>1. C1 = B /\ B \subseteq W
    BY <1>3, <1>5
  <2> HIDE DEF B, C1, W
  <2>2. Cardinality(B) <= Cardinality(W)
    BY <1>1, <2>1, FS_Subset
  <2> QED
    BY <1>2, <1>5, <2>1, <2>2 DEF ZoneRank, B, C1, W
<1> QED
  BY <1>4, <1>5

\* No two zones have the same place.
LEMMA RankTells ==
  ASSUME NEW Z \in SUBSET Zones, IsFiniteSet(Z), NEW y \in Z, NEW z \in Z,
         ZoneRank(Z, y) = ZoneRank(Z, z)
  PROVE  y = z
<1> DEFINE k == [x \in Z |-> ZonePlace[x]]
<1>1. /\ ZonePlace \in [Zones -> Nat]
      /\ \A p, q \in Zones : ZonePlace[p] = ZonePlace[q] => p = q
  BY OperationsAssumption DEF IsInjective
<1>2. ByKey(Z, k)
  BY <1>1 DEF ByKey
<1>3. ASSUME NEW x \in Z
      PROVE  ZoneRank(Z, x) = Place(Z, k, x)
  <2>1. {p \in Z : ZonePlace[p] < ZonePlace[x]} = {p \in Z : k[p] < k[x]}
    OBVIOUS
  <2> QED
    BY <2>1 DEF ZoneRank, Place
<1> HIDE DEF k
<1> QED
  BY <1>2, <1>3, PlacesFill

\* Of the zones at one place there is one.
LEMMA OneAtPlace ==
  ASSUME NEW Z \in SUBSET Zones, IsFiniteSet(Z), NEW o
  PROVE  \E e : \A z \in Z : ZoneRank(Z, z) = o => z = e
<1>1. CASE \E e \in Z : ZoneRank(Z, e) = o
  BY <1>1, RankTells
<1>2. CASE ~ \E e \in Z : ZoneRank(Z, e) = o
  BY <1>2
<1> QED
  BY <1>1, <1>2

\* A zone that is created brings at most one zone onto the pages ahead that
\* was behind them, or is that zone itself.
LEMMA CreatedAgain ==
  ASSUME NEW Z \in SUBSET Zones, IsFiniteSet(Z), NEW w \in Zones \ Z, NEW R, NEW o \in Nat
  PROVE  \E e : {z \in R \cap (Z \cup {w}) : ZoneRank(Z \cup {w}, z) >= o}
                  \subseteq {z \in R \cap Z : ZoneRank(Z, z) >= o} \cup {e}
<1> DEFINE N == {z \in R \cap (Z \cup {w}) : ZoneRank(Z \cup {w}, z) >= o}
           A == {z \in R \cap Z : ZoneRank(Z, z) >= o}
<1>1. ASSUME NEW z \in N
      PROVE  /\ z \in Zones /\ ZoneRank(Z, z) \in Nat /\ ZoneRank(Z, w) \in Nat
             /\ z = w => ZoneRank(Z, w) >= o
             /\ z # w => /\ z \in Z
                         /\ \/ z \in A
                            \/ ZoneRank(Z, z) = o - 1 /\ ZoneRank(Z, w) <= ZoneRank(Z, z)
  <2>1. z \in Zones /\ z \in R /\ z \in Z \cup {w} /\ ZoneRank(Z \cup {w}, z) >= o
    OBVIOUS
  <2>2. /\ ZoneRank(Z, z) \in Nat
        /\ ZoneRank(Z \cup {w}, z) =
             IF ZonePlace[w] < ZonePlace[z] THEN ZoneRank(Z, z) + 1 ELSE ZoneRank(Z, z)
        /\ ~(ZonePlace[w] < ZonePlace[z]) => ZoneRank(Z, z) <= ZoneRank(Z, w)
        /\ ZonePlace[w] < ZonePlace[z] => ZoneRank(Z, w) <= ZoneRank(Z, z)
    BY <2>1, RankMoves
  <2>3. ZoneRank(Z, w) \in Nat /\ ~(ZonePlace[w] < ZonePlace[w])
    <3>1. ZonePlace[w] \in Nat
      BY OperationsAssumption
    <3> QED
      BY <3>1, RankMoves
  <2>4. z = w => ZoneRank(Z, w) >= o
    BY <2>1, <2>2, <2>3
  <2>5. ASSUME z # w, ~(ZoneRank(Z, z) >= o)
        PROVE  ZoneRank(Z, z) = o - 1 /\ ZoneRank(Z, w) <= ZoneRank(Z, z)
    BY <2>1, <2>2, <2>5
  <2> QED
    BY <2>1, <2>2, <2>3, <2>4, <2>5
<1>2. CASE w \in N
  <2>1. N \subseteq A \cup {w}
    BY <1>1, <1>2
  <2> QED
    BY <2>1
<1>3. CASE w \notin N
  <2>1. PICK e : \A z \in Z : ZoneRank(Z, z) = o - 1 => z = e
    BY OneAtPlace
  <2>2. N \subseteq A \cup {e}
    BY <1>1, <1>3, <2>1
  <2> QED
    BY <2>2
<1> QED
  BY <1>2, <1>3

\* A zone that is removed brings at most one behind the next page.
LEMMA RemovedPassed ==
  ASSUME NEW Z1 \in SUBSET Zones, IsFiniteSet(Z1), NEW w \in Zones \ Z1, NEW o \in Nat,
         NEW A \in SUBSET (Z1 \cup {w})
  PROVE  \E e : {z \in A : ZoneRank(Z1, z) < o}
                  \subseteq {z \in A : ZoneRank(Z1 \cup {w}, z) < o} \cup {e}
<1> DEFINE Z == Z1 \cup {w}
<1>1. Z \in SUBSET Zones /\ IsFiniteSet(Z)
  BY FS_AddElement
<1>2. PICK e : \A z \in Z : ZoneRank(Z, z) = o => z = e
  <2> HIDE DEF Z
  <2> QED
    BY <1>1, OneAtPlace
<1>3. ASSUME NEW z \in A, ZoneRank(Z1, z) < o
      PROVE  ZoneRank(Z, z) < o \/ ZoneRank(Z, z) = o
  <2>1. z \in Zones
    BY <1>1
  <2>2. ZoneRank(Z1, z) \in Nat /\ ZoneRank(Z, z) \in {ZoneRank(Z1, z), ZoneRank(Z1, z) + 1}
    BY <2>1, RankMoves
  <2> QED
    BY <1>3, <2>2
<1>4. {z \in A : ZoneRank(Z1, z) < o} \subseteq {z \in A : ZoneRank(Z, z) < o} \cup {e}
  <2> HIDE DEF Z
  <2>1. A \subseteq Z
    BY DEF Z
  <2> QED
    BY <1>2, <1>3, <2>1
<1> QED
  BY <1>4

\* The zones of a server change by one at most.
ZonesMove(Z, Z1, cuts, grows) ==
  /\ cuts \in Nat /\ grows \in Nat
  /\ \/ Z1 = Z
     \/ grows = 1 /\ \E w \in Zones \ Z : Z1 = Z \cup {w}
     \/ cuts = 1 /\ \E w \in Z : Z1 = Z \ {w}

\* A listing under way while its server, that held S, gets to hold S1.
Watching(x, y, S, S1, cuts, grows) ==
  /\ DOMAIN y = Fields
  /\ y.ask = x.ask /\ y.st = x.st /\ y.leg = x.leg /\ y.todo = x.todo /\ y.at = x.at
  /\ y.left = x.left /\ y.offset = x.offset /\ y.got = x.got /\ y.skipped = x.skipped
  /\ y.stood = x.stood \cap S1 /\ y.seen = x.seen \cup S1
  /\ y.gone = x.gone + Cardinality(Ids(S) \ Ids(S1))
  /\ y.cut = x.cut + cuts /\ y.grown = x.grown + grows

\* The ids of a set of records are finitely many.
LEMMA FiniteIds ==
  ASSUME NEW S, IsFiniteSet(S), NEW S1
  PROVE  /\ IsFiniteSet(Ids(S)) /\ IsFiniteSet(Ids(S) \ Ids(S1))
         /\ Cardinality(Ids(S) \ Ids(S1)) \in Nat
<1> DEFINE f == [r \in S |-> r.id]
<1>1. IsFiniteSet(Range(f))
  BY FiniteValues
<1>2. Range(f) = Ids(S)
  BY DEF Range, Ids
<1>3. IsFiniteSet(Ids(S)) /\ IsFiniteSet(Ids(S) \ Ids(S1))
  BY <1>1, <1>2, FS_Difference
<1> QED
  BY <1>3, FS_CardinalityType

\* What it has collected stays, and it owes no more.
LEMMA WatchingCollects ==
  ASSUME NEW x, Collects(x), NEW S, IsFiniteSet(S), NEW S1, IsFiniteSet(S1),
         NEW cuts \in Nat, NEW grows \in Nat, NEW y, Watching(x, y, S, S1, cuts, grows)
  PROVE  /\ Collects(y) /\ Of(y) = Of(x) /\ EachDomain(y) = EachDomain(x)
         /\ Owed(y) \subseteq Owed(x) /\ (Listing1(x) => Listing1(y))
         /\ y.ask = x.ask /\ y.got = x.got /\ y.stood \subseteq x.stood /\ x.seen \subseteq y.seen
         /\ IsFiniteSet(y.seen) /\ y.skipped = x.skipped
         /\ x.cut <= y.cut /\ x.grown <= y.grown /\ x.gone <= y.gone
<1>1. /\ DOMAIN x = Fields /\ WellAsked(x.ask) /\ IsFiniteSet(x.seen) /\ x.stood \subseteq x.seen
      /\ x.got \in Seq(x.seen) /\ x.cut \in Nat /\ x.grown \in Nat /\ x.gone \in Nat
  BY DEF Collects
<1>2. /\ DOMAIN y = Fields /\ y.ask = x.ask /\ y.at = x.at /\ y.got = x.got
      /\ y.skipped = x.skipped /\ y.stood = x.stood \cap S1 /\ y.seen = x.seen \cup S1
      /\ y.gone = x.gone + Cardinality(Ids(S) \ Ids(S1))
      /\ y.cut = x.cut + cuts /\ y.grown = x.grown + grows
  BY DEF Watching
<1>3. Cardinality(Ids(S) \ Ids(S1)) \in Nat
  BY FiniteIds
<1>4. /\ y.cut \in Nat /\ y.grown \in Nat /\ y.gone \in Nat
      /\ x.cut <= y.cut /\ x.grown <= y.grown /\ x.gone <= y.gone
  BY <1>1, <1>2, <1>3
<1>5. IsFiniteSet(y.seen)
  <2>1. IsFiniteSet(x.seen \cup S1)
    BY <1>1, FS_Union
  <2> QED
    BY <1>2, <2>1
<1>6. x.seen \subseteq y.seen /\ y.stood \subseteq x.stood /\ y.stood \subseteq y.seen
  BY <1>1, <1>2
<1>7. y.got \in Seq(y.seen)
  <2>1. \A q \in Seq(x.seen) : q \in Seq(y.seen)
    BY <1>6
  <2> QED
    BY <1>1, <1>2, <2>1
<1>8. Owed(y) \subseteq Owed(x)
  BY <1>2, <1>5, <1>6, FewerOwed
<1>9. Of(y) = Of(x) /\ EachDomain(y) = EachDomain(x)
  BY <1>2 DEF Of, EachDomain
<1>10. Listing1(x) => Listing1(y)
  BY <1>2 DEF Listing1
<1>11. Collects(y)
  BY <1>1, <1>2, <1>4, <1>5, <1>6, <1>7 DEF Collects
<1> QED
  BY <1>2, <1>4, <1>5, <1>6, <1>8, <1>9, <1>10, <1>11

\* The pages of zones, while a zone is created or removed.
LEMMA WatchingZones ==
  ASSUME NEW x, Collects(x), NEW S, IsFiniteSet(S), NEW S1, IsFiniteSet(S1),
         NEW Z \in SUBSET Zones, IsFiniteSet(Z), ZonesOf(x.stood) \subseteq Z,
         NEW Z1, NEW cuts, NEW grows, ZonesMove(Z, Z1, cuts, grows),
         NEW y, Watching(x, y, S, S1, cuts, grows), ZonesPaged(x, Z)
  PROVE  ZonesPaged(y, Z1)
<1>1. cuts \in Nat /\ grows \in Nat
  BY DEF ZonesMove
<1>2. /\ Collects(y) /\ y.stood \subseteq x.stood
      /\ x.cut \in Nat /\ x.grown \in Nat /\ IsFiniteSet(x.stood)
  <2>1. /\ Collects(y) /\ y.stood \subseteq x.stood
        /\ x.cut \in Nat /\ x.grown \in Nat /\ IsFiniteSet(x.seen) /\ x.stood \subseteq x.seen
    BY <1>1, WatchingCollects DEF Collects
  <2> QED
    BY <2>1, OwedStood
<1>3. /\ y.leg = x.leg /\ y.todo = x.todo /\ y.got = x.got /\ y.skipped = x.skipped
      /\ y.offset = x.offset /\ y.left = x.left /\ y.cut = x.cut + cuts /\ y.grown = x.grown + grows
  BY DEF Watching
<1>4. /\ x.offset \in Nat /\ x.left \in Seq(Zones)
      /\ Cardinality(Passed(x, Z)) <= x.cut /\ Cardinality(Again(x, Z)) <= x.grown
  BY DEF ZonesPaged
<1> DEFINE o == x.offset
           R == Range(x.left)
           A == ZonesOf(x.stood)
           A1 == ZonesOf(y.stood)
<1>5. A1 \subseteq A /\ IsFiniteSet(A)
  BY <1>2, FiniteZones DEF ZonesOf
<1>6. IsFiniteSet(Passed(x, Z)) /\ IsFiniteSet(Again(x, Z))
  <2>1. IsFiniteSet(Twice(x.left)) /\ IsFiniteSet(R)
    BY <1>4, FiniteRange
  <2>2. Passed(x, Z) \subseteq A /\ {z \in R \cap Z : ZoneRank(Z, z) >= o} \subseteq R
    BY DEF Passed
  <2>3. IsFiniteSet(Passed(x, Z)) /\ IsFiniteSet({z \in R \cap Z : ZoneRank(Z, z) >= o})
    BY <1>5, <2>1, <2>2, FS_Subset
  <2> QED
    BY <2>1, <2>3, FS_Union DEF Again
<1>7. ASSUME Passed(y, Z1) \subseteq Passed(x, Z)
      PROVE  Cardinality(Passed(y, Z1)) <= y.cut
  <2>1. IsFiniteSet(Passed(y, Z1)) /\ Cardinality(Passed(y, Z1)) <= x.cut
    BY <1>2, <1>4, <1>6, <1>7, NoMore
  <2>2. Cardinality(Passed(y, Z1)) \in Nat
    BY <2>1, FS_CardinalityType
  <2> QED
    BY <1>1, <1>2, <1>3, <2>1, <2>2
<1>8. ASSUME Again(y, Z1) \subseteq Again(x, Z)
      PROVE  Cardinality(Again(y, Z1)) <= y.grown
  <2>1. IsFiniteSet(Again(y, Z1)) /\ Cardinality(Again(y, Z1)) <= x.grown
    BY <1>2, <1>4, <1>6, <1>8, NoMore
  <2>2. Cardinality(Again(y, Z1)) \in Nat
    BY <2>1, FS_CardinalityType
  <2> QED
    BY <1>1, <1>2, <1>3, <2>1, <2>2
<1>9. CASE Z1 = Z
  <2>1. Passed(y, Z1) \subseteq Passed(x, Z)
    BY <1>3, <1>5, <1>9 DEF Passed
  <2>2. Again(y, Z1) \subseteq Again(x, Z)
    BY <1>3, <1>9 DEF Again
  <2> QED
    BY <1>3, <1>7, <1>8, <2>1, <2>2 DEF ZonesPaged
<1>10. ASSUME grows = 1, NEW w \in Zones \ Z, Z1 = Z \cup {w}
      PROVE  ZonesPaged(y, Z1)
  <2>1. Passed(y, Z1) \subseteq Passed(x, Z)
    <3>1. ASSUME NEW z \in Z, ZoneRank(Z1, z) < o
          PROVE  ZoneRank(Z, z) < o
      <4>1. ZoneRank(Z, z) \in Nat /\ ZoneRank(Z1, z) \in {ZoneRank(Z, z), ZoneRank(Z, z) + 1}
        BY <1>10, RankMoves
      <4> QED
        BY <1>4, <3>1, <4>1
    <3> QED
      BY <1>3, <1>5, <3>1 DEF Passed
  <2>2. PICK e : {z \in R \cap (Z \cup {w}) : ZoneRank(Z \cup {w}, z) >= o}
                   \subseteq {z \in R \cap Z : ZoneRank(Z, z) >= o} \cup {e}
    <3> HIDE DEF R, o
    <3>1. o \in Nat
      BY <1>4 DEF o
    <3> QED
      BY <3>1, CreatedAgain
  <2>3. Again(y, Z1) \subseteq Again(x, Z) \cup {e}
    BY <1>3, <1>10, <2>2 DEF Again
  <2>4. Cardinality(Again(y, Z1)) <= x.grown + 1
    BY <1>2, <1>4, <1>6, <2>3, OneMore
  <2> QED
    BY <1>3, <1>7, <1>10, <2>1, <2>4, <1>4 DEF ZonesPaged
<1>11. ASSUME cuts = 1, NEW w \in Z, Z1 = Z \ {w}
       PROVE  ZonesPaged(y, Z1)
  <2>1. Z1 \in SUBSET Zones /\ IsFiniteSet(Z1) /\ w \in Zones \ Z1 /\ Z = Z1 \cup {w}
    BY <1>11, FS_Subset
  <2>2. Again(y, Z1) \subseteq Again(x, Z)
    <3>1. ASSUME NEW z \in Z1, ZoneRank(Z1, z) >= o
          PROVE  ZoneRank(Z, z) >= o
      <4>1. ZoneRank(Z1, z) \in Nat /\ ZoneRank(Z, z) \in {ZoneRank(Z1, z), ZoneRank(Z1, z) + 1}
        BY <2>1, RankMoves
      <4> QED
        BY <1>4, <3>1, <4>1
    <3> QED
      BY <1>3, <2>1, <3>1 DEF Again
  <2>3. PICK e : {z \in A : ZoneRank(Z1, z) < o}
                   \subseteq {z \in A : ZoneRank(Z1 \cup {w}, z) < o} \cup {e}
    <3>1. o \in Nat /\ A \in SUBSET (Z1 \cup {w})
      BY <1>4, <2>1
    <3> HIDE DEF A, o
    <3> QED
      BY <2>1, <3>1, RemovedPassed
  <2>4. Passed(y, Z1) \subseteq Passed(x, Z) \cup {e}
    BY <1>3, <1>5, <2>1, <2>3 DEF Passed
  <2>5. Cardinality(Passed(y, Z1)) <= x.cut + 1
    BY <1>2, <1>4, <1>6, <2>4, OneMore
  <2> QED
    BY <1>3, <1>8, <1>11, <2>2, <2>5, <1>4 DEF ZonesPaged
<1> QED
  BY <1>9, <1>10, <1>11 DEF ZonesMove

\* The ids of a server's records, of which n is the next: those of now are old
\* or given since.
IdsMove(S, S1, n, n1) ==
  /\ OwnIds(S) /\ OwnIds(S1) /\ n \in Nat /\ n1 \in Nat /\ n <= n1
  /\ \A r \in S : r.id < n
  /\ \A i \in Ids(S1) : i \in Ids(S) \/ i >= n

\* Removals move an old record forward, by no more places than there were.
LEMMA BelowMoves ==
  ASSUME NEW S, NEW S1, NEW n, NEW n1, IdsMove(S, S1, n, n1), NEW i \in Nat, i < n
  PROVE  /\ Below(S, i) \in Nat /\ Below(S1, i) \in Nat /\ Below(S1, i) <= Below(S, i)
         /\ Below(S, i) <= Below(S1, i) + Cardinality(Ids(S) \ Ids(S1))
<1> DEFINE J == {j \in Ids(S) : j <= i}
           J1 == {j \in Ids(S1) : j <= i}
           D == Ids(S) \ Ids(S1)
<1>1. /\ IsFiniteSet(S) /\ IsFiniteSet(S1) /\ n \in Nat
      /\ \A r \in S1 : r.id \in Nat
      /\ \A j \in Ids(S1) : j \in Ids(S) \/ j >= n
  BY DEF IdsMove, OwnIds
<1>2. /\ IsFiniteSet(Ids(S)) /\ IsFiniteSet(Ids(S1)) /\ IsFiniteSet(D) /\ Cardinality(D) \in Nat
  BY <1>1, FiniteIds
<1>3. IsFiniteSet(J) /\ IsFiniteSet(J1)
  BY <1>2, FS_Subset
<1>4. Cardinality(J) \in Nat /\ Cardinality(J1) \in Nat
  BY <1>3, FS_CardinalityType
<1>5. \A j \in Ids(S1) : j \in Nat
  BY <1>1 DEF Ids
<1>6. J1 \subseteq J /\ J \subseteq J1 \cup D
  BY <1>1, <1>5
<1> HIDE DEF J, J1, D
<1>7. Cardinality(J1) <= Cardinality(J)
  BY <1>3, <1>6, FS_Subset
<1>8. Cardinality(J) <= Cardinality(J1) + Cardinality(D)
  BY <1>2, <1>3, <1>4, <1>6, SumOf
<1> QED
  BY <1>4, <1>7, <1>8 DEF Below, J, J1, D

\* No two records have the same place.
LEMMA BelowTells ==
  ASSUME NEW S, OwnIds(S), NEW q \in S, NEW r \in S, Below(S, q.id) = Below(S, r.id)
  PROVE  q = r
<1> DEFINE k == [x \in S |-> x.id]
<1>1. ByKey(S, k)
  BY DEF ByKey, OwnIds
<1>2. ASSUME NEW x \in S
      PROVE  Rank(S, x) = Place(S, k, x)
  <2>1. {p \in S : p.id < x.id} = {p \in S : k[p] < k[x]}
    OBVIOUS
  <2> QED
    BY <2>1 DEF Rank, Place
<1>3. Below(S, q.id) = Rank(S, q) + 1 /\ Below(S, r.id) = Rank(S, r) + 1
  BY BelowRank
<1>4. \A x \in S : Place(S, k, x) \in Nat
  <2> HIDE DEF k
  <2> QED
    BY <1>1, PlacesGrow
<1> HIDE DEF k
<1>5. Place(S, k, q) = Place(S, k, r)
  <2>1. Below(S, q.id) = Place(S, k, q) + 1
    BY <1>2, <1>3, Zenon
  <2>2. Below(S, r.id) = Place(S, k, r) + 1
    BY <1>2, <1>3, Zenon
  <2>3. Place(S, k, q) \in Nat /\ Place(S, k, r) \in Nat
    BY <1>4
  <2>4. Place(S, k, q) + 1 = Place(S, k, r) + 1
    BY <2>1, <2>2, Zenon
  <2> QED
    BY <2>3, <2>4
<1> QED
  BY <1>1, <1>5, PlacesFill

\* What a change brings behind the next page is no more than it removed.
LEMMA NewlyBehind ==
  ASSUME NEW S, NEW S1, NEW n, NEW n1, IdsMove(S, S1, n, n1), NEW o \in Nat,
         NEW N, N \subseteq S, \A r \in N : Below(S1, r.id) <= o /\ Below(S, r.id) > o
  PROVE  IsFiniteSet(N) /\ Cardinality(N) <= Cardinality(Ids(S) \ Ids(S1))
<1> DEFINE k == Cardinality(Ids(S) \ Ids(S1))
           I == (o + 1)..(o + k)
           f == [r \in N |-> Below(S, r.id)]
<1>1. OwnIds(S) /\ IsFiniteSet(S) /\ (\A r \in S : r.id \in Nat /\ r.id < n)
  BY DEF IdsMove, OwnIds
<1>2. k \in Nat
  BY <1>1, FiniteIds
<1>3. IsFiniteSet(N) /\ Cardinality(N) \in Nat
  BY <1>1, FS_Subset, FS_CardinalityType
<1>4. ASSUME NEW r \in N
      PROVE  f[r] \in I
  <2>1. /\ Below(S, r.id) \in Nat /\ Below(S1, r.id) \in Nat
        /\ Below(S, r.id) <= Below(S1, r.id) + k
    BY <1>1, BelowMoves
  <2>2. Below(S1, r.id) <= o /\ Below(S, r.id) > o /\ f[r] = Below(S, r.id)
    OBVIOUS
  <2> HIDE DEF k, f
  <2> QED
    BY <1>2, <2>1, <2>2
<1>5. ASSUME NEW q \in N, NEW r \in N, f[q] = f[r]
      PROVE  q = r
  BY <1>1, <1>5, BelowTells
<1>6. DOMAIN f = N
  OBVIOUS
<1>7. IsFiniteSet(I) /\ Cardinality(I) = k
  <2> HIDE DEF k
  <2> QED
    BY <1>2, FS_Interval
<1> HIDE DEF I, f
<1>8. [r \in N |-> f[r]] \in Injection(N, I)
  BY <1>4, <1>5 DEF Injection, IsInjective
<1> QED
  BY <1>7, <1>8, FS_Injection

\* The pages of policies, while records come and go.
LEMMA WatchingPolicies ==
  ASSUME NEW x, Collects(x), NEW S, NEW S1, NEW n, NEW n1, IdsMove(S, S1, n, n1),
         x.stood \subseteq S, NEW cuts \in Nat, NEW grows \in Nat,
         NEW y, Watching(x, y, S, S1, cuts, grows), PoliciesPaged(x, S, n)
  PROVE  PoliciesPaged(y, S1, n1)
<1>1. /\ y.todo = x.todo /\ y.skipped = x.skipped /\ y.got = x.got /\ y.offset = x.offset
      /\ y.stood = x.stood \cap S1 /\ y.gone = x.gone + Cardinality(Ids(S) \ Ids(S1))
  BY DEF Watching
<1>2. /\ x.todo \in {<<"site", "page">>, <<"page">>}
      /\ x.skipped = {}
      /\ x.todo = <<"site", "page">> => x.got = << >>
      /\ Twice(x.got) = {}
      /\ x.offset = Len(x.got)
      /\ \A g \in Range(x.got) : g.id \in Nat /\ g.id < n /\ Below(S, g.id) <= x.offset
      /\ Cardinality(Behind(x, S, x.offset) \ Range(x.got)) <= x.gone
  BY DEF PoliciesPaged
<1>3. /\ IsFiniteSet(x.seen) /\ x.stood \subseteq x.seen /\ x.got \in Seq(x.seen) /\ x.gone \in Nat
  BY DEF Collects
<1>4. /\ OwnIds(S) /\ IsFiniteSet(S) /\ n \in Nat /\ n1 \in Nat /\ n <= n1
      /\ \A r \in S : r.id \in Nat /\ r.id < n
  BY DEF IdsMove, OwnIds
<1>5. x.offset \in Nat
  BY <1>2, <1>3
<1> DEFINE o == x.offset
           R == Range(x.got)
           B == Behind(x, S, o) \ R
           N == {r \in x.stood \cap S1 : Below(S1, r.id) <= o /\ Below(S, r.id) > o}
           k == Cardinality(Ids(S) \ Ids(S1))
<1>6. ASSUME NEW g \in R
      PROVE  g.id \in Nat /\ g.id < n1 /\ Below(S1, g.id) <= o
  <2>1. g.id \in Nat /\ g.id < n /\ Below(S, g.id) <= o
    BY <1>2
  <2>2. Below(S, g.id) \in Nat /\ Below(S1, g.id) \in Nat /\ Below(S1, g.id) <= Below(S, g.id)
    BY <2>1, BelowMoves
  <2> HIDE DEF o
  <2>3. o \in Nat
    BY <1>5 DEF o
  <2> QED
    BY <1>4, <2>1, <2>2, <2>3
<1>7. IsFiniteSet(N) /\ Cardinality(N) <= k
  <2>1. N \subseteq S /\ \A r \in N : Below(S1, r.id) <= o /\ Below(S, r.id) > o
    OBVIOUS
  <2>2. o \in Nat
    BY <1>5
  <2> HIDE DEF N, o
  <2> QED
    BY <2>1, <2>2, NewlyBehind
<1>8. Behind(y, S1, o) \ R \subseteq B \cup N
  <2> SUFFICES ASSUME NEW r \in x.stood \cap S1, Below(S1, r.id) <= o, r \notin R
               PROVE  r \in B \cup N
    BY <1>1 DEF Behind
  <2>1. r \in S
    OBVIOUS
  <2>2. Below(S, r.id) \in Nat
    BY <1>4, <2>1, BelowMoves
  <2>3. Below(S, r.id) <= o \/ Below(S, r.id) > o
    BY <1>5, <2>2
  <2> QED
    BY <2>3 DEF Behind
<1>9. IsFiniteSet(B) /\ Cardinality(B) <= x.gone
  <2>1. B \subseteq x.stood
    BY DEF Behind
  <2>2. IsFiniteSet(x.stood)
    BY <1>3, FS_Subset
  <2>3. IsFiniteSet(B)
    BY <2>1, <2>2, FS_Subset
  <2> QED
    BY <1>2, <2>3
<1>10. k \in Nat
  BY <1>4, FiniteIds
<1>11. Cardinality(Behind(y, S1, o) \ R) <= x.gone + k
  <2> DEFINE A == Behind(y, S1, o) \ R
  <2>1. A \subseteq B \cup N
    BY <1>8
  <2> HIDE DEF A, B, N, k
  <2>2. Cardinality(A) <= x.gone + Cardinality(N)
    BY <1>3, <1>7, <1>9, <2>1, SumOf
  <2>3. IsFiniteSet(A) /\ Cardinality(A) \in Nat /\ Cardinality(N) \in Nat
    BY <1>3, <1>7, <1>9, <2>1, SumOf, FS_CardinalityType
  <2>4. Cardinality(A) <= x.gone + k
    BY <1>3, <1>7, <1>10, <2>2, <2>3
  <2> QED
    BY <2>4 DEF A
<1>12. Range(y.got) = R /\ y.offset = o /\ y.gone = x.gone + k
  BY <1>1
<1> HIDE DEF B, N, k, o, R
<1>13. /\ \A g \in Range(y.got) : g.id \in Nat /\ g.id < n1 /\ Below(S1, g.id) <= y.offset
       /\ Cardinality(Behind(y, S1, y.offset) \ Range(y.got)) <= y.gone
  BY <1>6, <1>11, <1>12
<1> QED
  BY <1>1, <1>2, <1>13 DEF PoliciesPaged

\* A listing that watches is followed on.
LEMMA WatchingFollows ==
  ASSUME NEW x, NEW S, NEW Z, NEW n, Attends(x, S, Z, n),
         NEW S1, IsFiniteSet(S), IsFiniteSet(S1), NEW Z1, NEW n1, NEW cuts, NEW grows,
         ZonesMove(Z, Z1, cuts, grows), Of(x) = "unifi" => IdsMove(S, S1, n, n1),
         NEW y, Watching(x, y, S, S1, cuts, grows)
  PROVE  Following(y, S1, Z1, n1)
<1>1. Following(x, S, Z, n) /\ Sees(x, S, Z) /\ cuts \in Nat /\ grows \in Nat /\ Collects(x)
  BY DEF Attends, ZonesMove, Following
<1>2. /\ Collects(y) /\ Of(y) = Of(x) /\ EachDomain(y) = EachDomain(x)
      /\ Owed(y) \subseteq Owed(x) /\ (Listing1(x) => Listing1(y))
      /\ y.ask = x.ask /\ y.got = x.got /\ y.stood \subseteq x.stood /\ x.seen \subseteq y.seen
      /\ IsFiniteSet(y.seen) /\ y.skipped = x.skipped
      /\ x.cut <= y.cut /\ x.grown <= y.grown
  BY <1>1, WatchingCollects
<1>3. y.leg = x.leg /\ y.todo = x.todo /\ y.at = x.at /\ y.left = x.left
  BY DEF Watching
<1>4. ASSUME AcrossZones(x.ask), ZonesPaged(x, Z)
      PROVE  ZonesPaged(y, Z1)
  <2>1. Zoned(Of(x)) /\ Z \in SUBSET Zones /\ IsFiniteSet(Z)
    BY <1>1, <1>4 DEF Following, Sees
  <2>2. ZonesOf(x.stood) \subseteq Z
    <3>1. x.stood \subseteq S /\ ZonesOf(S) \subseteq Z
      BY <1>1, <2>1 DEF Sees
    <3> QED
      BY <3>1 DEF ZonesOf
  <2> QED
    BY <1>1, <1>4, <2>1, <2>2, WatchingZones
<1>5. ASSUME ZonesRead(x)
      PROVE  ZonesRead(y)
  <2>1. /\ x.leg = 2 /\ x.todo \in ZoneTodo(Of(x)) /\ x.left \in Seq(Zones)
    BY <1>5 DEF ZonesRead
  <2>2. PICK z \in Zones : x.at = ArgsIn(x.ask, z) /\ Reading(x, <<z>> \o x.left)
    BY <1>5 DEF ZonesRead
  <2>3. PICK ahead : ahead = <<z>> \o x.left
    OBVIOUS
  <2>4. y.cut \in Nat /\ y.grown \in Nat
    BY <1>2 DEF Collects
  <2>5. Reading(x, ahead)
    BY <2>2, <2>3
  <2>6. Reading(y, ahead)
    BY <1>1, <1>2, <2>4, <2>5, ReadingOn
  <2>7. y.at = ArgsIn(y.ask, z) /\ Reading(y, <<z>> \o y.left)
    BY <1>2, <1>3, <2>2, <2>3, <2>6
  <2> QED
    BY <1>2, <1>3, <2>1, <2>7 DEF ZonesRead
<1>6. ASSUME Of(x) = "unifi", PoliciesPaged(x, S, n)
      PROVE  PoliciesPaged(y, S1, n1)
  <2>1. x.stood \subseteq S
    BY <1>1 DEF Sees
  <2> QED
    BY <1>1, <1>6, <2>1, WatchingPolicies
<1>7. ListsRead(x) => ListsRead(y)
  BY <1>2, <1>3 DEF ListsRead
<1>8. DomainsRead(x) => DomainsRead(y)
  BY <1>2, <1>3 DEF DomainsRead
<1>9. OneRead(x) => OneRead(y)
  BY <1>2, <1>3 DEF OneRead
<1>10. CASE AcrossZones(x.ask)
  <2>1. Zoned(Of(x)) /\ (ZonesPaged(x, Z) \/ ZonesRead(x))
    BY <1>1, <1>10 DEF Following
  <2>2. ZonesPaged(y, Z1) \/ ZonesRead(y)
    BY <1>4, <1>5, <1>10, <2>1
  <2> QED
    BY <1>2, <1>10, <2>1, <2>2 DEF Following
<1>11. CASE ~AcrossZones(x.ask)
  <2>1. /\ x.at = ArgsOf(x.ask) /\ x.leg = 1
        /\ Of(x) = "unifi" => PoliciesPaged(x, S, n)
        /\ Of(x) = "pihole" => ListsRead(x)
        /\ Zoned(Of(x)) => IF EachDomain(x) THEN DomainsRead(x) ELSE OneRead(x)
    BY <1>1, <1>11 DEF Following
  <2>2. /\ y.at = ArgsOf(y.ask) /\ y.leg = 1
        /\ Of(y) = "unifi" => PoliciesPaged(y, S1, n1)
        /\ Of(y) = "pihole" => ListsRead(y)
    BY <1>2, <1>3, <1>6, <1>7, <2>1
  <2>3. Zoned(Of(y)) => IF EachDomain(y) THEN DomainsRead(y) ELSE OneRead(y)
    BY <1>2, <1>8, <1>9, <2>1
  <2> QED
    BY <1>2, <1>11, <2>2, <2>3 DEF Following
<1> QED
  BY <1>10, <1>11

\* How many zones of a server are removed or created.
Count(zones, s, what) == Cardinality({t \in zones : t[1] = s /\ t[3] = what})

\* The zones of every server move as the calls under way see it.
ZonesMoved(zones) ==
  \A s \in Servers :
    ZonesMove(ZonesAt(s), ZonesAt(s)', Count(zones, s, "removed"), Count(zones, s, "created"))

\* The ids of a server's records move with what arrives.
LEMMA IdsArrive ==
  ASSUME Inv, NEW h, NEW m, Arrives(h, m), NEW s \in Servers, ById(VendorOf[s])
  PROVE  IdsMove(held[s], h[s], nextId, m)
<1>1. HeldOK(held, nextId) /\ HeldOK(h, m) /\ nextId \in Nat /\ m \in Nat /\ nextId <= m
  BY DEF Inv, Arrives
<1>2. /\ IsFiniteSet(held[s]) /\ IsFiniteSet(h[s])
      /\ \A q, r \in held[s] : q.id \in 1..(nextId - 1) /\ (q.id = r.id => q = r)
      /\ \A q, r \in h[s] : q.id \in 1..(m - 1) /\ (q.id = r.id => q = r)
  BY <1>1 DEF HeldOK
<1>3. \A r \in held[s] : r.id \in Nat /\ r.id < nextId
  BY <1>1, <1>2
<1>4. \A r \in h[s] : r.id \in Nat
  BY <1>1, <1>2
<1>5. ASSUME NEW i \in Ids(h[s])
      PROVE  i \in Ids(held[s]) \/ i >= nextId
  <2>1. PICK r \in h[s] : i = r.id
    BY DEF Ids
  <2>2. CASE r \in held[s]
    BY <2>1, <2>2 DEF Ids
  <2>3. CASE r \notin held[s]
    <3>1. r.id >= nextId \/ \E q \in held[s] : q.id = r.id
      BY <2>3 DEF Arrives, Comes
    <3> QED
      BY <2>1, <3>1 DEF Ids
  <2> QED
    BY <2>2, <2>3
<1>6. OwnIds(held[s]) /\ OwnIds(h[s])
  BY <1>2, <1>3, <1>4 DEF OwnIds
<1> QED
  BY <1>1, <1>3, <1>5, <1>6 DEF IdsMove

\* Every call that watches a change is followed on.
LEMMA WatchedFollowed ==
  ASSUME Inv, Settled, Listings, NEW h, Arrives(h, nextId'), held' = h,
         NEW zones, ZonesMoved(zones), NEW d \in Clients, call'[d] = Watched(h, zones)[d]
  PROVE  Followed(call[d])'
<1> DEFINE x == call[d]
           y == Watched(h, zones)[d]
<1>1. CASE ~Busy(d)
  <2>1. y = x
    BY <1>1 DEF Watched
  <2>2. Followed(x) /\ x.st # "busy"
    BY <1>1 DEF Listings, Busy
  <2>3. x.st = "done" /\ x.outcome = "ok" /\ IsListing(x) => Complete(x)
    BY <2>2 DEF Followed, Tracked
  <2>4. call'[d] = x
    BY <2>1
  <2> HIDE DEF x, y
  <2>5. \A S, Z, n : Tracked(x, S, Z, n)
    BY <2>2, <2>3 DEF Tracked
  <2> QED
    BY <2>4, <2>5 DEF Followed
<1>2. CASE Busy(d)
  <2>1. PICK s \in Servers : s = x.ask.server
    <3>1. x.ask \in Parameters
      BY <1>2, BusyCall
    <3>2. x.ask.server \in Servers
      BY <3>1 DEF Parameters
    <3> QED
      BY <3>2
  <2>2. /\ IsCall(x) /\ x.st = "busy" /\ DOMAIN x = Fields /\ x.ask \in Parameters
    BY <1>2, BusyCall DEF IsCall
  <2>3. /\ DOMAIN y = Fields
        /\ y.st = x.st /\ y.ask = x.ask /\ y.leg = x.leg /\ y.todo = x.todo /\ y.at = x.at
        /\ y.left = x.left /\ y.offset = x.offset /\ y.got = x.got /\ y.skipped = x.skipped
        /\ y.stood = x.stood \cap h[s] /\ y.seen = x.seen \cup h[s]
        /\ y.gone = x.gone + Cardinality(Ids(held[s]) \ Ids(h[s]))
        /\ y.cut = x.cut + Count(zones, s, "removed")
        /\ y.grown = x.grown + Count(zones, s, "created")
    BY <1>2, <2>2, <2>1 DEF Watched, Fields, Count
  <2>4. Followed(call[d])' <=> Tracked(y, h[s], ZonesAt(s)', nextId')
    <3>1. call'[d] = y /\ call'[d].ask.server = s
      BY <2>3, <2>1
    <3> HIDE DEF x, y
    <3> QED
      BY <3>1 DEF Followed, ZonesAt
  <2> HIDE DEF y
  <2>5. CASE ~IsListing(x)
    <3>1. x.at = ArgsOf(x.ask)
      BY <2>2, <2>5 DEF Listings, Followed, Tracked
    <3>2. ~IsListing(y) /\ y.st = "busy" /\ y.at = ArgsOf(y.ask)
      BY <2>2, <2>3, <2>5, <3>1 DEF IsListing
    <3>3. \A S, Z, n : Tracked(y, S, Z, n)
      BY <3>2 DEF Tracked
    <3> QED
      BY <2>4, <3>3
  <2>6. CASE IsListing(x)
    <3>1. Attends(x, held[s], ZonesAt(s), nextId)
      BY <1>2, <2>6, <2>1, ListingFollowed
    <3>2. Watching(x, y, held[s], h[s], Count(zones, s, "removed"), Count(zones, s, "created"))
      BY <2>3 DEF Watching
    <3>3. ZonesMove(ZonesAt(s), ZonesAt(s)', Count(zones, s, "removed"), Count(zones, s, "created"))
      BY DEF ZonesMoved
    <3>4. IsFiniteSet(held[s]) /\ IsFiniteSet(h[s])
      BY DEF Inv, Arrives, HeldOK
    <3>5. Of(x) = "unifi" => IdsMove(held[s], h[s], nextId, nextId')
      BY <2>1, IdsArrive DEF Of, ById
    <3>6. PICK Z1, n1 : Z1 = ZonesAt(s)' /\ n1 = nextId'
      OBVIOUS
    <3>7. ZonesMove(ZonesAt(s), Z1, Count(zones, s, "removed"), Count(zones, s, "created"))
          /\ (Of(x) = "unifi" => IdsMove(held[s], h[s], nextId, n1))
      BY <3>3, <3>5, <3>6
    <3> HIDE DEF x
    <3>8. Following(y, h[s], Z1, n1)
      BY <3>1, <3>2, <3>4, <3>7, WatchingFollows
    <3>9. IsListing(y) /\ y.st = "busy"
      BY <2>2, <2>3, <2>6 DEF IsListing
    <3>10. Tracked(y, h[s], Z1, n1)
      BY <3>8, <3>9 DEF Tracked
    <3> QED
      BY <2>4, <3>6, <3>10
  <2> QED
    BY <2>5, <2>6
<1> QED
  BY <1>1, <1>2

\* Nothing is counted of no zones,
LEMMA CountNone ==
  ASSUME NEW s, NEW what
  PROVE  Count({}, s, what) = 0
<1>1. {t \in {} : t[1] = s /\ t[3] = what} = {}
  OBVIOUS
<1> QED
  BY <1>1, FS_EmptySet DEF Count

\* and of one what becomes of it.
LEMMA CountOne ==
  ASSUME NEW s, NEW z, NEW how, NEW e, e = <<s, z, how>>, NEW t, NEW what
  PROVE  /\ t = s /\ what = how => Count({e}, t, what) = 1
         /\ t # s \/ what # how => Count({e}, t, what) = 0
<1>1. CASE t = s /\ what = how
  <2>1. {u \in {e} : u[1] = t /\ u[3] = what} = {e}
    BY <1>1
  <2>2. Cardinality({e}) = 1
    BY FS_Singleton
  <2>3. Count({e}, t, what) = 1
    BY <2>1, <2>2 DEF Count
  <2> QED
    BY <1>1, <2>3
<1>2. CASE t # s \/ what # how
  <2>1. {u \in {e} : u[1] = t /\ u[3] = what} = {}
    BY <1>2
  <2>2. Count({e}, t, what) = 0
    BY <2>1, FS_EmptySet DEF Count
  <2> QED
    BY <1>2, <2>2
<1> QED
  BY <1>1, <1>2

\* No zone moves where each is there as before,
LEMMA NoZonesMove ==
  ASSUME \A s \in Servers : \A z \in Zones : zid'[s][z] # 0 <=> zid[s][z] # 0
  PROVE  ZonesMoved({})
<1> SUFFICES ASSUME NEW s \in Servers
             PROVE  ZonesMove(ZonesAt(s), ZonesAt(s)',
                              Count({}, s, "removed"), Count({}, s, "created"))
  BY DEF ZonesMoved
<1>1. ZonesAt(s)' = ZonesAt(s)
  BY DEF ZonesAt
<1>2. Count({}, s, "removed") = 0 /\ Count({}, s, "created") = 0
  BY CountNone
<1> QED
  BY <1>1, <1>2 DEF ZonesMove

\* and one where one is created or removed.
LEMMA OneZoneMoves ==
  ASSUME Inv, NEW s \in Servers, NEW z \in Zones, NEW how \in {"created", "removed"},
         NEW id, zid' = [zid EXCEPT ![s][z] = id],
         how = "created" => id # 0, how = "removed" => id = 0
  PROVE  ZonesMoved({<<s, z, how>>})
<1> DEFINE zones == {<<s, z, how>>}
<1>1. PICK e : e = <<s, z, how>>
  OBVIOUS
<1>2. zid \in [Servers -> [Zones -> 0..MaxId]]
  BY DEF Inv
<1> SUFFICES ASSUME NEW t \in Servers
             PROVE  ZonesMove(ZonesAt(t), ZonesAt(t)', Count(zones, t, "removed"),
                              Count(zones, t, "created"))
  BY DEF ZonesMoved
<1>3. /\ how = "removed" => Count({e}, s, "removed") = 1 /\ Count({e}, s, "created") = 0
      /\ how = "created" => Count({e}, s, "removed") = 0 /\ Count({e}, s, "created") = 1
      /\ t # s => Count({e}, t, "removed") = 0 /\ Count({e}, t, "created") = 0
  BY <1>1, CountOne
<1>4. zones = {e}
  BY <1>1
<1> HIDE DEF zones
<1>5. CASE t # s
  <2>1. zid'[t] = zid[t]
    BY <1>2, <1>5
  <2>2. ZonesAt(t)' = ZonesAt(t)
    BY <2>1 DEF ZonesAt
  <2>3. Count(zones, t, "removed") = 0 /\ Count(zones, t, "created") = 0
    BY <1>5, <1>3, <1>4
  <2> QED
    BY <2>2, <2>3 DEF ZonesMove
<1>6. CASE t = s
  <2>1. zid'[t][z] = id /\ \A y \in Zones \ {z} : zid'[t][y] = zid[t][y]
    BY <1>2, <1>6
  <2>2. CASE how = "created"
    <3>1. Count(zones, t, "created") = 1 /\ Count(zones, t, "removed") = 0
      BY <1>6, <1>3, <1>4, <2>2
    <3>2. ZonesAt(t)' = ZonesAt(t) \cup {z}
      BY <2>1, <2>2 DEF ZonesAt
    <3>3. z \in ZonesAt(t) => ZonesAt(t)' = ZonesAt(t)
      BY <3>2
    <3> QED
      BY <3>1, <3>2, <3>3 DEF ZonesMove
  <2>3. CASE how = "removed"
    <3>1. Count(zones, t, "created") = 0 /\ Count(zones, t, "removed") = 1
      BY <1>6, <1>3, <1>4, <2>3
    <3>2. ZonesAt(t)' = ZonesAt(t) \ {z}
      BY <2>1, <2>3 DEF ZonesAt
    <3>3. z \notin ZonesAt(t) => ZonesAt(t)' = ZonesAt(t)
      BY <3>2
    <3> QED
      BY <3>1, <3>2, <3>3 DEF ZonesMove
  <2> QED
    BY <2>2, <2>3
<1> QED
  BY <1>5, <1>6

\* What a server that has zones holds lies in zones it has.
Housed(h, ids) ==
  \A s \in Servers : Zoned(VendorOf[s]) => \A r \in h[s] : ids[s][ZoneOf[r.name]] # 0

\* It still does when what comes lies in such zones and none goes,
LEMMA StillHoused ==
  ASSUME Inv, Inv', Listings,
         \A s \in Servers : \A z \in Zones : zid[s][z] # 0 => zid'[s][z] # 0,
         NEW s \in Servers, \A t \in Servers \ {s} : held'[t] \subseteq held[t],
         Zoned(VendorOf[s]) => \A r \in held'[s] \ held[s] : zid[s][ZoneOf[r.name]] # 0
  PROVE  Housed(held', zid')
<1> SUFFICES ASSUME NEW t \in Servers, Zoned(VendorOf[t]), NEW r \in held'[t]
             PROVE  zid'[t][ZoneOf[r.name]] # 0
  BY DEF Housed
<1>1. r.name \in Names
  BY DEF Inv, HeldOK
<1>2. ZoneOf[r.name] \in Zones
  BY <1>1, OperationsAssumption
<1>3. zid[t][ZoneOf[r.name]] # 0
  <2>1. r \in held[t] => zid[t][ZoneOf[r.name]] # 0
    BY DEF Listings, Rooted
  <2>2. CASE t = s
    BY <2>1, <2>2
  <2>3. CASE t # s
    BY <2>1, <2>3
  <2> QED
    BY <2>2, <2>3
<1> QED
  BY <1>2, <1>3

\* and when the zone that goes takes its records.
LEMMA HousedWithout ==
  ASSUME Inv, Listings, NEW s \in Servers, NEW z \in Zones,
         zid' = [zid EXCEPT ![s][z] = 0],
         held' = [held EXCEPT ![s] = held[s] \ InZone(held[s], z)]
  PROVE  Housed(held', zid')
<1> SUFFICES ASSUME NEW t \in Servers, Zoned(VendorOf[t]), NEW r \in held'[t]
             PROVE  zid'[t][ZoneOf[r.name]] # 0
  BY DEF Housed
<1>1. zid \in [Servers -> [Zones -> 0..MaxId]] /\ DOMAIN held = Servers
  BY DEF Inv, HeldOK
<1>2. r \in held[t] /\ (t = s => ZoneOf[r.name] # z)
  BY <1>1 DEF InZone
<1>3. zid[t][ZoneOf[r.name]] # 0
  BY <1>2 DEF Listings, Rooted
<1>4. r.name \in Names
  BY <1>2 DEF Inv, HeldOK
<1>5. ZoneOf[r.name] \in Zones
  BY <1>4, OperationsAssumption
<1> QED
  BY <1>1, <1>2, <1>3, <1>5

\* A server still has finitely many zones.
LEMMA StillRooted ==
  ASSUME Listings, NEW zones, ZonesMoved(zones), Housed(held', zid')
  PROVE  Rooted'
<1>1. ASSUME NEW s \in Servers
      PROVE  IsFiniteSet(ZonesAt(s)')
  <2>1. IsFiniteSet(ZonesAt(s))
    BY DEF Listings, Rooted
  <2>2. PICK Z1 : Z1 = ZonesAt(s)'
    OBVIOUS
  <2>3. \/ Z1 = ZonesAt(s)
        \/ \E w \in Zones \ ZonesAt(s) : Z1 = ZonesAt(s) \cup {w}
        \/ \E w \in ZonesAt(s) : Z1 = ZonesAt(s) \ {w}
    BY <2>2 DEF ZonesMoved, ZonesMove
  <2>4. IsFiniteSet(Z1)
    BY <2>1, <2>3, FS_AddElement, FS_RemoveElement
  <2> QED
    BY <2>2, <2>4
<1>2. \A s \in Servers : Zoned(VendorOf[s]) => \A r \in held'[s] : zid'[s][ZoneOf[r.name]] # 0
  BY DEF Housed
<1> QED
  BY <1>1, <1>2 DEF Rooted

\* The calls under way while a server changes at the hand of others,
LEMMA OthersListings ==
  ASSUME Inv, Settled, Listings, Arrives(held', nextId'), NEW zones, ZonesMoved(zones),
         Housed(held', zid'), call' = Watched(held', zones)
  PROVE  Listings'
<1>1. PICK h : h = held'
  OBVIOUS
<1>2. Arrives(h, nextId') /\ held' = h /\ call' = Watched(h, zones)
  BY <1>1
<1>3. \A d \in Clients : Followed(call[d])'
  BY <1>2, WatchedFollowed
<1> QED
  BY <1>3, StillRooted DEF Listings

\* and of a call.
LEMMA AppliedListings ==
  ASSUME Inv, Settled, Listings, NEW c \in Clients, Busy(c), Op(c) \in DnsWrite,
         Next1(c) = "act", NEW zones, Applied(c, held', zones), Arrives(held', nextId'),
         ZonesMoved(zones), Housed(held', zid')
  PROVE  Listings'
<1>1. PICK h : h = held'
  OBVIOUS
<1>2. Arrives(h, nextId') /\ held' = h /\ Applied(c, h, zones)
  BY <1>1
<1>3. PICK y : /\ y.st = "done" /\ y.ask.op # "list_records"
               /\ call' = [Watched(h, zones) EXCEPT ![c] = y]
  BY <1>2, AppliedEnds
<1>4. DOMAIN Watched(h, zones) = Clients
  BY WatchedOK
<1>5. ASSUME NEW d \in Clients
      PROVE  Followed(call[d])'
  <2>1. CASE d = c
    <3>1. call'[d] = y
      BY <1>3, <1>4, <2>1
    <3>2. \A S, Z, n : Tracked(y, S, Z, n)
      BY <1>3 DEF Tracked, IsListing
    <3> QED
      BY <3>1, <3>2 DEF Followed
  <2>2. CASE d # c
    <3>1. call'[d] = Watched(h, zones)[d]
      BY <1>3, <1>4, <2>2
    <3> QED
      BY <1>2, <3>1, WatchedFollowed
  <2> QED
    BY <2>1, <2>2
<1> QED
  BY <1>5, StillRooted DEF Listings

\* What others do to records and zones.
LEMMA OthersFollowed ==
  ASSUME Inv, Inv', Settled, Listings, NEW s \in Servers, OtherUsers(s)
  PROVE  Listings'
<1>1. zid \in [Servers -> [Zones -> 0..MaxId]] /\ nextId \in Nat \ {0} /\ DOMAIN held = Servers
  BY DEF Inv, HeldOK
<1>2. Arrives(held', nextId') /\ call' = Watched(held', {})
  BY OthersArrive
<1>3. ASSUME NEW S, OthersChange(s, S)
      PROVE  held'[s] = S /\ \A t \in Servers \ {s} : held'[t] \subseteq held[t]
  BY <1>1, <1>3 DEF OthersChange
<1>4. \A t \in Servers : \A z \in Zones : zid'[t][z] # 0 <=> zid[t][z] # 0
  <2>1. CASE zid' = zid
    BY <2>1
  <2>2. ASSUME NEW z \in Zones, zid[s][z] # 0, zid' = [zid EXCEPT ![s][z] = nextId]
        PROVE  \A t \in Servers : \A y \in Zones : zid'[t][y] # 0 <=> zid[t][y] # 0
    BY <1>1, <2>2
  <2> QED
    BY <2>1, <2>2 DEF OtherUsers, OtherAdds, OtherRemoves, OtherEdits, OtherRecreates
<1>5. /\ \A t \in Servers \ {s} : held'[t] \subseteq held[t]
      /\ Zoned(VendorOf[s]) => \A r \in held'[s] \ held[s] : zid[s][ZoneOf[r.name]] # 0
  <2>1. CASE OtherAdds(s)
    <3>1. PICK p \in Others[s] : /\ Zoned(VendorOf[s]) => zid[s][ZoneOf[p.name]] # 0
                                 /\ OthersChange(s, held[s] \cup {Stored(s, p, nextId)})
      BY <2>1 DEF OtherAdds
    <3>2. Stored(s, p, nextId).name = p.name
      BY DEF Stored
    <3>3. held'[s] = held[s] \cup {Stored(s, p, nextId)}
          /\ \A t \in Servers \ {s} : held'[t] \subseteq held[t]
      BY <1>3, <3>1
    <3> QED
      BY <3>1, <3>2, <3>3
  <2>2. CASE OtherEdits(s)
    <3>1. PICK q \in held[s], p \in Others[s] :
            p.name = q.name /\ OthersChange(s, (held[s] \ {q}) \cup {Stored(s, p, q.id)})
      BY <2>2 DEF OtherEdits
    <3>2. Stored(s, p, q.id).name = q.name
      BY <3>1 DEF Stored
    <3>3. held'[s] = (held[s] \ {q}) \cup {Stored(s, p, q.id)}
          /\ \A t \in Servers \ {s} : held'[t] \subseteq held[t]
      BY <1>3, <3>1
    <3>4. Zoned(VendorOf[s]) => zid[s][ZoneOf[q.name]] # 0
      BY DEF Listings, Rooted
    <3> QED
      BY <3>2, <3>3, <3>4
  <2>3. CASE OtherRemoves(s) \/ OtherRecreates(s)
    <3>1. PICK S \in SUBSET held[s] : OthersChange(s, S)
      BY <2>3 DEF OtherRemoves, OtherRecreates
    <3>2. held'[s] = S /\ \A t \in Servers \ {s} : held'[t] \subseteq held[t]
      BY <1>3, <3>1
    <3> QED
      BY <3>2
  <2> QED
    BY <2>1, <2>2, <2>3 DEF OtherUsers
<1>6. Housed(held', zid')
  BY <1>4, <1>5, StillHoused
<1>7. ZonesMoved({})
  BY <1>4, NoZonesMove
<1> QED
  BY <1>2, <1>6, <1>7, OthersListings

\* A change is no listing's, and lies in a zone that is there.
LEMMA StandsThere ==
  ASSUME Inv, Settled, Listings, NEW c \in Clients, Busy(c), Op(c) \in DnsWrite
  PROVE  /\ ~IsListing(call[c])
         /\ ZoneStands(c) /\ Zoned(Vendor(c)) => zid[Server(c)][call[c].ask.zone] # 0
<1> DEFINE x == call[c]
           a == x.ask
<1>1. ~IsListing(x)
  <2> SUFFICES ASSUME IsListing(x)
               PROVE  FALSE
    OBVIOUS
  <2>1. Op(c) \in {"list_zones", "list_records"} /\ UnderWay(x)
    BY ListingAtWork, BusyAtWork DEF AtWork
  <2> QED
    BY <2>1, ChangingMethods
<1>2. x.at = ArgsOf(a) /\ a.zone \in Zones
  BY <1>1, BusyCall DEF Listings, Followed, Tracked, Busy, Parameters
<1>3. x.at.zones = {a.zone}
  BY <1>1, <1>2 DEF ArgsOf, IsListing, Args
<1>4. ZoneName(x.at) = a.zone
  BY <1>3 DEF ZoneName
<1>5. IdAt(Server(c), x.at) = zid[Server(c)][a.zone]
  BY <1>2, <1>4 DEF IdAt
<1>6. ASSUME ZoneStands(c), Zoned(Vendor(c))
      PROVE  IdAt(Server(c), x.at) # 0
  <2>1. x.at.zones # {}
    BY <1>3
  <2>2. CASE Vendor(c) = "cloudflare"
    BY <1>6, <2>2 DEF ZoneStands
  <2>3. CASE Vendor(c) = "technitium"
    BY <1>6, <2>1, <2>3 DEF ZoneStands
  <2>4. CASE Vendor(c) = "pangolin"
    BY <1>6, <2>1, <2>4 DEF ZoneStands
  <2> QED
    BY <1>6, <2>2, <2>3, <2>4 DEF Zoned
<1> QED
  BY <1>1, <1>5, <1>6

\* What holds of a change that a client asks for.
LEMMA ChangeAtWork ==
  ASSUME Inv, NEW c \in Clients, Changes(c)
  PROVE  Busy(c) /\ Next1(c) = "act" /\ Op(c) \in DnsWrite /\ Server(c) \in Servers
<1>1. {"create_zone", "delete_zone", "enable_zone", "disable_zone"} \subseteq ZoneWrite
      /\ {"add_record", "delete_record"} \subseteq RecordWrite
  BY DEF ZoneWrite, RecordWrite
<1>2. Busy(c) /\ Next1(c) = "act" /\ Op(c) \in DnsWrite
  BY <1>1 DEF Changes, CreateZone, DeleteZone, AddRecord, DeleteRecord, ChangeMarks,
              ImportZone, Due, Marking, DnsWrite
<1> QED
  BY <1>2, ServerType

\* A zone that is created,
LEMMA CreateZoneFollowed ==
  ASSUME Inv, Inv', Settled, Listings, NEW c \in Clients, CreateZone(c)
  PROVE  Listings'
<1>1. Busy(c) /\ Next1(c) = "act" /\ Op(c) \in DnsWrite /\ Server(c) \in Servers
  BY ChangeAtWork DEF Changes
<1>2. call[c].ask.zone \in Zones
  BY <1>1, BusyCall DEF Parameters
<1>3. PICK s \in Servers : s = Server(c)
  BY <1>1
<1>4. PICK z \in Zones : z = call[c].ask.zone
  BY <1>2
<1>5. s = Server(c) /\ z = call[c].ask.zone
  BY <1>3, <1>4
<1>6. CASE zid[s][z] # 0
  BY <1>1, <1>5, <1>6, RefusedFollowed DEF CreateZone, Rejected
<1>7. CASE zid[s][z] = 0
  <2>1. /\ zid' = [zid EXCEPT ![s][z] = nextId] /\ nextId' = nextId + 1
        /\ Applied(c, held, {<<s, z, "created">>})
    BY <1>5, <1>7 DEF CreateZone
  <2>2. held' = held
    BY <2>1 DEF Applied
  <2>3. nextId \in Nat \ {0} /\ zid \in [Servers -> [Zones -> 0..MaxId]]
    BY DEF Inv
  <2>4. Arrives(held', nextId')
    BY <2>1, <2>2, <2>3, NothingArrives
  <2>5. ZonesMoved({<<s, z, "created">>})
    BY <1>4, <2>1, <2>3, OneZoneMoves
  <2>6. \A t \in Servers : \A y \in Zones : zid[t][y] # 0 => zid'[t][y] # 0
    BY <2>1, <2>3
  <2>7. Housed(held', zid')
    BY <2>2, <2>6, StillHoused
  <2>8. Applied(c, held', {<<s, z, "created">>})
    BY <2>1, <2>2
  <2> QED
    BY <1>1, <2>4, <2>5, <2>7, <2>8, AppliedListings
<1> QED
  BY <1>6, <1>7

\* a zone that is deleted,
LEMMA DeleteZoneFollowed ==
  ASSUME Inv, Inv', Settled, Listings, NEW c \in Clients, DeleteZone(c)
  PROVE  Listings'
<1>1. Busy(c) /\ Next1(c) = "act" /\ Op(c) \in DnsWrite /\ Server(c) \in Servers
  BY ChangeAtWork DEF Changes
<1>2. call[c].ask.zone \in Zones
  BY <1>1, BusyCall DEF Parameters
<1>3. PICK s \in Servers : s = Server(c)
  BY <1>1
<1>4. PICK z \in Zones : z = call[c].ask.zone
  BY <1>2
<1>5. s = Server(c) /\ z = call[c].ask.zone
  BY <1>3, <1>4
<1>6. CASE ~ZoneStands(c)
  BY <1>1, <1>6, RefusedFollowed DEF DeleteZone, Rejected
<1>7. CASE ZoneStands(c)
  <2>1. /\ zid' = [zid EXCEPT ![s][z] = 0] /\ nextId' = nextId
        /\ Applied(c, [held EXCEPT ![s] = held[s] \ InZone(held[s], z)], {<<s, z, "removed">>})
    BY <1>5, <1>7 DEF DeleteZone
  <2>2. held' = [held EXCEPT ![s] = held[s] \ InZone(held[s], z)]
    BY <2>1 DEF Applied
  <2>3. nextId \in Nat
    BY DEF Inv
  <2>4. held[s] \ InZone(held[s], z) \in SUBSET held[s] /\ nextId <= nextId'
    BY <2>1, <2>3
  <2>5. Arrives(held', nextId')
    BY <2>2, <2>4, NothingArrives
  <2>6. ZonesMoved({<<s, z, "removed">>})
    BY <1>4, <2>1, OneZoneMoves
  <2>7. Housed(held', zid')
    BY <1>4, <2>1, <2>2, HousedWithout
  <2>8. Applied(c, held', {<<s, z, "removed">>})
    BY <2>1, <2>2
  <2> QED
    BY <1>1, <2>5, <2>6, <2>7, <2>8, AppliedListings
<1> QED
  BY <1>6, <1>7

\* records that are added, deleted or imported, and what is kept beside them.
LEMMA RecordsFollowed ==
  ASSUME Inv, Inv', Settled, Guide, Listings, NEW c \in Clients,
         AddRecord(c) \/ DeleteRecord(c) \/ ChangeMarks(c) \/ ImportZone(c)
  PROVE  Listings'
<1>1. Busy(c) /\ Next1(c) = "act" /\ Op(c) \in DnsWrite /\ Server(c) \in Servers /\ zid' = zid
  BY ChangeAtWork DEF Changes, AddRecord, DeleteRecord, ChangeMarks, ImportZone
<1>2. PICK s \in Servers : s = Server(c)
  BY <1>1
<1>3. nextId \in Nat /\ DOMAIN held = Servers
  BY DEF Inv, HeldOK
<1>4. ASSUME Applied(c, held', {}), Arrives(held', nextId'),
             \A t \in Servers \ {s} : held'[t] \subseteq held[t],
             Zoned(VendorOf[s]) => \A r \in held'[s] \ held[s] : zid[s][ZoneOf[r.name]] # 0
      PROVE  Listings'
  <2>1. Housed(held', zid')
    BY <1>1, <1>4, StillHoused
  <2>2. ZonesMoved({})
    BY <1>1, NoZonesMove
  <2> QED
    BY <1>1, <1>4, <2>1, <2>2, AppliedListings
<1>5. ASSUME Rejected(c), nextId' = nextId
      PROVE  Listings'
  BY <1>1, <1>5, RefusedFollowed DEF Rejected
<1>6. ZoneStands(c) /\ Zoned(VendorOf[s]) => zid[s][call[c].ask.zone] # 0
  BY <1>1, <1>2, StandsThere DEF Vendor
<1>7. CASE AddRecord(c)
  <2>1. CASE ~ZoneStands(c) \/ ~Belongs(c)
    BY <1>5, <1>7, <2>1 DEF AddRecord
  <2>2. CASE ~(~ZoneStands(c) \/ ~Belongs(c))
    <3>1. Applied(c, held', {}) /\ Arrives(held', nextId')
      BY <1>7, <2>2, AddArrives
    <3>2. PICK r : r = Stored(s, Sent(c), nextId)
      OBVIOUS
    <3>3. held' = [held EXCEPT ![s] = held[s] \cup {r}]
      BY <1>2, <1>7, <2>2, <3>2 DEF AddRecord, Applied
    <3>4. Zoned(VendorOf[s]) => ZoneOf[r.name] = call[c].ask.zone
      <4>1. r.name = FullName(Vendor(c), call[c].ask)
        BY <3>2 DEF Stored, Sent
      <4>2. Zoned(VendorOf[s]) => Vendor(c) # "pihole"
        BY <1>2 DEF Zoned, Vendor
      <4> QED
        BY <1>1, <2>2, <4>1, <4>2, SentInZone
    <3>5. \A t \in Servers \ {s} : held'[t] \subseteq held[t]
      BY <1>3, <3>3
    <3>6. \A q \in held'[s] \ held[s] : q = r
      BY <1>3, <3>3
    <3> QED
      BY <1>4, <1>6, <2>2, <3>1, <3>4, <3>5, <3>6
  <2> QED
    BY <2>1, <2>2
<1>8. CASE DeleteRecord(c)
  <2>1. nextId' = nextId
    BY <1>8 DEF DeleteRecord
  <2>2. CASE Rejected(c)
    BY <1>5, <2>1, <2>2
  <2>3. CASE ~Rejected(c)
    <3>1. PICK S : S = held[s] \ Doomed(c)
      OBVIOUS
    <3>2. Applied(c, [held EXCEPT ![s] = S], {})
      BY <1>2, <1>8, <2>3, <3>1 DEF DeleteRecord
    <3>3. held' = [held EXCEPT ![s] = S] /\ Applied(c, held', {})
      BY <3>2 DEF Applied
    <3>4. S \in SUBSET held[s] /\ nextId <= nextId'
      BY <1>3, <2>1, <3>1
    <3>5. Arrives(held', nextId')
      BY <3>3, <3>4, NothingArrives
    <3>6. /\ \A t \in Servers \ {s} : held'[t] \subseteq held[t]
          /\ \A r \in held'[s] \ held[s] : FALSE
      BY <1>3, <3>1, <3>3
    <3> QED
      BY <1>4, <3>3, <3>5, <3>6
  <2> QED
    BY <2>2, <2>3
<1>9. CASE ChangeMarks(c)
  <2>1. nextId' = nextId
    BY <1>9 DEF ChangeMarks
  <2>2. CASE Rejected(c)
    BY <1>5, <2>1, <2>2
  <2>3. CASE ~Rejected(c)
    <3>1. Applied(c, held, {}) /\ held' = held
      BY <1>9, <2>3 DEF ChangeMarks, Applied
    <3>2. Applied(c, held', {})
      BY <3>1
    <3>3. Arrives(held', nextId')
      BY <1>3, <2>1, <3>1, NothingArrives
    <3> QED
      BY <1>4, <3>1, <3>2, <3>3
  <2> QED
    BY <2>2, <2>3
<1>10. CASE ImportZone(c)
  <2>1. CASE ~ZoneStands(c) \/ call[c].heard = "refused"
    BY <1>5, <1>10, <2>1 DEF ImportZone
  <2>2. CASE ~(~ZoneStands(c) \/ call[c].heard = "refused")
    <3>1. Applied(c, held', {}) /\ Arrives(held', nextId')
      BY <1>10, <2>2, ImportArrives
    <3>2. PICK there : there = InZone(held[s], call[c].ask.zone)
      OBVIOUS
    <3>3. PICK spared \in Spared(Vendor(c), there, FileOf(c), call[c].ask.flag) : Imports(c, spared)
      BY <1>2, <1>10, <2>2, <3>2 DEF ImportZone, Imports
    <3>4. PICK new : new = {p \in FileOf(c) : \A r \in spared : Plain(r) # Plain(Stored(s, p, 0))}
      OBVIOUS
    <3>5. PICK added : added = Numbered(s, new, nextId)
      OBVIOUS
    <3>6. Applied(c, [held EXCEPT ![s] = (held[s] \ there) \cup spared \cup added], {})
      BY <1>2, <3>2, <3>3, <3>4, <3>5 DEF Imports
    <3>7. held' = [held EXCEPT ![s] = (held[s] \ there) \cup spared \cup added]
      BY <3>6 DEF Applied
    <3>8. spared \subseteq held[s]
      BY <3>2, <3>3 DEF Spared, InZone
    <3>9. \A t \in Servers \ {s} : held'[t] \subseteq held[t]
      BY <1>3, <3>7
    <3>10. held'[s] \ held[s] \subseteq added
      BY <1>3, <3>7, <3>8
    <3>11. \A r \in added : ZoneOf[r.name] = call[c].ask.zone
      <4>1. IsFiniteSet(FileOf(c)) /\ \A p \in FileOf(c) : ZoneOf[p.name] = call[c].ask.zone
        BY <1>1, FileOK
      <4>2. new \subseteq FileOf(c) /\ IsFiniteSet(new)
        BY <3>4, <4>1, FS_Subset
      <4>3. WellNumbered(s, Numbered(s, new, nextId), new, nextId, nextId + Cardinality(new))
        BY <1>3, <4>2, NumberedOK
      <4>4. \A r \in added : \E p \in new : r.name = p.name
        BY <3>5, <4>3 DEF WellNumbered
      <4> QED
        BY <4>1, <4>2, <4>4
    <3>12. Zoned(VendorOf[s]) => \A r \in held'[s] \ held[s] : zid[s][ZoneOf[r.name]] # 0
      BY <1>6, <2>2, <3>10, <3>11
    <3> QED
      BY <1>4, <3>1, <3>9, <3>12
  <2> QED
    BY <2>1, <2>2
<1> QED
  BY <1>7, <1>8, <1>9, <1>10

-----------------------------------------------------------------------------
(* What is known of the listings stays known *)

\* Every step of a client keeps it,
LEMMA ClientFollowed ==
  ASSUME Inv, Inv', Settled, Guide, Listings, NEW c \in Clients,
         StartTool(c) \/ StartCommand(c) \/ Advance(c) \/ Refuse(c) \/ Fail(c)
  PROVE  Listings'
<1>1. CASE Refuse(c)
  BY <1>1, RefusedFollowed DEF Refuse
<1>2. CASE StartTool(c) \/ StartCommand(c)
  BY <1>2, StartFollowed
<1>3. CASE Lookup(c) \/ Fail(c)
  BY <1>3, LookUpFollowed, LookUpDomainFollowed DEF Lookup
<1>4. CASE Fetch(c)
  BY <1>4, FetchZonesFollowed, FetchPageFollowed, ListsFollowed DEF Fetch
<1>5. CASE Work(c)
  BY <1>5, CreateZoneFollowed, DeleteZoneFollowed, RecordsFollowed, ReadFollowed,
     LookUpFollowed DEF Work
<1> QED
  BY <1>1, <1>2, <1>3, <1>4, <1>5 DEF Advance

\* and so does every other step.
LEMMA EveryFollowed ==
  ASSUME Inv, Settled, Guide, Listings, [Next]_vars
  PROVE  Listings'
<1>1. Inv'
  BY EveryStep
<1>2. ASSUME NEW s \in load.shared, OtherUsers(s)
      PROVE  Listings'
  <2>1. s \in Servers
    BY OperationsAssumption DEF Inv
  <2> QED
    BY <1>1, <1>2, <2>1, OthersFollowed
<1>3. CASE UNCHANGED vars
  <2>1. held' = held /\ zid' = zid /\ call' = call /\ nextId' = nextId
    BY <1>3 DEF vars
  <2>2. Rooted'
    BY <2>1 DEF Listings, Rooted, ZonesAt
  <2>3. \A c \in Clients : Followed(call[c])'
    BY <2>1 DEF Listings, Followed, ZonesAt
  <2> QED
    BY <2>2, <2>3 DEF Listings
<1> QED
  BY <1>1, <1>2, <1>3, ClientFollowed DEF Next

\* It holds at first.
LEMMA InitListings ==
  ASSUME Init
  PROVE  Listings
<1>1. Rooted
  BY OperationsAssumption DEF Init, Rooted, ZonesAt
<1>2. ASSUME NEW c \in Clients
      PROVE  Followed(call[c])
  <2>1. call[c] = Idle
    BY DEF Init
  <2>2. Idle.st = "idle" /\ Idle.ask = NoAsk
    BY DEF Idle
  <2>3. ASSUME NEW S, NEW Z
        PROVE  Tracked(Idle, S, Z, nextId)
    BY <2>2 DEF Tracked
  <2> QED
    BY <2>1, <2>3 DEF Followed
<1> QED
  BY <1>1, <1>2 DEF Listings

\* A listing that ended asked the server it was about.
LEMMA ListingServer ==
  ASSUME Inv, NEW c \in Clients, Done(c), IsListing(call[c])
  PROVE  Vendor(c) = Of(call[c])
<1> DEFINE x == call[c]
<1>1. /\ FromLoad(c, x, load) /\ x.leg \in {1, 2}
      /\ x.leg = 2 => IsTransfer(x.ask) \/ AcrossZones(x.ask)
  BY DEF Inv, CallOK, Done
<1>2. WellAsked(x.ask)
  <2>1. PICK q \in load.asks[c] : q.ask = x.ask
    BY <1>1 DEF FromLoad
  <2>2. load \in Workloads
    BY DEF Inv
  <2> QED
    BY <2>1, <2>2, OperationsAssumption DEF WellAsked, IsListing
<1>3. x.leg = 2 => AcrossZones(x.ask)
  BY <1>1, <1>2, ListingMethods
<1>4. Methods(x.ask)[x.leg].server = x.ask.server
  <2>1. At("list_zones", x.ask.server).server = x.ask.server
        /\ At("list_records", x.ask.server).server = x.ask.server
    BY DEF At
  <2> HIDE DEF x
  <2>2. CASE AcrossZones(x.ask)
    <3>1. Methods(x.ask) = <<At("list_zones", x.ask.server), At("list_records", x.ask.server)>>
      BY <1>2, <2>2, ListingMethods
    <3> QED
      BY <1>1, <2>1, <3>1
  <2>3. CASE ~AcrossZones(x.ask)
    <3>1. Methods(x.ask) = <<At("list_records", x.ask.server)>> /\ x.leg = 1
      BY <1>1, <1>2, <1>3, <2>3, ListingMethods
    <3> QED
      BY <2>1, <3>1
  <2> QED
    BY <2>2, <2>3
<1>5. Server(c) = x.ask.server
  BY <1>4 DEF Server
<1> QED
  BY <1>5 DEF Vendor, Of

\* What holds of every listing that ended is what is promised of it.
LEMMA ListingsComplete ==
  ASSUME Inv, Listings
  PROVE  ListingIsComplete
<1> SUFFICES ASSUME NEW c \in Clients, Done(c), call[c].outcome = "ok",
                    call[c].ask.op = "list_records"
             PROVE  LET x      == call[c]
                        got    == Range(x.got)
                        twice  == {r \in got : \E i, j \in DOMAIN x.got :
                                     i < j /\ x.got[i] = r /\ x.got[j] = r}
                        missed == {r \in x.stood \ got :
                                     /\ Wanted(Vendor(c), x.ask, r)
                                     /\ ZoneOf[r.name] \notin x.skipped
                                     /\ ApexOnly(Vendor(c), x.ask) => r.name \in Zones}
                        Of1(S) == {ZoneOf[r.name] : r \in S} IN
                    /\ Cardinality(Of1(twice)) <= (IF AcrossZones(x.ask) THEN x.grown ELSE 0)
                    /\ got \subseteq x.seen
                    /\ x.ask.query.all => \A r \in got : Asks(x.ask, r)
                    /\ CASE Vendor(c) = "unifi" -> Cardinality(missed) <= x.gone
                         [] Vendor(c) = "cloudflare" ->
                              Cardinality({z \in Of1(missed) :
                                             Cardinality(InZone(x.seen, z)) <= OnePage})
                                <= x.cut
                         [] OTHER -> Cardinality(Of1(missed)) <= x.cut
  BY DEF ListingIsComplete
<1> DEFINE x == call[c]
<1>1. Complete(x) /\ IsListing(x)
  BY DEF Listings, Followed, Tracked, Done, IsListing
<1>2. Vendor(c) = Of(x)
  BY <1>1, ListingServer
<1>3. Twice(x.got) = {r \in Range(x.got) : \E i, j \in DOMAIN x.got :
                        i < j /\ x.got[i] = r /\ x.got[j] = r}
  BY DEF Twice
<1>4. Missed(x) = {r \in x.stood \ Range(x.got) :
                     /\ Wanted(Vendor(c), x.ask, r) /\ ZoneOf[r.name] \notin x.skipped
                     /\ ApexOnly(Vendor(c), x.ask) => r.name \in Zones}
  BY <1>2 DEF Missed, Owed
<1>5. CASE Of(x) = "unifi"
  BY <1>1, <1>2, <1>3, <1>4, <1>5 DEF Complete, Listing1, ZonesOf
<1>6. CASE Of(x) = "cloudflare"
  <2>1. Missing(x) = {z \in ZonesOf(Missed(x)) : Cardinality(InZone(x.seen, z)) <= OnePage}
    BY <1>6 DEF Missing, OneAnswer
  <2> QED
    BY <1>1, <1>2, <1>3, <1>4, <1>6, <2>1 DEF Complete, Listing1, ZonesOf
<1>7. CASE Of(x) # "unifi" /\ Of(x) # "cloudflare"
  <2>1. Missing(x) = ZonesOf(Missed(x))
    BY <1>7 DEF Missing, OneAnswer
  <2> QED
    BY <1>1, <1>2, <1>3, <1>4, <1>7, <2>1 DEF Complete, Listing1, ZonesOf
<1> QED
  BY <1>5, <1>6, <1>7

\* A listing that ends well reported no record that was not there during the
\* call and none twice, and none that was asked for and stood all the time is
\* missing, whatever was added, deleted and edited between its pages: except
\* what a zone created or removed between two pages, or a record at UniFi,
\* moved across a page border, and what no page of the vendor shows
\* (list_records of the vendor clients and the fan-out of query/mod.rs).
THEOREM ListingsAreComplete == Spec => []ListingIsComplete
<1>1. Init => Inv /\ Settled /\ Guide /\ Listings
  BY InitInv, InitGuide, InitListings DEF Init, Settled, Sound, Idle
<1>2. Inv /\ Settled /\ Guide /\ Listings /\ [Next]_vars
        => Inv' /\ Settled' /\ Guide' /\ Listings'
  BY EveryStep, EverySettled, EveryGuided, EveryFollowed
<1>3. Inv /\ Listings => ListingIsComplete
  BY ListingsComplete
<1> QED
  BY <1>1, <1>2, <1>3, PTL DEF Spec

-----------------------------------------------------------------------------
(* The requests a call can have left *)

\* The requests of every method of every vendor.
AllTodo == ChangeTodo \cup {<<"hosts", "cnames">>, <<"site", "page">>, <<"domains", "act">>}

\* Technitium's are among them,
LEMMA TechnitiumSends ==
  ASSUME NEW a, a.op \in DnsService
  PROVE  T!Requests(a) \in AllTodo
BY DEF AllTodo, ChangeTodo, DnsService, DnsRead, DnsWrite,
    ZoneRead, ZoneWrite, RecordWrite, CacheRead, CacheWrite, StatsRead,
    AccessListRead, AccessListWrite, ZoneImport, ZoneExport, SettingsRead,
    SettingsWrite, ZoneOptionsRead, ZoneOptionsWrite, LogsRead,
    T!ZoneRead, T!ZoneWrite, T!RecordWrite, T!CacheRead, T!CacheWrite, T!StatsRead,
    T!AccessListRead, T!AccessListWrite, T!ZoneImport, T!ZoneExport, T!SettingsRead,
    T!SettingsWrite, T!ZoneOptionsRead, T!ZoneOptionsWrite, T!LogsRead, T!ZoneReads,
    T!ZoneWrites, T!RecordWrites, T!CacheReads, T!CacheWrites, T!StatsReads,
    T!AccessListReads, T!AccessListWrites, T!ZoneImports, T!ZoneExports,
    T!SettingsReads, T!SettingsWrites, T!ZoneOptionsReads, T!ZoneOptionsWrites,
    T!LogsReads, T!Requests

\* and so are the others', unless they refuse the method.
LEMMA CloudflareSends ==
  ASSUME NEW a, a.op \in DnsService
  PROVE  C!Requests(a) \in AllTodo \cup {Unsupported}
BY DEF AllTodo, ChangeTodo, Unsupported, DnsService, DnsRead, DnsWrite,
    ZoneRead, ZoneWrite, RecordWrite, CacheRead, CacheWrite, StatsRead,
    AccessListRead, AccessListWrite, ZoneImport, ZoneExport, SettingsRead,
    SettingsWrite, ZoneOptionsRead, ZoneOptionsWrite, LogsRead,
    C!ZoneRead, C!ZoneWrite, C!RecordWrite, C!CacheRead, C!CacheWrite, C!StatsRead,
    C!AccessListRead, C!AccessListWrite, C!ZoneImport, C!ZoneExport, C!SettingsRead,
    C!SettingsWrite, C!ZoneOptionsRead, C!ZoneOptionsWrite, C!LogsRead, C!ZoneReads,
    C!ZoneWrites, C!RecordWrites, C!ZoneImports, C!ZoneExports, C!SettingsReads,
    C!Unoffered, C!UnofferedSettings, C!Unsupported, C!Requests

LEMMA UnifiSends ==
  ASSUME NEW a, a.op \in DnsService
  PROVE  /\ U!Requests(a) \in AllTodo \cup {Unsupported}
         /\ a.op = "add_record" /\ U!Requests(a) # Unsupported => U!Storable(a.data)
BY DEF AllTodo, ChangeTodo, Unsupported, DnsService, DnsRead, DnsWrite,
    ZoneRead, ZoneWrite, RecordWrite, CacheRead, CacheWrite, StatsRead,
    AccessListRead, AccessListWrite, ZoneImport, ZoneExport, SettingsRead,
    SettingsWrite, ZoneOptionsRead, ZoneOptionsWrite, LogsRead,
    U!ZoneRead, U!ZoneWrite, U!RecordWrite, U!CacheRead, U!CacheWrite, U!StatsRead,
    U!AccessListRead, U!AccessListWrite, U!ZoneImport, U!ZoneExport, U!SettingsRead,
    U!SettingsWrite, U!ZoneOptionsRead, U!ZoneOptionsWrite, U!LogsRead, U!ZoneReads,
    U!ZoneWrites, U!AddRecord, U!DeleteRecord, U!SettingsReads,
    U!Unoffered, U!UnofferedSettings, U!Unsupported, U!Requests

LEMMA PiholeSends ==
  ASSUME NEW a, a.op \in DnsService
  PROVE  /\ P!Requests(a) \in AllTodo \cup {Unsupported}
         /\ a.op = "add_record" /\ P!Requests(a) # Unsupported => P!Storable(a.data)
BY DEF AllTodo, ChangeTodo, Unsupported, DnsService, DnsRead, DnsWrite,
    ZoneRead, ZoneWrite, RecordWrite, CacheRead, CacheWrite, StatsRead,
    AccessListRead, AccessListWrite, ZoneImport, ZoneExport, SettingsRead,
    SettingsWrite, ZoneOptionsRead, ZoneOptionsWrite, LogsRead,
    P!ZoneRead, P!ZoneWrite, P!RecordWrite, P!CacheRead, P!CacheWrite, P!StatsRead,
    P!AccessListRead, P!AccessListWrite, P!ZoneImport, P!ZoneExport, P!SettingsRead,
    P!SettingsWrite, P!ZoneOptionsRead, P!ZoneOptionsWrite, P!LogsRead, P!ZoneReads,
    P!ZoneWrites, P!AddRecord, P!DeleteRecord, P!CacheReads,
    P!CacheWrites, P!StatsReads, P!AccessListReads, P!AccessListWrites, P!ZoneFiles,
    P!SettingsReads, P!Unoffered, P!Unsupported, P!Requests

LEMMA PangolinSends ==
  ASSUME NEW a, a.op \in DnsService
  PROVE  G!Requests(a) \in AllTodo \cup {Unsupported}
BY DEF AllTodo, ChangeTodo, Unsupported, DnsService, DnsRead, DnsWrite,
    ZoneRead, ZoneWrite, RecordWrite, CacheRead, CacheWrite, StatsRead,
    AccessListRead, AccessListWrite, ZoneImport, ZoneExport, SettingsRead,
    SettingsWrite, ZoneOptionsRead, ZoneOptionsWrite, LogsRead,
    G!ZoneRead, G!ZoneWrite, G!RecordWrite, G!CacheRead, G!CacheWrite, G!StatsRead,
    G!AccessListRead, G!AccessListWrite, G!ZoneImport, G!ZoneExport, G!SettingsRead,
    G!SettingsWrite, G!ZoneOptionsRead, G!ZoneOptionsWrite, G!LogsRead, G!ZoneReads,
    G!SettingsReads, G!UnofferedZones, G!UnofferedLists, G!UnofferedSettings,
    G!Unsupported, G!Requests

\* What is added somewhere is something that vendor can store.
Stores(v, d) == (v = "unifi" => U!Storable(d)) /\ (v = "pihole" => P!Storable(d))

LEMMA ClientSends ==
  ASSUME NEW v \in VendorKind, NEW a, a.op \in DnsService
  PROVE  /\ Requests(v, a) \in AllTodo \cup {Unsupported}
         /\ a.op = "add_record" /\ Requests(v, a) # Unsupported => Stores(v, a.data)
<1>1. CASE v = "technitium"
  <2>1. Requests(v, a) = T!Requests(a)
    BY <1>1, Zenon DEF Requests
  <2> QED
    BY <1>1, <2>1, TechnitiumSends DEF Stores
<1>2. CASE v = "cloudflare"
  <2>1. Requests(v, a) = C!Requests(a)
    BY <1>2, Zenon DEF Requests
  <2> QED
    BY <1>2, <2>1, CloudflareSends DEF Stores
<1>3. CASE v = "unifi"
  <2>1. Requests(v, a) = U!Requests(a)
    BY <1>3, Zenon DEF Requests
  <2> QED
    BY <1>3, <2>1, UnifiSends DEF Stores
<1>4. CASE v = "pihole"
  <2>1. Requests(v, a) = P!Requests(a)
    BY <1>4, Zenon DEF Requests
  <2> QED
    BY <1>4, <2>1, PiholeSends DEF Stores
<1>5. CASE v = "pangolin"
  <2>1. Requests(v, a) = G!Requests(a)
    BY <1>5, Zenon DEF Requests
  <2> QED
    BY <1>5, <2>1, PangolinSends DEF Stores
<1> QED
  BY <1>1, <1>2, <1>3, <1>4, <1>5 DEF VendorKind

\* They are sequences of requests.
LEMMA TodoType ==
  ASSUME NEW t \in AllTodo
  PROVE  t \in Seq(Request) /\ t # << >>
<1>1. ASSUME NEW p \in Request
      PROVE  <<p>> \in Seq(Request) /\ <<p>> # << >>
  BY <1>1
<1>2. ASSUME NEW p \in Request, NEW q \in Request
      PROVE  <<p, q>> \in Seq(Request) /\ <<p, q>> # << >>
  BY <1>2
<1>3. ASSUME NEW p \in Request, NEW q \in Request, NEW r \in Request
      PROVE  <<p, q, r>> \in Seq(Request) /\ <<p, q, r>> # << >>
  BY <1>3
<1>4. {"act", "zone", "find", "site", "page", "hosts", "cnames", "domains"} \subseteq Request
  BY DEF Request
<1>5. CASE t = <<"act">>
  BY <1>1, <1>4, <1>5
<1>6. CASE t \in {<<"zone", "act">>, <<"find", "act">>, <<"site", "act">>, <<"page", "act">>,
                 <<"hosts", "cnames">>, <<"site", "page">>, <<"domains", "act">>}
  BY <1>2, <1>4, <1>6
<1>7. CASE t \in {<<"zone", "find", "act">>, <<"site", "page", "act">>}
  BY <1>3, <1>4, <1>7
<1> QED
  BY <1>5, <1>6, <1>7 DEF AllTodo, ChangeTodo

\* So are those of each method of a call.
LEMMA RequestsType ==
  ASSUME NEW a \in Parameters, NEW i \in DOMAIN Methods(a)
  PROVE  RequestsOn(a, i) \in Seq(Request)
<1> DEFINE m == Methods(a)[i]
           v == VendorOf[m.server]
           b == [a EXCEPT !.op = m.op]
<1>1. v \in VendorKind /\ b.op \in DnsService /\ RequestsOn(a, i) = Requests(v, b)
  BY MethodsOf
<1> HIDE DEF v, b, m
<1>2. Requests(v, b) \in AllTodo \cup {Unsupported}
  BY <1>1, ClientSends
<1>3. << >> \in Seq(Request)
  OBVIOUS
<1> QED
  BY <1>1, <1>2, <1>3, TodoType DEF Unsupported

-----------------------------------------------------------------------------
(* The types of a call *)

\* A call as its type has it; what is added somewhere can be given to a server
\* of that vendor.
Shaped(x) ==
  /\ x.st \in {"idle", "busy", "done"}
  /\ x.outcome \in Outcome /\ x.effects \in 0..1 /\ x.heard \in {"fine", "lost", "refused"}
  /\ x.todo \in Seq(Request) /\ (x.st = "busy" <=> x.todo # << >>)
  /\ x.left \in Seq(Zones) /\ x.got \in Seq(Record)
  /\ \A p \in x.file : p.data \in Forms
  /\ x.st = "busy" /\ x.ask.op = "add_record" => x.ask.data \in Given(VendorOf[x.ask.server])

\* A call under way that has its type.
Typed1(x) == UnderWay(x) /\ Shaped(x)

\* It keeps it when it ends,
LEMMA FinishedShaped ==
  ASSUME NEW x, Shaped(x), NEW how \in Outcome
  PROVE  Shaped(Finished(x, how))
<1> DEFINE y == Finished(x, how)
<1>1. /\ y.st = "done" /\ y.outcome = how /\ y.effects = x.effects /\ y.heard = x.heard
      /\ y.todo = << >> /\ y.left = << >> /\ y.got = << >> /\ y.file = {}
  BY DEF Finished, Idle
<1>2. << >> \in Seq(Request) /\ << >> \in Seq(Zones) /\ << >> \in Seq(Record)
  OBVIOUS
<1> HIDE DEF y
<1> QED
  BY <1>1, <1>2 DEF Shaped, y

\* with what it has collected too,
LEMMA ListingEndsShaped ==
  ASSUME NEW x, Shaped(x)
  PROVE  Shaped(ListingEnds(x))
<1> DEFINE y == ListingEnds(x)
<1>1. /\ y.st = "done" /\ y.outcome = "ok" /\ y.effects = x.effects /\ y.heard = x.heard
      /\ y.todo = << >> /\ y.left = << >> /\ y.got = x.got /\ y.file = {}
  BY DEF ListingEnds, Finished, Idle
<1>2. << >> \in Seq(Request) /\ << >> \in Seq(Zones) /\ "ok" \in Outcome
  BY DEF Outcome
<1> HIDE DEF y
<1> QED
  BY <1>1, <1>2 DEF Shaped, y

\* when it goes on with the next zone,
LEMMA NextZoneShaped ==
  ASSUME NEW x, Typed1(x), AcrossZones(x.ask)
  PROVE  Shaped(NextZone(x))
<1>1. CASE x.left = << >>
  BY <1>1, ListingEndsShaped DEF NextZone, Typed1
<1>2. CASE x.left # << >>
  <2> DEFINE y == [x EXCEPT !.leg = 2, !.todo = RequestsOn(x.ask, 2), !.zid = 0,
                            !.at = ArgsIn(x.ask, Head(x.left)), !.left = Tail(@)]
  <2>1. /\ y.st = x.st /\ y.outcome = x.outcome /\ y.effects = x.effects /\ y.heard = x.heard
        /\ y.todo = RequestsOn(x.ask, 2) /\ y.left = Tail(x.left) /\ y.got = x.got
        /\ y.file = x.file /\ y.ask = x.ask
    BY DEF Typed1, UnderWay, IsCall, Fields
  <2>2. NextZone(x) = y
    BY <1>2 DEF NextZone
  <2>3. /\ Methods(x.ask)[2] = At("list_records", x.ask.server) /\ DOMAIN Methods(x.ask) = {1, 2}
        /\ x.ask \in Parameters /\ x.ask.op = "list_records"
    BY DEF Typed1, UnderWay, Methods, IsTransfer, AcrossZones, IsSearch, ListsAll
  <2>4. RequestsOn(x.ask, 2) \in Seq(Request)
    BY <2>3, RequestsType
  <2>5. RequestsOn(x.ask, 2) # << >>
    <3> DEFINE b == [x.ask EXCEPT !.op = "list_records"]
               v == VendorOf[x.ask.server]
    <3>1. RequestsOn(x.ask, 2) = Requests(v, b)
      BY <2>3 DEF RequestsOn, At
    <3>2. b.op = "list_records" /\ v \in VendorKind
      BY <2>3, OperationsAssumption DEF Parameters
    <3> HIDE DEF b, v
    <3>3. Requests(v, b) = ToList(v)
      BY <3>2, ListRequests
    <3> QED
      BY <3>1, <3>3 DEF ToList
  <2>6. Tail(x.left) \in Seq(Zones) /\ x.st = "busy"
    BY <1>2 DEF Typed1, Shaped, UnderWay
  <2> HIDE DEF y
  <2> QED
    BY <2>1, <2>2, <2>4, <2>5, <2>6 DEF Typed1, Shaped
<1> QED
  BY <1>1, <1>2

\* with its import,
LEMMA ImportShaped ==
  ASSUME NEW x, Typed1(x), IsTransfer(x.ask)
  PROVE  Shaped(Import(x))
<1>1. CASE RequestsOn(x.ask, 2) = Unsupported
  BY <1>1, FinishedShaped DEF Import, Typed1, Outcome
<1>2. CASE RequestsOn(x.ask, 2) # Unsupported
  <2> DEFINE y == [x EXCEPT !.leg = 2, !.todo = RequestsOn(x.ask, 2), !.zid = 0]
  <2>1. /\ y.st = x.st /\ y.outcome = x.outcome /\ y.effects = x.effects /\ y.heard = x.heard
        /\ y.todo = RequestsOn(x.ask, 2) /\ y.left = x.left /\ y.got = x.got
        /\ y.file = x.file /\ y.ask = x.ask
    BY DEF Typed1, UnderWay, IsCall, Fields
  <2>2. Import(x) = y
    BY <1>2 DEF Import
  <2>3. 2 \in DOMAIN Methods(x.ask) /\ x.ask \in Parameters /\ x.st = "busy"
    BY DEF Typed1, UnderWay, Methods
  <2>4. RequestsOn(x.ask, 2) \in Seq(Request)
    BY <2>3, RequestsType
  <2> HIDE DEF y
  <2> QED
    BY <1>2, <2>1, <2>2, <2>3, <2>4 DEF Typed1, Shaped, Unsupported
<1> QED
  BY <1>1, <1>2

\* and hence after any answer
LEMMA AnsweredShaped ==
  ASSUME NEW x, Typed1(x)
  PROVE  Shaped(Answered(x))
<1>1. CASE Tail(x.todo) # << >>
  <2> DEFINE y == [x EXCEPT !.todo = Tail(@)]
  <2>1. /\ y.st = x.st /\ y.outcome = x.outcome /\ y.effects = x.effects /\ y.heard = x.heard
        /\ y.todo = Tail(x.todo) /\ y.left = x.left /\ y.got = x.got
        /\ y.file = x.file /\ y.ask = x.ask
    BY DEF Typed1, UnderWay, IsCall, Fields
  <2>2. Answered(x) = y
    BY <1>1 DEF Answered
  <2>3. x.st = "busy" /\ Tail(x.todo) \in Seq(Request)
    BY DEF Typed1, Shaped, UnderWay
  <2> HIDE DEF y
  <2> QED
    BY <1>1, <2>1, <2>2, <2>3 DEF Typed1, Shaped
<1>2. CASE Tail(x.todo) = << >>
  <2>1. Shaped(Finished(x, "ok")) /\ Shaped(ListingEnds(x))
    BY FinishedShaped, ListingEndsShaped DEF Typed1, Outcome
  <2> QED
    BY <1>2, <2>1, NextZoneShaped, ImportShaped DEF Answered
<1> QED
  BY <1>1, <1>2

\* or after a failure.
LEMMA FailedShaped ==
  ASSUME NEW x, Typed1(x)
  PROVE  Shaped(Failed(x))
<1>1. CASE IsSearch(x.ask) /\ x.leg = 2
  <2> DEFINE y == [x EXCEPT !.skipped = @ \cup x.at.zones]
  <2>1. /\ y.st = x.st /\ y.outcome = x.outcome /\ y.effects = x.effects /\ y.heard = x.heard
        /\ y.todo = x.todo /\ y.left = x.left /\ y.got = x.got
        /\ y.file = x.file /\ y.ask = x.ask /\ y.leg = x.leg /\ DOMAIN y = Fields
    BY DEF Typed1, UnderWay, IsCall, Fields
  <2>2. Failed(x) = NextZone(y)
    BY <1>1 DEF Failed
  <2> HIDE DEF y
  <2>3. Typed1(y) /\ AcrossZones(y.ask)
    BY <1>1, <2>1 DEF Typed1, UnderWay, IsCall, Shaped, AcrossZones
  <2> QED
    BY <2>2, <2>3, NextZoneShaped
<1>2. CASE ~(IsSearch(x.ask) /\ x.leg = 2)
  BY <1>2, FinishedShaped DEF Failed, Typed1, Outcome
<1> QED
  BY <1>1, <1>2

-----------------------------------------------------------------------------
(* The types of the variables *)

\* A record as server s holds it, whatever its name and, where it has one, its
\* id are.
Filed(s, r) ==
  \E i, n : \E d \in Forms :
    r = [id |-> i, name |-> n, data |-> d] /\ (~ById(VendorOf[s]) => i \in 0..MaxId)

Typing ==
  /\ nextId \in FirstId..MaxId /\ others \in 0..MaxOthers
  /\ DOMAIN marks = Servers
  /\ \A s \in Servers : marks[s] \subseteq Mark /\ \A r \in held[s] : Filed(s, r)
  /\ \A c \in Clients : Shaped(call[c])

\* What a server holds are records, finitely many.
LEMMA HeldType ==
  ASSUME Inv, Typing, NEW s \in Servers
  PROVE  held[s] \subseteq Record /\ IsFiniteSet(held[s])
<1>1. FirstId \in 1..MaxId /\ MaxId \in Nat
  BY OperationsAssumption
<1>2. nextId \in 1..MaxId
  BY <1>1 DEF Typing
<1>3. ASSUME NEW r \in held[s]
      PROVE  r \in Record
  <2>1. PICK i, n : \E d \in Forms :
          r = [id |-> i, name |-> n, data |-> d] /\ (~ById(VendorOf[s]) => i \in 0..MaxId)
    BY DEF Typing, Filed
  <2>2. PICK d \in Forms :
          r = [id |-> i, name |-> n, data |-> d] /\ (~ById(VendorOf[s]) => i \in 0..MaxId)
    BY <2>1
  <2>3. n \in Names /\ (ById(VendorOf[s]) => i \in 1..(nextId - 1))
    BY <2>2 DEF Inv, HeldOK
  <2>4. i \in 0..MaxId
    BY <1>1, <1>2, <2>2, <2>3
  <2> QED
    BY <2>2, <2>3, <2>4 DEF Record
<1> QED
  BY <1>3 DEF Inv, HeldOK

\* What holds of a call under way.
LEMMA BusyTyped ==
  ASSUME Inv, Settled, Typing, NEW c \in Clients, Busy(c)
  PROVE  /\ Typed1(call[c]) /\ DOMAIN call[c] = Fields
         /\ Server(c) \in Servers /\ held[Server(c)] \subseteq Record
         /\ IsFiniteSet(held[Server(c)])
<1>1. AtWork(call[c], held) /\ Server(c) \in Servers
  BY BusyAtWork
<1>2. Typed1(call[c]) /\ DOMAIN call[c] = Fields
  BY <1>1 DEF AtWork, UnderWay, IsCall, Typed1, Typing
<1> QED
  BY <1>1, <1>2, HeldType

\* The servers, and what is counted, stay as they are.
Still == UNCHANGED <<held, marks, nextId, others>>

\* A call in the place of another.
LEMMA Reshaped ==
  ASSUME Inv, Typing, NEW c \in Clients, Still, \E y : Become(c, y) /\ Shaped(y)
  PROVE  Typing'
<1>1. PICK y : Become(c, y) /\ Shaped(y)
  OBVIOUS
<1>2. DOMAIN call = Clients
  BY DEF Inv
<1>3. ASSUME NEW d \in Clients
      PROVE  Shaped(call'[d])
  <2>1. call'[d] = IF d = c THEN y ELSE call[d]
    BY <1>1, <1>2 DEF Become
  <2> QED
    BY <1>1, <2>1 DEF Typing
<1> QED
  BY <1>3 DEF Typing, Still

\* The same request of a call, whatever it noted.
NotesTyped(x, y) ==
  /\ DOMAIN y = Fields
  /\ y.st = x.st /\ y.ask = x.ask /\ y.leg = x.leg /\ y.outcome = x.outcome
  /\ y.effects = x.effects /\ y.heard \in {"fine", "lost", "refused"} /\ y.todo = x.todo
  /\ y.left \in Seq(Zones) /\ y.got \in Seq(Record)
  /\ \A p \in y.file : p.data \in Forms

LEMMA NotedTyped ==
  ASSUME NEW x, Typed1(x), NEW y, NotesTyped(x, y)
  PROVE  Typed1(y) /\ Shaped(y) /\ Shaped(Answered(y)) /\ Shaped(Failed(y))
<1>1. UnderWay(y)
  BY DEF Typed1, UnderWay, IsCall, NotesTyped
<1>2. Shaped(y)
  BY DEF Typed1, Shaped, NotesTyped
<1>3. Typed1(y)
  BY <1>1, <1>2 DEF Typed1
<1> QED
  BY <1>2, <1>3, AnsweredShaped, FailedShaped

\* A call notes nothing.
LEMMA ItselfTyped ==
  ASSUME NEW x, Typed1(x)
  PROVE  /\ NotesTyped(x, x)
         /\ Shaped(x) /\ Shaped(Answered(x)) /\ Shaped(Failed(x))
         /\ Shaped(Finished(x, "error")) /\ Shaped(ListingEnds(x))
<1>1. NotesTyped(x, x)
  BY DEF Typed1, Shaped, UnderWay, IsCall, NotesTyped
<1>2. "error" \in Outcome
  BY DEF Outcome
<1>3. Shaped(Finished(x, "error")) /\ Shaped(ListingEnds(x))
  BY <1>2, FinishedShaped, ListingEndsShaped DEF Typed1
<1> QED
  BY <1>1, <1>3, NotedTyped

-----------------------------------------------------------------------------
(* The requests that only read keep the types *)

\* A refusal,
LEMMA RefusedTyped ==
  ASSUME Inv, Settled, Typing, NEW c \in Clients, Busy(c), Refused(c), Still
  PROVE  Typing'
<1> DEFINE x == call[c]
           z == [x EXCEPT !.heard = "refused"]
<1>1. Typed1(x) /\ DOMAIN x = Fields
  BY BusyTyped
<1>2. Shaped(Failed(x)) /\ NotesTyped(x, x)
  BY <1>1, ItselfTyped
<1>3. NotesTyped(x, z)
  BY <1>1, <1>2 DEF NotesTyped, Fields
<1>4. \E y \in {Answered(z), Failed(x)} : Become(c, y)
  BY DEF Refused
<1> HIDE DEF z
<1>5. Shaped(Answered(z))
  BY <1>1, <1>3, NotedTyped
<1> QED
  BY <1>2, <1>4, <1>5, Reshaped

\* a lookup or a failure,
LEMMA LookUpTyped ==
  ASSUME Inv, Settled, Typing, NEW c \in Clients,
         \/ LookUpZone(c) \/ LookUpSite(c) \/ LookUpLogFile(c) \/ FindRecord(c)
         \/ Read(c) \/ Refuse(c) \/ Fail(c)
  PROVE  Typing'
<1> DEFINE x == call[c]
<1>1. Busy(c) /\ Still
  BY DEF LookUpZone, LookUpSite, LookUpLogFile, FindRecord, Read, Refuse, Fail, Due, Still
<1>2. Typed1(x) /\ DOMAIN x = Fields
  BY <1>1, BusyTyped
<1>3. /\ NotesTyped(x, x) /\ Shaped(Answered(x)) /\ Shaped(Failed(x))
      /\ Shaped(Finished(x, "error"))
  BY <1>2, ItselfTyped
<1>4. ASSUME NEW z
      PROVE  Shaped(Answered([x EXCEPT !.zid = z]))
  <2> DEFINE y == [x EXCEPT !.zid = z]
  <2>1. NotesTyped(x, y)
    BY <1>2, <1>3 DEF NotesTyped, Fields
  <2> HIDE DEF y
  <2>2. Shaped(Answered(y))
    BY <1>2, <2>1, NotedTyped
  <2> QED
    BY <2>2 DEF y
<1>5. ASSUME NEW i
      PROVE  Shaped(Answered([x EXCEPT !.target = i]))
  <2> DEFINE y == [x EXCEPT !.target = i]
  <2>1. NotesTyped(x, y)
    BY <1>2, <1>3 DEF NotesTyped, Fields
  <2> HIDE DEF y
  <2>2. Shaped(Answered(y))
    BY <1>2, <2>1, NotedTyped
  <2> QED
    BY <2>2 DEF y
<1>6. CASE Refused(c)
  BY <1>1, <1>6, RefusedTyped
<1>7. CASE ~Refused(c)
  <2>1. CASE LookUpZone(c)
    BY <1>1, <1>3, <1>4, <2>1, Reshaped DEF LookUpZone
  <2>2. CASE LookUpSite(c) \/ LookUpLogFile(c) \/ Read(c)
    BY <1>1, <1>3, <1>7, <2>2, Reshaped DEF LookUpSite, LookUpLogFile, Read
  <2>3. CASE FindRecord(c)
    <3>1. \E y : Become(c, y) /\ Shaped(y)
      BY <1>3, <1>5, <2>3 DEF FindRecord, Ended
    <3> QED
      BY <1>1, <3>1, Reshaped
  <2>4. CASE Fail(c)
    BY <1>1, <1>3, <2>4, Reshaped DEF Fail
  <2> QED
    BY <1>7, <2>1, <2>2, <2>3, <2>4 DEF Refuse
<1> QED
  BY <1>6, <1>7

\* the list of Pangolin's zones,
LEMMA LookUpDomainTyped ==
  ASSUME Inv, Settled, Typing, Listings, NEW c \in Clients, LookUpDomain(c)
  PROVE  Typing'
<1> DEFINE x  == call[c]
           Z  == ZonesAt(Server(c))
           zs == SetToSeq(Z)
           y  == [x EXCEPT !.todo = [i \in DOMAIN zs |-> "act"], !.left = zs]
<1>1. Busy(c) /\ Still
  BY DEF LookUpDomain, Due, Still
<1>2. Typed1(x) /\ DOMAIN x = Fields /\ Server(c) \in Servers
  BY <1>1, BusyTyped
<1>3. Shaped(Answered(x)) /\ Shaped(Failed(x)) /\ Shaped(ListingEnds(x))
  BY <1>2, ItselfTyped
<1>4. IsFiniteSet(Z) /\ Z \subseteq Zones
  BY <1>2 DEF Listings, Rooted, ZonesAt
<1>5. zs \in Seq(Z) /\ DOMAIN zs = 1..Cardinality(Z) /\ Cardinality(Z) \in Nat
  BY <1>4, InSomeOrder, FS_CardinalityType
<1>6. zs \in Seq(Zones) /\ Len(zs) = Cardinality(Z)
  BY <1>4, <1>5
<1>7. zs # << >> => Shaped(y)
  <2> HAVE zs # << >>
  <2>1. /\ y.st = x.st /\ y.outcome = x.outcome /\ y.effects = x.effects /\ y.heard = x.heard
        /\ y.todo = [i \in DOMAIN zs |-> "act"] /\ y.left = zs /\ y.got = x.got
        /\ y.file = x.file /\ y.ask = x.ask
    BY <1>2 DEF Fields
  <2> HIDE DEF y
  <2>2. PICK n \in Nat : n = Cardinality(Z)
    BY <1>5
  <2>3. [i \in 1..n |-> "act"] \in Seq(Request) /\ Len([i \in 1..n |-> "act"]) = n
    BY <2>2 DEF Request
  <2>4. n # 0
    BY <1>5, <1>6, <2>2
  <2>5. y.todo \in Seq(Request) /\ y.todo # << >>
    BY <1>5, <2>1, <2>2, <2>3, <2>4
  <2>6. x.st = "busy"
    BY <1>2 DEF Typed1, UnderWay
  <2> QED
    BY <1>2, <1>6, <2>1, <2>5, <2>6 DEF Typed1, Shaped
<1> HIDE DEF y, zs
<1>8. \E z : Become(c, z) /\ Shaped(z)
  <2>1. Become(c, IF x.at.zones = {} THEN (IF zs = << >> THEN ListingEnds(x) ELSE y)
                  ELSE IF IdAt(Server(c), x.at) = 0 THEN Failed(x) ELSE Answered(x))
    BY DEF LookUpDomain, y, zs
  <2> QED
    BY <1>3, <1>7, <2>1
<1> QED
  BY <1>1, <1>8, Reshaped

\* a page of the zones,
LEMMA FetchZonesTyped ==
  ASSUME Inv, Settled, Typing, Listings, NEW c \in Clients, FetchZones(c)
  PROVE  Typing'
<1> DEFINE x    == call[c]
           Z    == ZonesAt(Server(c))
           page == PageOfZones(Z, x.offset)
           y    == [x EXCEPT !.left = @ \o page, !.offset = @ + ZonePage]
<1>1. Busy(c) /\ Still /\ AcrossZones(x.ask) /\ Op(c) = "list_zones"
  BY DEF FetchZones, Due, Still
<1>2. Typed1(x) /\ DOMAIN x = Fields /\ Server(c) \in Servers
  BY <1>1, BusyTyped
<1>3. NotesTyped(x, x)
  BY <1>2, ItselfTyped
<1>4. x.offset \in Nat
  <2>1. IsListing(x)
    BY <1>1 DEF AcrossZones, IsSearch, ListsAll, IsListing
  <2>2. Attends(x, held[Server(c)], ZonesAt(Server(c)), nextId) /\ x.leg = 1
    <3>1. Op(c) # "list_records"
      BY <1>1
    <3> QED
      BY <1>1, <2>1, <3>1, ListingAtWork
  <2> QED
    BY <1>1, <2>2 DEF Attends, Following, ZonesRead, ZonesPaged
<1>5. page \in Seq(Zones)
  <2>1. IsFiniteSet(Z) /\ Z \in SUBSET Zones
    BY <1>2 DEF Listings, Rooted, ZonesAt
  <2> HIDE DEF Z
  <2>2. page \in Seq(Z)
    BY <1>4, <2>1, ZonesOnPage
  <2> QED
    BY <2>1, <2>2
<1>6. NotesTyped(x, y)
  <2>1. /\ DOMAIN y = Fields /\ y.left = x.left \o page
        /\ y.st = x.st /\ y.ask = x.ask /\ y.leg = x.leg /\ y.outcome = x.outcome
        /\ y.effects = x.effects /\ y.heard = x.heard /\ y.todo = x.todo
        /\ y.got = x.got /\ y.file = x.file
    BY <1>2 DEF Fields
  <2> HIDE DEF y, page
  <2>2. y.left \in Seq(Zones)
    BY <1>3, <1>5, <2>1 DEF NotesTyped
  <2> QED
    BY <1>3, <2>1, <2>2 DEF NotesTyped
<1>7. Become(c, IF Len(page) = ZonePage THEN y ELSE NextZone(y))
  BY DEF FetchZones
<1>8. y.ask = x.ask
  BY <1>6 DEF NotesTyped
<1> HIDE DEF y, page
<1>9. Shaped(y) /\ Shaped(NextZone(y))
  BY <1>1, <1>2, <1>6, <1>8, NotedTyped, NextZoneShaped
<1> QED
  BY <1>1, <1>7, <1>9, Reshaped

\* a page of UniFi's policies,
LEMMA FetchPageTyped ==
  ASSUME Inv, Settled, Typing, NEW c \in Clients, FetchPage(c)
  PROVE  Typing'
<1> DEFINE x == call[c]
           H == held[Server(c)]
<1>1. Busy(c) /\ Still
  BY DEF FetchPage, Due, Still
<1>2. PICK page \in PagesOf(H, x.offset), totals \in {{}, {Cardinality(H)}} :
        \E z \in {[x EXCEPT !.got = @ \o page, !.pages = @ + 1,
                            !.offset = U!NextOffset(@, Len(page))]} :
          Become(c, IF U!LastPage(Len(page), Len(z.got), totals, PageSize) THEN PagesEnd(c, z)
                    ELSE IF z.pages = MaxPages THEN Ended(c, "error")
                    ELSE z)
  BY DEF FetchPage
<1> DEFINE y == [x EXCEPT !.got = @ \o page, !.pages = @ + 1,
                          !.offset = U!NextOffset(@, Len(page))]
           kept == [y EXCEPT !.got = KeptPages(y, y.got)]
           hit  == [y EXCEPT !.target = CHOOSE i \in FirstMatch(y.got, y.ask) : TRUE,
                             !.got = << >>]
<1>3. \E z \in {PagesEnd(c, y), Ended(c, "error"), y} : Become(c, z)
  BY <1>2
<1>4. PagesEnd(c, y) \in {Answered(kept), Ended(c, "error"), Answered(hit)}
  BY DEF PagesEnd
<1>5. Typed1(x) /\ DOMAIN x = Fields /\ H \subseteq Record /\ IsFiniteSet(H)
  BY <1>1, BusyTyped
<1>6. NotesTyped(x, x) /\ Shaped(Ended(c, "error"))
  BY <1>5, ItselfTyped DEF Ended
<1>7. page \in Seq(Record)
  <2>1. page \in Seq(H)
    BY <1>2, <1>5, PageHeld
  <2> QED
    BY <1>5, <2>1
<1>8. /\ DOMAIN y = Fields /\ y.got = x.got \o page
      /\ y.st = x.st /\ y.ask = x.ask /\ y.leg = x.leg /\ y.outcome = x.outcome
      /\ y.effects = x.effects /\ y.heard = x.heard /\ y.todo = x.todo
      /\ y.left = x.left /\ y.file = x.file
  BY <1>5 DEF Fields
<1> HIDE DEF y, H
<1>9. NotesTyped(x, y)
  <2>1. y.got \in Seq(Record)
    BY <1>6, <1>7, <1>8 DEF NotesTyped
  <2> QED
    BY <1>6, <1>8, <2>1 DEF NotesTyped
<1>10. NotesTyped(x, kept)
  <2> DEFINE k == KeptPages(y, y.got)
  <2>1. y.got \in Seq(Record)
    BY <1>9 DEF NotesTyped
  <2>2. k \in Seq(Record)
    BY <2>1, KeptPagesOf
  <2>3. /\ DOMAIN kept = Fields /\ kept.got = k
        /\ kept.st = y.st /\ kept.ask = y.ask /\ kept.leg = y.leg /\ kept.outcome = y.outcome
        /\ kept.effects = y.effects /\ kept.heard = y.heard /\ kept.todo = y.todo
        /\ kept.left = y.left /\ kept.file = y.file
    BY <1>8 DEF Fields
  <2> HIDE DEF k, kept
  <2> QED
    BY <1>9, <2>2, <2>3 DEF NotesTyped
<1>11. NotesTyped(x, hit)
  <2>1. /\ DOMAIN hit = Fields /\ hit.got = << >>
        /\ hit.st = y.st /\ hit.ask = y.ask /\ hit.leg = y.leg /\ hit.outcome = y.outcome
        /\ hit.effects = y.effects /\ hit.heard = y.heard /\ hit.todo = y.todo
        /\ hit.left = y.left /\ hit.file = y.file
    BY <1>8 DEF Fields
  <2>2. << >> \in Seq(Record)
    OBVIOUS
  <2> HIDE DEF hit
  <2> QED
    BY <1>9, <2>1, <2>2 DEF NotesTyped
<1> HIDE DEF kept, hit
<1>12. Shaped(y) /\ Shaped(Answered(kept)) /\ Shaped(Answered(hit))
  BY <1>5, <1>9, <1>10, <1>11, NotedTyped
<1> QED
  BY <1>1, <1>3, <1>4, <1>6, <1>12, Reshaped

\* What a listing keeps of some records, in some order.
LEMMA KeptTyped ==
  ASSUME NEW x, NEW S, IsFiniteSet(S), S \subseteq Record
  PROVE  SetToSeq(KeptOf(x, S)) \in Seq(Record)
<1> DEFINE K == KeptOf(x, S)
<1>1. K \subseteq S
  BY DEF KeptOf
<1> HIDE DEF K
<1>2. IsFiniteSet(K)
  BY <1>1, FS_Subset
<1>3. SetToSeq(K) \in Seq(K)
  BY <1>2, InSomeOrder
<1> QED
  BY <1>1, <1>3 DEF K

\* Pi-hole's two lists,
LEMMA ListsTyped ==
  ASSUME Inv, Settled, Typing, NEW c \in Clients, FetchHosts(c) \/ FetchAliases(c)
  PROVE  Typing'
<1> DEFINE x == call[c]
           H == held[Server(c)]
<1>1. Busy(c) /\ Still
  BY DEF FetchHosts, FetchAliases, Due, Still
<1>2. PICK hosts \in BOOLEAN : Become(c, Answered([x EXCEPT !.got = @ \o Entries(c, hosts)]))
  BY DEF FetchHosts, FetchAliases
<1> DEFINE page == Entries(c, hosts)
           y    == [x EXCEPT !.got = @ \o page]
<1>3. Typed1(x) /\ DOMAIN x = Fields /\ H \subseteq Record /\ IsFiniteSet(H)
  BY <1>1, BusyTyped
<1>4. NotesTyped(x, x)
  BY <1>3, ItselfTyped
<1>5. page \in Seq(Record)
  <2> DEFINE S == {r \in H : hosts <=> r.data.type \in P!HostTypes}
  <2>1. S \subseteq H
    OBVIOUS
  <2>2. page = SetToSeq(KeptOf(x, S))
    BY DEF Entries
  <2> HIDE DEF S, page, H
  <2>3. IsFiniteSet(S) /\ S \subseteq Record
    BY <1>3, <2>1, FS_Subset
  <2> QED
    BY <2>2, <2>3, KeptTyped
<1>6. Become(c, Answered(y))
  BY <1>2
<1> HIDE DEF page
<1>7. /\ DOMAIN y = Fields /\ y.got = x.got \o page
      /\ y.st = x.st /\ y.ask = x.ask /\ y.leg = x.leg /\ y.outcome = x.outcome
      /\ y.effects = x.effects /\ y.heard = x.heard /\ y.todo = x.todo
      /\ y.left = x.left /\ y.file = x.file
  BY <1>3 DEF Fields
<1> HIDE DEF y
<1>8. y.got \in Seq(Record)
  BY <1>4, <1>5, <1>7 DEF NotesTyped
<1>9. NotesTyped(x, y)
  BY <1>4, <1>7, <1>8 DEF NotesTyped
<1>10. Shaped(Answered(y))
  BY <1>3, <1>9, NotedTyped
<1> QED
  BY <1>1, <1>6, <1>10, Reshaped

\* Pangolin's next zone, if there is one to be read.
LEMMA NextDomain ==
  ASSUME Inv, Settled, Listings, NEW c \in Clients, ReadRecords(c), EachZone(c)
  PROVE  call[c].left # << >>
<1> DEFINE x == call[c]
           S == held[x.ask.server]
           Z == ZonesAt(x.ask.server)
<1>1. Busy(c) /\ Head(x.todo) = "act" /\ Op(c) = "list_records"
  BY DEF ReadRecords, Due, Next1
<1>2. UnderWay(x) /\ Op(c) = Method(x).op
  BY <1>1, BusyAtWork DEF AtWork
<1>3. IsListing(x)
  <2>1. ~IsTransfer(x.ask)
    <3>1. x.leg \in {1, 2}
      BY <1>2 DEF UnderWay, IsCall
    <3> QED
      BY <1>1, <1>2, <3>1, MethodIs
  <2> QED
    BY <1>1, <1>2, <2>1, MethodIs DEF IsListing, At
<1>4. Attends(x, S, Z, nextId) /\ Vendor(c) = Of(x) /\ Server(c) = x.ask.server
  BY <1>1, <1>3, ListingAtWork
<1>5. ~(AcrossZones(x.ask) /\ x.leg = 1)
  <2>1. Op(c) # "list_zones"
    BY <1>1
  <2> QED
    BY <1>1, <1>3, <2>1, ListingAtWork
<1>6. EachDomain(x)
  BY <1>4 DEF EachZone, EachDomain
<1> HIDE DEF S, Z
<1>7. Following(x, S, Z, nextId)
  BY <1>4 DEF Attends
<1>8. ~AcrossZones(x.ask)
  <2> SUFFICES ASSUME AcrossZones(x.ask)
               PROVE  FALSE
    OBVIOUS
  <2>1. ZonesRead(x)
    BY <1>5, <1>7 DEF Following, ZonesPaged
  <2>2. PICK z \in Zones : x.at = ArgsIn(x.ask, z)
    BY <2>1 DEF ZonesRead
  <2>3. x.at.zones = {z}
    BY <2>2, ArgsOfZone
  <2> QED
    BY <1>6, <2>3 DEF EachDomain
<1>9. DomainsRead(x)
  <2>1. Zoned(Of(x))
    BY <1>6 DEF EachDomain, Zoned
  <2> QED
    BY <1>6, <1>7, <1>8, <2>1 DEF Following
<1>10. x.todo # <<"domains", "act">>
  <2>1. Head(<<"domains", "act">>) = "domains"
    OBVIOUS
  <2> QED
    BY <1>1, <2>1
<1> QED
  BY <1>9, <1>10 DEF DomainsRead

\* the answer to a listing,
LEMMA ReadTyped ==
  ASSUME Inv, Settled, Typing, Listings, NEW c \in Clients, ReadRecords(c)
  PROVE  Typing'
<1> DEFINE x == call[c]
           H == held[Server(c)]
           page == SetToSeq(KeptOf(x, Listed(c)))
           y    == [x EXCEPT !.got = @ \o page, !.left = IF EachZone(c) THEN Tail(@) ELSE @]
<1>1. Busy(c) /\ Still
  BY DEF ReadRecords, Due, Still
<1>2. CASE Refused(c)
  BY <1>1, <1>2, RefusedTyped
<1>3. CASE ~Refused(c)
  <2>1. Become(c, Answered(y))
    BY <1>3 DEF ReadRecords
  <2>2. Typed1(x) /\ DOMAIN x = Fields /\ H \subseteq Record /\ IsFiniteSet(H)
    BY <1>1, BusyTyped
  <2>3. NotesTyped(x, x)
    BY <2>2, ItselfTyped
  <2>4. Listed(c) \subseteq H
    BY DEF Listed, InZone
  <2>5. page \in Seq(Record)
    <3> DEFINE L == Listed(c)
    <3>1. L \subseteq H
      BY <2>4
    <3> HIDE DEF L, H
    <3>2. IsFiniteSet(L) /\ L \subseteq Record
      BY <2>2, <3>1, FS_Subset
    <3>3. SetToSeq(KeptOf(x, L)) \in Seq(Record)
      BY <3>2, KeptTyped
    <3> QED
      BY <3>3 DEF L
  <2>6. x.left \in Seq(Zones) /\ (EachZone(c) => Tail(x.left) \in Seq(Zones))
    <3>1. x.left \in Seq(Zones)
      BY <2>3 DEF NotesTyped
    <3>2. EachZone(c) => x.left # << >>
      BY NextDomain
    <3> QED
      BY <3>1, <3>2
  <2> HIDE DEF page
  <2>7. /\ DOMAIN y = Fields /\ y.got = x.got \o page
        /\ y.left = IF EachZone(c) THEN Tail(x.left) ELSE x.left
        /\ y.st = x.st /\ y.ask = x.ask /\ y.leg = x.leg /\ y.outcome = x.outcome
        /\ y.effects = x.effects /\ y.heard = x.heard /\ y.todo = x.todo
        /\ y.file = x.file
    BY <2>2 DEF Fields
  <2> HIDE DEF y
  <2>8. y.got \in Seq(Record)
    BY <2>3, <2>5, <2>7 DEF NotesTyped
  <2>9. NotesTyped(x, y)
    BY <2>3, <2>6, <2>7, <2>8 DEF NotesTyped
  <2>10. Shaped(Answered(y))
    BY <2>2, <2>9, NotedTyped
  <2> QED
    BY <1>1, <2>1, <2>10, Reshaped
<1> QED
  BY <1>2, <1>3

\* and a zone file.
LEMMA ExportTyped ==
  ASSUME Inv, Settled, Typing, NEW c \in Clients, ExportZone(c)
  PROVE  Typing'
<1> DEFINE x == call[c]
           H == held[Server(c)]
           y == [x EXCEPT !.file = {Plain(r) : r \in InZone(H, x.ask.zone)}]
<1>1. Busy(c) /\ Still
  BY DEF ExportZone, Due, Still
<1>2. CASE Refused(c)
  BY <1>1, <1>2, RefusedTyped
<1>3. CASE ~Refused(c)
  <2>1. Become(c, Answered(y))
    BY <1>3 DEF ExportZone
  <2>2. Typed1(x) /\ DOMAIN x = Fields /\ H \subseteq Record
    BY <1>1, BusyTyped
  <2>3. NotesTyped(x, x)
    BY <2>2, ItselfTyped
  <2>4. /\ DOMAIN y = Fields /\ y.file = {Plain(r) : r \in InZone(H, x.ask.zone)}
        /\ y.st = x.st /\ y.ask = x.ask /\ y.leg = x.leg /\ y.outcome = x.outcome
        /\ y.effects = x.effects /\ y.heard = x.heard /\ y.todo = x.todo
        /\ y.left = x.left /\ y.got = x.got
    BY <2>2 DEF Fields
  <2> HIDE DEF y, H
  <2>5. \A p \in y.file : p.data \in Forms
    BY <2>2, <2>4 DEF InZone, Plain, Record
  <2>6. NotesTyped(x, y)
    BY <2>3, <2>4, <2>5 DEF NotesTyped
  <2>7. Shaped(Answered(y))
    BY <2>2, <2>6, NotedTyped
  <2> QED
    BY <1>1, <2>1, <2>7, Reshaped
<1> QED
  BY <1>2, <1>3

-----------------------------------------------------------------------------
(* So do the beginning of a call and the requests that change something *)

\* A call that begins, or is refused before its first request.
LEMMA BeginTyped ==
  ASSUME Inv, Typing, NEW c \in Clients, NEW q \in load.asks[c],
         NEW how \in {"denied", Refusal(q.ask), "error"}, Begin(c, q, how)
  PROVE  Typing'
<1> DEFINE a == q.ask
           v == VendorOf[a.server]
           y == [Idle EXCEPT
                   !.st = IF how = "none" THEN "busy" ELSE "done",
                   !.mcp = q.mcp, !.ask = q.ask, !.outcome = how,
                   !.todo = IF how = "none" THEN RequestsOn(q.ask, 1) ELSE << >>,
                   !.at = ArgsOf(q.ask), !.stood = held[q.ask.server],
                   !.seen = held[q.ask.server]]
<1>1. Become(c, y) /\ Still
  BY DEF Begin, Still
<1>2. a \in Parameters
  BY OperationsAssumption DEF Inv
<1>3. /\ y.st = (IF how = "none" THEN "busy" ELSE "done") /\ y.ask = a /\ y.outcome = how
      /\ y.todo = (IF how = "none" THEN RequestsOn(a, 1) ELSE << >>)
      /\ y.effects = 0 /\ y.heard = "fine" /\ y.left = << >> /\ y.got = << >> /\ y.file = {}
  BY DEF Idle
<1> HIDE DEF y
<1>4. /\ how \in {"none", "denied", "unsupported", "error"}
      /\ how = "none" => RequestsOn(a, 1) # Unsupported
  BY DEF Refusal
<1>5. RequestsOn(a, 1) \in Seq(Request)
  <2>1. 1 \in DOMAIN Methods(a)
    BY DEF Methods
  <2> QED
    BY <1>2, <2>1, RequestsType
<1>6. << >> \in Seq(Request) /\ << >> \in Seq(Zones) /\ << >> \in Seq(Record)
  OBVIOUS
<1>7. ASSUME how = "none", a.op = "add_record"
      PROVE  a.data \in Given(v)
  <2>1. Methods(a) = <<At(a.op, a.server)>>
    BY <1>7 DEF Methods, IsTransfer, AcrossZones, IsSearch, ListsAll
  <2> DEFINE b == [a EXCEPT !.op = At(a.op, a.server).op]
  <2>2. RequestsOn(a, 1) = Requests(v, b)
    BY <2>1 DEF RequestsOn, At
  <2>3. b.op = "add_record" /\ b.data = a.data
    BY <1>2, <1>7 DEF Parameters, At
  <2>4. v \in VendorKind /\ a.data \in Data
    BY <1>2, OperationsAssumption DEF Parameters
  <2> HIDE DEF b
  <2>5. b.op \in DnsService
    BY <2>3 DEF DnsService, DnsWrite, RecordWrite
  <2>6. Requests(v, b) # Unsupported
    BY <1>4, <1>7, <2>2
  <2>7. Stores(v, a.data)
    BY <2>3, <2>4, <2>5, <2>6, ClientSends
  <2>8. IsRecordData(a.data)
    BY <1>7, DataAssumption DEF Inv
  <2> QED
    BY <2>4, <2>7, <2>8 DEF Given, Stores
<1>8. Shaped(y)
  BY <1>3, <1>4, <1>5, <1>6, <1>7 DEF Shaped, Outcome, Unsupported
<1> QED
  BY <1>1, <1>8, Reshaped

\* A tool, or a command.
LEMMA StartTyped ==
  ASSUME Inv, Typing, NEW c \in Clients, StartTool(c) \/ StartCommand(c)
  PROVE  Typing'
<1>1. \E q \in load.asks[c] : \E how \in {"denied", Refusal(q.ask), "error"} : Begin(c, q, how)
  BY DEF StartTool, StartCommand
<1> QED
  BY <1>1, BeginTyped

\* What a call sees of a change is no matter of its type,
LEMMA WatchedShaped ==
  ASSUME Inv, Typing, NEW h, NEW dropped, NEW d \in Clients
  PROVE  Shaped(Watched(h, dropped)[d])
<1> DEFINE x == call[d]
           y == Watched(h, dropped)[d]
<1>1. Shaped(x)
  BY DEF Typing
<1>2. CASE ~Busy(d)
  <2>1. y = x
    BY <1>2 DEF Watched
  <2> QED
    BY <1>1, <2>1
<1>3. CASE Busy(d)
  <2>1. DOMAIN x = Fields
    BY <1>3, BusyCall DEF IsCall
  <2>2. /\ y.st = x.st /\ y.ask = x.ask /\ y.todo = x.todo /\ y.file = x.file
        /\ y.heard = x.heard /\ y.effects = x.effects /\ y.outcome = x.outcome
        /\ y.left = x.left /\ y.got = x.got
    BY <1>3, <2>1 DEF Watched, Fields
  <2> HIDE DEF y
  <2> QED
    BY <1>1, <2>2 DEF Shaped, y
<1> QED
  BY <1>2, <1>3

\* nor is what a call makes of its own change.
LEMMA AppliedShaped ==
  ASSUME Inv, Settled, Typing, NEW c \in Clients, Busy(c), Op(c) \in DnsWrite,
         Next1(c) = "act", NEW h, NEW dropped, Applied(c, h, dropped), NEW d \in Clients
  PROVE  Shaped(call'[d])
<1> DEFINE w == call[c]
<1>1. /\ AtWork(w, held) /\ DOMAIN w = Fields /\ Op(c) = Method(w).op
      /\ Vendor(c) = VendorAt(w) /\ Vendor(c) \in VendorKind
  BY BusyAtWork DEF AtWork, UnderWay, IsCall
<1>2. w.effects = 0 /\ Typed1(w)
  <2>1. w.effects = 0
    BY <1>1, ChangeTail DEF AtWork, Working, Next1
  <2> QED
    BY <2>1, BusyTyped
<1>3. \E e, hd : /\ e = w.effects + 1 /\ hd \in {"lost", "fine"}
                 /\ \E y \in {Answered([w EXCEPT !.effects = e, !.heard = hd]),
                              Finished([w EXCEPT !.effects = e, !.heard = hd], "error")} :
                      call' = [Watched(h, dropped) EXCEPT ![c] = y]
  BY DEF Applied
<1>4. PICK e, hd : /\ e = w.effects + 1 /\ hd \in {"lost", "fine"}
                   /\ \E y \in {Answered([w EXCEPT !.effects = e, !.heard = hd]),
                                Finished([w EXCEPT !.effects = e, !.heard = hd], "error")} :
                        call' = [Watched(h, dropped) EXCEPT ![c] = y]
  BY <1>3
<1> DEFINE x == [w EXCEPT !.effects = e, !.heard = hd]
<1>5. PICK y \in {Answered(x), Finished(x, "error")} :
        call' = [Watched(h, dropped) EXCEPT ![c] = y]
  BY <1>4
<1>6. /\ x.st = w.st /\ x.ask = w.ask /\ x.leg = w.leg /\ x.todo = w.todo /\ DOMAIN x = Fields
      /\ x.outcome = w.outcome /\ x.left = w.left /\ x.got = w.got /\ x.file = w.file
      /\ x.effects = 1 /\ x.heard \in {"fine", "lost", "refused"}
  BY <1>1, <1>2, <1>4 DEF Fields
<1> HIDE DEF x
<1>7. Typed1(x)
  <2>1. UnderWay(x)
    BY <1>2, <1>6 DEF Typed1, UnderWay, IsCall
  <2>2. Shaped(x)
    BY <1>2, <1>6 DEF Typed1, Shaped
  <2> QED
    BY <2>1, <2>2 DEF Typed1
<1>8. Shaped(y)
  BY <1>5, <1>7, ItselfTyped, AnsweredShaped
<1>9. DOMAIN Watched(h, dropped) = Clients
  BY WatchedOK
<1>10. call'[d] = IF d = c THEN y ELSE Watched(h, dropped)[d]
  BY <1>5, <1>9
<1> QED
  BY <1>8, <1>10, WatchedShaped

\* What a change brings to a server is filed there.
Brings(s, S) == \A r \in S \ held[s] : Filed(s, r)

\* Ids, marks and what others did stay within their bounds.
Ranged ==
  /\ nextId' \in FirstId..MaxId /\ others' \in 0..MaxOthers
  /\ DOMAIN marks' = Servers /\ \A s \in Servers : marks'[s] \subseteq Mark

LEMMA BringsAt ==
  ASSUME Inv, NEW s \in Servers, NEW S, Brings(s, S), NEW t \in Servers
  PROVE  Brings(t, [held EXCEPT ![s] = S][t])
<1>1. DOMAIN held = Servers
  BY DEF Inv, HeldOK
<1>2. [held EXCEPT ![s] = S][t] = IF t = s THEN S ELSE held[t]
  BY <1>1
<1> QED
  BY <1>2 DEF Brings

\* Where nothing comes but what is filed, every record is.
LEMMA ChangeTyped ==
  ASSUME Typing, Ranged, \A s \in Servers : Brings(s, held'[s]),
         \A d \in Clients : Shaped(call'[d])
  PROVE  Typing'
<1>1. ASSUME NEW s \in Servers, NEW r \in held'[s]
      PROVE  Filed(s, r)
  BY DEF Typing, Brings
<1> QED
  BY <1>1 DEF Typing, Ranged

\* A change a call makes at its server.
LEMMA AppliedTyped ==
  ASSUME Inv, Settled, Typing, NEW c \in Clients, Busy(c), Op(c) \in DnsWrite,
         Next1(c) = "act", NEW h, NEW dropped, Applied(c, h, dropped), Ranged,
         h = held \/ \E S : h = [held EXCEPT ![Server(c)] = S] /\ Brings(Server(c), S)
  PROVE  Typing'
<1>1. held' = h
  BY DEF Applied
<1>2. Server(c) \in Servers
  BY ServerType
<1>3. \A s \in Servers : Brings(s, h[s])
  <2>1. CASE h = held
    BY <2>1 DEF Brings
  <2>2. CASE \E S : h = [held EXCEPT ![Server(c)] = S] /\ Brings(Server(c), S)
    BY <1>2, <2>2, BringsAt
  <2> QED
    BY <2>1, <2>2
<1>4. \A d \in Clients : Shaped(call'[d])
  BY AppliedShaped
<1> QED
  BY <1>1, <1>3, <1>4, ChangeTyped

\* A record that is stored.
LEMMA StoredFiled ==
  ASSUME NEW s \in Servers, NEW p, NEW id,
         p.data \in Given(VendorOf[s])
           \/ (p.data \in Forms /\ ZoneImport \subseteq Declared(VendorOf[s]))
  PROVE  Filed(s, Stored(s, p, id))
<1> DEFINE v == VendorOf[s]
           i == IF ById(v) THEN id ELSE 0
<1>1. Kept(v, p.data) \in Forms
  BY FormsAssumption
<1>2. ~ById(v) => i \in 0..MaxId
  BY OperationsAssumption
<1>3. Stored(s, p, id) = [id |-> i, name |-> p.name, data |-> Kept(v, p.data)]
  BY DEF Stored
<1> HIDE DEF i
<1> QED
  BY <1>1, <1>2, <1>3 DEF Filed

\* The next id is given, and no other bound moves.
LEMMA OneGiven ==
  ASSUME Typing, nextId < MaxId, nextId' = nextId + 1, UNCHANGED <<marks, others>>
  PROVE  Ranged
BY OperationsAssumption DEF Typing, Ranged

LEMMA NoneGiven ==
  ASSUME Typing, UNCHANGED <<marks, nextId, others>>
  PROVE  Ranged
BY DEF Typing, Ranged

\* The zones of a server change,
LEMMA ZonesTyped ==
  ASSUME Inv, Settled, Typing, NEW c \in Clients, CreateZone(c) \/ DeleteZone(c)
  PROVE  Typing'
<1>1. Busy(c) /\ Next1(c) = "act" /\ Op(c) \in DnsWrite /\ UNCHANGED <<marks, others>>
  BY DEF CreateZone, DeleteZone, Due, DnsWrite, ZoneWrite
<1>2. CASE Rejected(c)
  <2>1. nextId' = nextId \/ CreateZone(c)
    BY DEF DeleteZone
  <2>2. CASE nextId' = nextId
    <3>1. Refused(c) /\ Still
      BY <1>1, <1>2, <2>2 DEF Rejected, Still
    <3> QED
      BY <1>1, <3>1, RefusedTyped
  <2>3. CASE nextId' # nextId
    <3>1. /\ nextId < MaxId /\ nextId' = nextId + 1
          /\ Applied(c, held, {<<Server(c), call[c].ask.zone, "created">>})
      BY <2>1, <2>3 DEF CreateZone
    <3>2. Ranged
      BY <1>1, <3>1, OneGiven
    <3> QED
      BY <1>1, <3>1, <3>2, AppliedTyped
  <2> QED
    BY <2>2, <2>3
<1>3. CASE ~Rejected(c) /\ CreateZone(c)
  <2>1. /\ nextId < MaxId /\ nextId' = nextId + 1
        /\ Applied(c, held, {<<Server(c), call[c].ask.zone, "created">>})
    BY <1>3 DEF CreateZone
  <2>2. Ranged
    BY <1>1, <2>1, OneGiven
  <2> QED
    BY <1>1, <2>1, <2>2, AppliedTyped
<1>4. CASE ~Rejected(c) /\ DeleteZone(c)
  <2>1. nextId' = nextId
    BY <1>4 DEF DeleteZone
  <2> DEFINE S == held[Server(c)] \ InZone(held[Server(c)], call[c].ask.zone)
             h == [held EXCEPT ![Server(c)] = S]
  <2>2. \E dropped : Applied(c, h, dropped)
    BY <1>4 DEF DeleteZone
  <2>3. Ranged
    BY <1>1, <2>1, NoneGiven
  <2>4. Brings(Server(c), S)
    BY DEF Brings
  <2>5. \E R : h = [held EXCEPT ![Server(c)] = R] /\ Brings(Server(c), R)
    BY <2>4
  <2> HIDE DEF h, S
  <2> QED
    BY <1>1, <2>2, <2>3, <2>5, AppliedTyped
<1> QED
  BY <1>2, <1>3, <1>4

\* What a call that changes a server asks for, and where.
LEMMA AsksAt ==
  ASSUME Inv, Settled, NEW c \in Clients, Busy(c), Op(c) \in DnsWrite, ~IsTransfer(call[c].ask)
  PROVE  call[c].ask.op = Op(c) /\ call[c].ask.server = Server(c)
<1>1. UnderWay(call[c]) /\ Op(c) = Method(call[c]).op /\ Server(c) = Method(call[c]).server
  BY BusyAtWork DEF AtWork
<1>2. ~AcrossZones(call[c].ask)
  BY <1>1, ChangingMethods
<1> QED
  BY <1>1, <1>2, MethodIs DEF At

\* a record is added,
LEMMA AddTyped ==
  ASSUME Inv, Settled, Typing, NEW c \in Clients, AddRecord(c)
  PROVE  Typing'
<1> DEFINE s == Server(c)
           p == Sent(c)
           S == held[s] \cup {Stored(s, p, nextId)}
           h == [held EXCEPT ![s] = S]
<1>1. /\ Busy(c) /\ Next1(c) = "act" /\ Op(c) = "add_record" /\ UNCHANGED <<marks, others>>
      /\ Op(c) \in DnsWrite
  BY DEF AddRecord, Due, DnsWrite, RecordWrite
<1>2. CASE Rejected(c) /\ nextId' = nextId
  BY <1>1, <1>2, RefusedTyped DEF Rejected, Still
<1>3. CASE ~(Rejected(c) /\ nextId' = nextId)
  <2>1. nextId < MaxId /\ nextId' = nextId + 1 /\ Applied(c, h, {})
    BY <1>3 DEF AddRecord
  <2>2. Ranged
    BY <1>1, <2>1, OneGiven
  <2>3. ~IsTransfer(call[c].ask)
    <3>1. call[c].leg \in {1, 2}
      BY <1>1, BusyCall DEF IsCall
    <3> QED
      BY <1>1, <3>1 DEF IsTransfer, Op, Methods, At
  <2>4. call[c].ask.op = "add_record" /\ call[c].ask.server = s
    BY <1>1, <2>3, AsksAt
  <2>5. Shaped(call[c]) /\ call[c].st = "busy"
    BY <1>1, BusyCall DEF Typing
  <2>6. p.data \in Given(VendorOf[s])
    BY <2>4, <2>5 DEF Shaped, Sent
  <2>7. s \in Servers
    BY <1>1, ServerType
  <2>8. Filed(s, Stored(s, p, nextId))
    BY <2>6, <2>7, StoredFiled
  <2>9. Brings(s, S)
    BY <2>8 DEF Brings
  <2>10. \E R : h = [held EXCEPT ![Server(c)] = R] /\ Brings(Server(c), R)
    BY <2>9
  <2> HIDE DEF h, S, s, p
  <2> QED
    BY <1>1, <2>1, <2>2, <2>10, AppliedTyped
<1> QED
  BY <1>2, <1>3

\* one is deleted,
LEMMA DeleteTyped ==
  ASSUME Inv, Settled, Typing, NEW c \in Clients, DeleteRecord(c)
  PROVE  Typing'
<1> DEFINE S == held[Server(c)] \ Doomed(c)
           h == [held EXCEPT ![Server(c)] = S]
<1>1. /\ Busy(c) /\ Next1(c) = "act" /\ Op(c) \in DnsWrite
      /\ UNCHANGED <<marks, nextId, others>>
  BY DEF DeleteRecord, Due, DnsWrite, RecordWrite
<1>2. CASE Rejected(c)
  BY <1>1, <1>2, RefusedTyped DEF Rejected, Still
<1>3. CASE ~Rejected(c)
  <2>1. Applied(c, h, {})
    BY <1>3 DEF DeleteRecord
  <2>2. Ranged
    BY <1>1, NoneGiven
  <2>3. Brings(Server(c), S)
    BY DEF Brings
  <2>4. \E R : h = [held EXCEPT ![Server(c)] = R] /\ Brings(Server(c), R)
    BY <2>3
  <2> HIDE DEF h, S
  <2> QED
    BY <1>1, <2>1, <2>2, <2>4, AppliedTyped
<1> QED
  BY <1>2, <1>3

\* What an operation leaves of the marks of a server, and adds to them.
LEMMA MarksType ==
  ASSUME NEW c, Op(c) \in Marking, call[c].ask \in Parameters, NEW M \in SUBSET Mark
  PROVE  MarksAfter(c, M) \subseteq Mark
<1> DEFINE a == call[c].ask
           op == Op(c)
<1>1. a.name \in Domains /\ a.zone \in Domains
  BY OperationsAssumption DEF Parameters
<1>2. /\ \A w \in {"blocked", "allowed"} : <<w, a.name>> \in Mark
      /\ \A w \in {"setting", "option", "off"} : <<w, a.zone>> \in Mark
  BY <1>1 DEF Mark
<1>3. /\ op = "flush_cache" => MarksAfter(c, M) = {m \in M : m[1] # "cached"}
      /\ op = "delete_cache_zone" => MarksAfter(c, M) = M \ {<<"cached", a.name>>}
      /\ op = "add_blocked" => MarksAfter(c, M) = M \cup {<<"blocked", a.name>>}
      /\ op = "delete_blocked" => MarksAfter(c, M) = M \ {<<"blocked", a.name>>}
      /\ op = "add_allowed" => MarksAfter(c, M) = M \cup {<<"allowed", a.name>>}
      /\ op = "delete_allowed" => MarksAfter(c, M) = M \ {<<"allowed", a.name>>}
      /\ op = "set_settings" => MarksAfter(c, M) = M \cup {<<"setting", a.zone>>}
      /\ op = "set_zone_options" => MarksAfter(c, M) = M \cup {<<"option", a.zone>>}
      /\ op = "enable_zone" => MarksAfter(c, M) = M \ {<<"off", a.zone>>}
      /\ op = "disable_zone" => MarksAfter(c, M) = M \cup {<<"off", a.zone>>}
  BY DEF MarksAfter
<1>4. op \in {"flush_cache", "delete_cache_zone", "add_blocked", "delete_blocked", "add_allowed",
              "delete_allowed", "set_settings", "set_zone_options", "enable_zone",
              "disable_zone"}
  BY DEF Marking, CacheWrite, AccessListWrite, SettingsWrite, ZoneOptionsWrite
<1>5. /\ {m \in M : m[1] # "cached"} \subseteq Mark
      /\ \A m : M \ {m} \subseteq Mark
      /\ \A m \in Mark : M \cup {m} \subseteq Mark
  OBVIOUS
<1> HIDE DEF op, a
<1> QED
  BY <1>2, <1>3, <1>4, <1>5

\* a mark is set or taken away,
LEMMA MarksTyped ==
  ASSUME Inv, Settled, Typing, NEW c \in Clients, ChangeMarks(c)
  PROVE  Typing'
<1>1. /\ Busy(c) /\ Next1(c) = "act" /\ Op(c) \in Marking
      /\ UNCHANGED <<nextId, others>>
  BY DEF ChangeMarks, Due
<1>2. Op(c) \in DnsWrite
  BY <1>1 DEF Marking, DnsWrite, ZoneWrite
<1>3. CASE Rejected(c) /\ marks' = marks
  BY <1>1, <1>3, RefusedTyped DEF Rejected, Still
<1>4. CASE ~(Rejected(c) /\ marks' = marks)
  <2>1. /\ marks' = [marks EXCEPT ![Server(c)] = MarksAfter(c, @)]
        /\ Applied(c, held, {})
    BY <1>4 DEF ChangeMarks
  <2>2. Server(c) \in Servers /\ call[c].ask \in Parameters
    BY <1>1, ServerType, BusyCall
  <2> DEFINE M == MarksAfter(c, marks[Server(c)])
  <2>3. M \subseteq Mark
    BY <1>1, <2>2, MarksType DEF Typing
  <2> HIDE DEF M
  <2>4. marks' = [marks EXCEPT ![Server(c)] = M]
    BY <2>1 DEF M
  <2>5. DOMAIN marks' = Servers /\ \A s \in Servers : marks'[s] \subseteq Mark
    BY <2>3, <2>4 DEF Typing
  <2>6. Ranged
    BY <1>1, <2>5 DEF Typing, Ranged
  <2> QED
    BY <1>1, <1>2, <2>1, <2>6, AppliedTyped
<1> QED
  BY <1>3, <1>4

\* The vendors that declare the import of a zone file.
LEMMA ImportDeclared ==
  ASSUME NEW v \in VendorKind, "import_zone_file" \in Declared(v) \cup StatsRead
  PROVE  v \in {"technitium", "cloudflare"} /\ ZoneImport \subseteq Declared(v)
<1>1. "import_zone_file" \in Declared(v)
  BY DEF StatsRead
<1>2. CASE v = "unifi"
  <2>1. Declared(v) = UNION {VendorCapabilities[f] : f \in U!capabilities}
    BY <1>2, Zenon DEF Declared
  <2> QED
    BY <1>1, <2>1 DEF U!capabilities, VendorCapabilities, RecordWrite, SettingsRead
<1>3. CASE v = "pihole"
  <2>1. Declared(v) = UNION {VendorCapabilities[f] : f \in P!capabilities}
    BY <1>3, Zenon DEF Declared
  <2> QED
    BY <1>1, <2>1 DEF P!capabilities, VendorCapabilities, RecordWrite, SettingsRead,
                      CacheRead, CacheWrite, AccessListRead, AccessListWrite
<1>4. CASE v = "pangolin"
  <2>1. Declared(v) = UNION {VendorCapabilities[f] : f \in G!capabilities}
    BY <1>4, Zenon DEF Declared
  <2> QED
    BY <1>1, <2>1 DEF G!capabilities, VendorCapabilities, RecordWrite, SettingsRead, ZoneWrite
<1>5. ZoneImport \subseteq Declared(v)
  BY <1>1 DEF ZoneImport
<1> QED
  BY <1>2, <1>3, <1>4, <1>5 DEF VendorKind

\* What a file that is imported is made of.
LEMMA FileTyped ==
  ASSUME Inv, Settled, Typing, NEW c \in Clients, Busy(c), Op(c) \in ZoneImport,
         NEW p \in FileOf(c)
  PROVE  \/ p.data \in Given(Vendor(c))
         \/ p.data \in Forms /\ ZoneImport \subseteq Declared(Vendor(c))
<1> DEFINE x == call[c]
           a == x.ask
<1>1. /\ AtWork(x, held) /\ Op(c) = Method(x).op /\ Vendor(c) = VendorAt(x)
      /\ Vendor(c) \in VendorKind
  BY BusyAtWork
<1>2. Op(c) = "import_zone_file" /\ Op(c) \in DnsWrite
  BY DEF ZoneImport, DnsWrite
<1>3. Vendor(c) \in {"technitium", "cloudflare"} /\ ZoneImport \subseteq Declared(Vendor(c))
  <2>1. Op(c) \in Declared(Vendor(c)) \cup StatsRead
    BY <1>1 DEF AtWork, Working, Offered
  <2> QED
    BY <1>1, <1>2, <2>1, ImportDeclared
<1>4. CASE IsTransfer(a)
  <2>1. p \in x.file
    BY <1>4 DEF FileOf
  <2>2. Shaped(x)
    BY DEF Typing
  <2> QED
    BY <1>3, <2>1, <2>2 DEF Shaped
<1>5. CASE ~IsTransfer(a)
  <2>1. a.op = "import_zone_file"
    BY <1>2, <1>5, AsksAt
  <2>2. p.data = a.data
    BY <1>5 DEF FileOf, Plain
  <2>3. FromLoad(c, x, load) /\ a \in Parameters
    BY BusyCall DEF CallOK
  <2>4. PICK q \in load.asks[c] : q.ask = a
    BY <2>3 DEF FromLoad
  <2>5. IsRecordData(q.ask.data)
    BY <2>1, <2>4, DataAssumption DEF Inv
  <2>6. a.data \in Data
    BY <2>3 DEF Parameters
  <2> QED
    BY <1>3, <2>2, <2>4, <2>5, <2>6 DEF Given
<1> QED
  BY <1>4, <1>5

\* and a zone file is imported.
LEMMA ImportTyped ==
  ASSUME Inv, Settled, Typing, NEW c \in Clients, ImportZone(c)
  PROVE  Typing'
<1> DEFINE s      == Server(c)
           a      == call[c].ask
           there  == InZone(held[s], a.zone)
<1>1. /\ Busy(c) /\ Next1(c) = "act" /\ Op(c) \in ZoneImport /\ Op(c) \in DnsWrite
      /\ UNCHANGED <<marks, others>>
  BY DEF ImportZone, Due, DnsWrite
<1>2. CASE Rejected(c) /\ nextId' = nextId
  BY <1>1, <1>2, RefusedTyped DEF Rejected, Still
<1>3. ASSUME NEW spared \in Spared(Vendor(c), there, FileOf(c), a.flag), Imports(c, spared)
      PROVE  Typing'
  <2> DEFINE new   == {p \in FileOf(c) : \A r \in spared : Plain(r) # Plain(Stored(s, p, 0))}
             added == Numbered(s, new, nextId)
             S     == (held[s] \ there) \cup spared \cup added
             h     == [held EXCEPT ![s] = S]
             n     == Cardinality(new)
  <2>1. nextId + n <= MaxId /\ nextId' = nextId + n /\ Applied(c, h, {})
    BY <1>3 DEF Imports
  <2>2. s \in Servers /\ a \in Parameters
    BY <1>1, ServerType, BusyCall
  <2>3. n \in Nat
    <3>1. IsFiniteSet(new)
      BY <1>1, FileOK, FS_Subset
    <3> QED
      BY <3>1, FS_CardinalityType
  <2>4. Ranged
    <3>1. nextId \in FirstId..MaxId /\ FirstId \in Nat /\ MaxId \in Nat
      BY OperationsAssumption DEF Typing
    <3> HIDE DEF n
    <3>2. nextId' \in FirstId..MaxId
      BY <2>1, <2>3, <3>1
    <3> QED
      BY <1>1, <3>2 DEF Typing, Ranged
  <2>5. spared \subseteq held[s]
    BY <1>3 DEF Spared, InZone
  <2>6. \A r \in added : Filed(s, r)
    <3>1. \E f : added = {Stored(s, p, f[p]) : p \in new}
      BY Zenon DEF Numbered
    <3>2. ASSUME NEW p \in new, NEW id
          PROVE  Filed(s, Stored(s, p, id))
      <4>1. p \in FileOf(c)
        OBVIOUS
      <4>2. \/ p.data \in Given(VendorOf[s])
            \/ p.data \in Forms /\ ZoneImport \subseteq Declared(VendorOf[s])
        BY <1>1, <4>1, FileTyped DEF Vendor
      <4> HIDE DEF s, new
      <4> QED
        BY <2>2, <4>2, StoredFiled
    <3> HIDE DEF s, new, added
    <3> QED
      BY <3>1, <3>2
  <2>7. Brings(s, S)
    <3>1. S \ held[s] \subseteq added
      BY <2>5
    <3> HIDE DEF S, added, s
    <3> QED
      BY <2>6, <3>1 DEF Brings
  <2>8. h = [held EXCEPT ![Server(c)] = S] /\ Brings(Server(c), S)
    BY <2>7
  <2> HIDE DEF h, S, s, n, new, added, there
  <2> QED
    BY <1>1, <2>1, <2>4, <2>8, AppliedTyped
<1> QED
  BY <1>2, <1>3 DEF ImportZone, Imports

\* Others file what they add and edit too.
LEMMA OthersTyped ==
  ASSUME Inv, Typing, NEW s \in Servers, OtherUsers(s)
  PROVE  Typing'
<1>1. /\ others < MaxOthers /\ others' = others + 1 /\ marks' = marks
      /\ call' = Watched(held', {})
  BY DEF OtherUsers, OtherAdds, OtherRemoves, OtherEdits, OtherRecreates, OthersChange
<1>2. \/ nextId' = nextId
      \/ nextId < MaxId /\ nextId' = nextId + 1
  BY DEF OtherUsers, OtherAdds, OtherRemoves, OtherEdits, OtherRecreates
<1>3. Ranged
  BY <1>1, <1>2, OperationsAssumption DEF Typing, Ranged
<1>4. \E S : held' = [held EXCEPT ![s] = S] /\ Brings(s, S)
  <2>1. ASSUME NEW p \in Others[s], NEW id
        PROVE  Filed(s, Stored(s, p, id))
    BY DataAssumption, StoredFiled
  <2>2. ASSUME NEW p \in Others[s], NEW id, NEW S, S \subseteq held[s] \cup {Stored(s, p, id)}
        PROVE  Brings(s, S)
    BY <2>1, <2>2 DEF Brings
  <2>3. ASSUME NEW S \in SUBSET held[s]
        PROVE  Brings(s, S)
    BY DEF Brings
  <2>4. CASE OtherAdds(s)
    <3>1. PICK p \in Others[s] : held' = [held EXCEPT ![s] = held[s] \cup {Stored(s, p, nextId)}]
      BY <2>4 DEF OtherAdds, OthersChange
    <3>2. Brings(s, held[s] \cup {Stored(s, p, nextId)})
      BY <2>2
    <3> QED
      BY <3>1, <3>2
  <2>5. CASE OtherEdits(s)
    <3>1. PICK q \in held[s], p \in Others[s] :
            held' = [held EXCEPT ![s] = (held[s] \ {q}) \cup {Stored(s, p, q.id)}]
      BY <2>5 DEF OtherEdits, OthersChange
    <3>2. Brings(s, (held[s] \ {q}) \cup {Stored(s, p, q.id)})
      BY <2>2
    <3> QED
      BY <3>1, <3>2
  <2>6. CASE OtherRemoves(s) \/ OtherRecreates(s)
    <3>1. \E S \in SUBSET held[s] : held' = [held EXCEPT ![s] = S]
      BY <2>6 DEF OtherRemoves, OtherRecreates, OthersChange
    <3> QED
      BY <2>3, <3>1
  <2> QED
    BY <2>4, <2>5, <2>6 DEF OtherUsers
<1>5. \A t \in Servers : Brings(t, held'[t])
  BY <1>4, BringsAt
<1>6. \A d \in Clients : Shaped(call'[d])
  BY <1>1, WatchedShaped
<1> QED
  BY <1>3, <1>5, <1>6, ChangeTyped

\* A step of a client keeps the types,
LEMMA ClientTyped ==
  ASSUME Inv, Settled, Typing, Listings, NEW c \in Clients,
         StartTool(c) \/ StartCommand(c) \/ Advance(c) \/ Refuse(c) \/ Fail(c)
  PROVE  Typing'
<1>1. CASE StartTool(c) \/ StartCommand(c)
  BY <1>1, StartTyped
<1>2. CASE Lookup(c) \/ Refuse(c) \/ Fail(c)
  BY <1>2, LookUpTyped, LookUpDomainTyped DEF Lookup
<1>3. CASE Fetch(c)
  BY <1>3, FetchZonesTyped, FetchPageTyped, ListsTyped DEF Fetch
<1>4. CASE Work(c)
  BY <1>4, ZonesTyped, AddTyped, DeleteTyped, MarksTyped, ReadTyped, LookUpTyped, ExportTyped,
     ImportTyped DEF Work
<1> QED
  BY <1>1, <1>2, <1>3, <1>4 DEF Advance

\* and so does every other step.
LEMMA EveryTyped ==
  ASSUME Inv, Settled, Typing, Listings, [Next]_vars
  PROVE  Typing'
<1>1. CASE UNCHANGED vars
  BY <1>1 DEF vars, Typing
<1>2. CASE Next
  <2>1. load.shared \subseteq Servers
    BY OperationsAssumption DEF Inv
  <2> QED
    BY <1>2, <2>1, ClientTyped, OthersTyped DEF Next
<1> QED
  BY <1>1, <1>2

\* They hold at first.
LEMMA InitTyping ==
  ASSUME Init
  PROVE  Typing
<1>1. nextId \in FirstId..MaxId /\ others \in 0..MaxOthers
  BY OperationsAssumption DEF Init
<1>2. DOMAIN marks = Servers /\ \A s \in Servers : marks[s] \subseteq Mark
  BY DEF Init
<1>3. ASSUME NEW s \in Servers, NEW r \in held[s]
      PROVE  Filed(s, r)
  <2>1. r \in Record
    BY OperationsAssumption DEF Init
  <2>2. r.data \in Forms /\ r.id \in 0..MaxId
        /\ r = [id |-> r.id, name |-> r.name, data |-> r.data]
    BY <2>1 DEF Record
  <2> QED
    BY <2>2 DEF Filed
<1>4. Shaped(Idle)
  <2>1. /\ Idle.st = "idle" /\ Idle.outcome = "none" /\ Idle.effects = 0 /\ Idle.heard = "fine"
        /\ Idle.todo = << >> /\ Idle.left = << >> /\ Idle.got = << >> /\ Idle.file = {}
    BY DEF Idle
  <2>2. << >> \in Seq(Request) /\ << >> \in Seq(Zones) /\ << >> \in Seq(Record)
    OBVIOUS
  <2> QED
    BY <2>1, <2>2 DEF Shaped, Outcome
<1>5. \A c \in Clients : Shaped(call[c])
  BY <1>4 DEF Init
<1> QED
  BY <1>1, <1>2, <1>3, <1>5 DEF Typing

\* The types of the variables follow.
LEMMA TypingIsTypeOK ==
  ASSUME Inv, Typing
  PROVE  TypeOK
<1>1. \A s \in Servers : held[s] \subseteq Record /\ marks[s] \subseteq Mark
  BY HeldType DEF Typing
<1>2. ASSUME NEW c \in Clients
      PROVE  /\ call[c].st \in {"idle", "busy", "done"}
             /\ call[c].outcome \in Outcome
             /\ call[c].st # "idle" => call[c].ask \in Parameters
             /\ call[c].todo \in Seq(Request) /\ call[c].left \in Seq(Zones)
             /\ Busy(c) <=> call[c].todo # << >>
             /\ Range(call[c].got) \subseteq Record
             /\ call[c].effects \in 0..1
             /\ call[c].heard \in {"fine", "lost", "refused"}
  <2>1. Shaped(call[c])
    BY DEF Typing
  <2>2. call[c].st # "idle" => call[c].ask \in Parameters
    BY AskType DEF Inv, CallOK
  <2>3. Range(call[c].got) \subseteq Record
    <3>1. call[c].got \in Seq(Record)
      BY <2>1 DEF Shaped
    <3> QED
      BY <3>1 DEF Range
  <2> QED
    BY <2>1, <2>2, <2>3 DEF Shaped, Busy
<1> QED
  BY <1>1, <1>2 DEF TypeOK, Inv, Typing

\* The variables have their types, whatever the calls, the servers and the
\* other users do: what a server holds and a listing reports are records in a
\* form the server can hold, ids stay in range, and a call has requests left
\* just while it is under way.
THEOREM OperationsTypes == Spec => []TypeOK
<1>1. Init => Inv /\ Settled /\ Guide /\ Listings /\ Typing
  <2> HAVE Init
  <2>1. Inv /\ Guide /\ Listings /\ Typing
    BY InitInv, InitGuide, InitListings, InitTyping
  <2>2. Settled
    BY DEF Init, Settled, Sound, Idle
  <2> QED
    BY <2>1, <2>2
<1>2. Inv /\ Settled /\ Guide /\ Listings /\ Typing /\ [Next]_vars
        => Inv' /\ Settled' /\ Guide' /\ Listings' /\ Typing'
  BY EveryStep, EverySettled, EveryGuided, EveryFollowed, EveryTyped
<1>3. Inv /\ Typing => TypeOK
  BY TypingIsTypeOK
<1> QED
  BY <1>1, <1>2, <1>3, PTL DEF Spec
=============================================================================
