----------------------------- MODULE DwmProofs -----------------------------
(* The lists and the selection of dwm: theorems about every instance of Dwm,   *)
(* and the lemmas they rest on: what the list operations do to a list without  *)
(* repetition, and that each function that handlers call leaves the lists      *)
(* consistent.                                                                 *)
EXTENDS Dwm, SequenceTheorems, NaturalsInduction, WellFoundedInduction, TLAPS

----------------------------------------------------------------------------
(* Lists without repetition *)

Less == {ss \in Nat \X Nat : ss[1] < ss[2]}

\* The library's Min is defined on every set of numbers that is not empty.
LEMMA MinExists ==
  ASSUME NEW T \in SUBSET Nat, T # {}
  PROVE  Min(T) \in T /\ \A y \in T : Min(T) =< y
<1>1. IsWellFoundedOn(OpToRel(<, Nat), Nat)
  BY NatLessThanWellFounded
<1>2. OpToRel(<, Nat) = Less
  BY Zenon DEF OpToRel, Less
<1>3. IsWellFoundedOn(Less, Nat)
  BY <1>1, <1>2
<1>4. PICK x \in T : \A y \in T : ~ (<<y, x>> \in Less)
  BY <1>3, WFMin
<1>5. ASSUME NEW y \in T PROVE x =< y
  <2>1. <<y, x>> \in Nat \X Nat /\ ~ (<<y, x>> \in Less)
    BY <1>4
  <2>2. ~ (y < x)
    BY <2>1 DEF Less
  <2> QED BY <2>2
<1> QED BY <1>5 DEF Min

LEMMA MaxExists ==
  ASSUME NEW n \in Nat, NEW T \in SUBSET (1..n), T # {}
  PROVE  Max(T) \in T
<1> DEFINE U == {n - x : x \in T}
<1>1. U \in SUBSET Nat /\ U # {}
  <2>1. \A x \in T : x \in Int /\ n - x \in Nat
    OBVIOUS
  <2>2. PICK x \in T : TRUE
    OBVIOUS
  <2>3. n - x \in U
    OBVIOUS
  <2> QED BY <2>1, <2>3
<1>2. PICK u \in U : \A y \in U : u =< y
  BY <1>1, MinExists
<1>3. PICK x \in T : u = n - x
  BY <1>2
<1>4. \A y \in T : x >= y
  <2> TAKE y \in T
  <2>1. n - x =< n - y
    BY <1>2, <1>3
  <2> QED BY <2>1
<1> QED BY <1>4 DEF Max

\* The walk ends at 0 or at one of the positions it was given.
LEMMA CyclicIn ==
  ASSUME NEW n \in Nat, NEW Good \in SUBSET (1..n), NEW k, NEW dir
  PROVE  Cyclic(Good, k, dir) \in Good \cup {0}
<1> DEFINE ahead == {i \in Good : IF dir > 0 THEN i > k ELSE i < k}
           from  == IF ahead # {} THEN ahead
                    ELSE IF dir > 0 THEN Good ELSE {i \in Good : i >= k}
           c     == Cyclic(Good, k, dir)
<1>1. from \in SUBSET Good
  OBVIOUS
<1>2. c = IF from = {} THEN 0 ELSE IF dir > 0 THEN Min(from) ELSE Max(from)
  BY DEF Cyclic
<1> HIDE DEF from, c
<1>3. from \in SUBSET (1..n) /\ from \in SUBSET Nat
  BY <1>1
<1>4. CASE from = {}
  BY <1>2, <1>4 DEF c
<1>5. CASE from # {}
  <2>1. Min(from) \in from /\ Max(from) \in from
    BY <1>3, <1>5, MinExists, MaxExists
  <2> QED BY <1>1, <1>2, <1>5, <2>1 DEF c
<1> QED BY <1>4, <1>5

LEMMA IndexOfListed ==
  ASSUME NEW S, NEW q, Lists(q, S), NEW e \in S
  PROVE  IndexOf(q, e) \in 1..Len(q) /\ q[IndexOf(q, e)] = e
<1>1. DOMAIN q = 1..Len(q)
  BY DEF Lists
<1>2. \E i \in DOMAIN q : q[i] = e
  BY DEF Lists, Range
<1> QED BY <1>1, <1>2 DEF IndexOf

LEMMA SeqOver ==
  ASSUME NEW S, NEW T, NEW q \in Seq(S), \A i \in 1..Len(q) : q[i] \in T
  PROVE  q \in Seq(T)
BY SubSeqProperties, SubSeqFull

LEMMA RemoveAtProps ==
  ASSUME NEW S, NEW q \in Seq(S), NEW k \in 1..Len(q)
  PROVE  /\ RemoveAt(q, k) \in Seq(S)
         /\ Len(RemoveAt(q, k)) = Len(q) - 1
         /\ \A i \in 1..Len(q) - 1 :
              RemoveAt(q, k)[i] = IF i < k THEN q[i] ELSE q[i + 1]
<1> DEFINE a == SubSeq(q, 1, k - 1)
           b == SubSeq(q, k + 1, Len(q))
<1>1. /\ a \in Seq(S) /\ Len(a) = k - 1
      /\ \A i \in 1..k - 1 : a[i] = q[i]
  BY SubSeqProperties
<1>2. /\ b \in Seq(S) /\ Len(b) = Len(q) - k
      /\ \A i \in 1..(Len(q) - k) : b[i] = q[k + i]
  BY SubSeqProperties
<1> HIDE DEF a, b
<1>3. /\ a \o b \in Seq(S) /\ Len(a \o b) = Len(a) + Len(b)
      /\ \A i \in 1..Len(a) + Len(b) :
           (a \o b)[i] = IF i <= Len(a) THEN a[i] ELSE b[i - Len(a)]
  BY <1>1, <1>2, ConcatProperties
<1>4. RemoveAt(q, k) = a \o b
  BY DEF RemoveAt, a, b
<1>5. Len(a) + Len(b) = Len(q) - 1
  BY <1>1, <1>2
<1>6. ASSUME NEW i \in 1..Len(q) - 1
      PROVE  (a \o b)[i] = IF i < k THEN q[i] ELSE q[i + 1]
  <2>1. CASE i < k
    BY <2>1, <1>1, <1>3, <1>5
  <2>2. CASE ~(i < k)
    <3>1. i - Len(a) \in 1..(Len(q) - k) /\ k + (i - Len(a)) = i + 1
      BY <2>2, <1>1
    <3>2. (a \o b)[i] = b[i - Len(a)]
      BY <2>2, <1>1, <1>3, <1>5
    <3> QED BY <2>2, <3>1, <3>2, <1>2
  <2> QED BY <2>1, <2>2
<1> QED BY <1>3, <1>4, <1>5, <1>6

LEMMA RemoveFirstIsRemoveAt ==
  ASSUME NEW S, NEW q, Lists(q, S), NEW k \in 1..Len(q)
  PROVE  RemoveFirst(q, q[k]) = RemoveAt(q, k)
<1>1. {i \in 1..Len(q) : q[i] = q[k]} = {k}
  BY DEF Lists, IsInjective
<1>2. Min({k}) = k
  BY DEF Min
<1>3. SelectInSeq(q, LAMBDA v : v = q[k]) = k
  BY Zenon, <1>1, <1>2 DEF SelectInSeq
<1> QED BY Zenon, <1>3 DEF RemoveFirst

\* detach and detachstack: the list loses the client and keeps the others.
LEMMA ListsRemove ==
  ASSUME NEW S, NEW q, Lists(q, S), NEW e \in S
  PROVE  Lists(RemoveFirst(q, e), S \ {e})
<1> DEFINE k == IndexOf(q, e)
           r == RemoveFirst(q, e)
<1>1. q \in Seq(S) /\ IsInjective(q) /\ Range(q) = S /\ DOMAIN q = 1..Len(q)
  BY DEF Lists
<1>2. k \in 1..Len(q) /\ q[k] = e
  BY IndexOfListed
<1>3. r = RemoveAt(q, k)
  BY <1>2, RemoveFirstIsRemoveAt
<1> HIDE DEF k, r
<1>4. /\ r \in Seq(S) /\ Len(r) = Len(q) - 1
      /\ \A i \in 1..Len(q) - 1 : r[i] = IF i < k THEN q[i] ELSE q[i + 1]
  BY <1>1, <1>2, <1>3, RemoveAtProps
<1>5. DOMAIN r = 1..Len(q) - 1
  BY <1>4
<1>6. IsInjective(r)
  <2> SUFFICES ASSUME NEW i \in 1..Len(q) - 1, NEW j \in 1..Len(q) - 1, r[i] = r[j]
               PROVE  i = j
    BY <1>5 DEF IsInjective
  <2> DEFINE old(n) == IF n < k THEN n ELSE n + 1
  <2>1. old(i) \in DOMAIN q /\ old(j) \in DOMAIN q
    BY <1>1, <1>2
  <2>2. q[old(i)] = r[i] /\ q[old(j)] = r[j]
    BY <1>4
  <2>3. old(i) = old(j)
    BY <2>1, <2>2, <1>1 DEF IsInjective
  <2> QED BY <2>3, <1>2
<1>7. ASSUME NEW i \in DOMAIN r PROVE r[i] \in S \ {e}
  BY <1>1, <1>2, <1>4, <1>5 DEF IsInjective
<1>8. ASSUME NEW x \in S \ {e} PROVE \E i \in DOMAIN r : r[i] = x
  <2>1. PICK j \in 1..Len(q) : q[j] = x
    BY <1>1 DEF Range
  <2>2. CASE j < k
    BY <2>1, <2>2, <1>2, <1>4, <1>5
  <2>3. CASE j > k
    <3>1. j - 1 \in 1..Len(q) - 1 /\ ~(j - 1 < k) /\ (j - 1) + 1 = j
      BY <2>3, <1>2
    <3> QED BY <2>1, <3>1, <1>4, <1>5
  <2> QED BY <2>1, <2>2, <2>3, <1>2
<1>9. Range(r) = S \ {e}
  BY <1>7, <1>8 DEF Range
<1>10. r \in Seq(S \ {e})
  BY <1>4, <1>5, <1>7, SeqOver
<1> QED BY <1>6, <1>9, <1>10 DEF Lists, r

\* attach and attachstack: the client is put before all others.
LEMMA ListsCons ==
  ASSUME NEW S, NEW q, Lists(q, S), NEW e, e \notin S
  PROVE  Lists(Cons(e, q), S \cup {e})
<1> DEFINE r == Cons(e, q)
<1>1. /\ q \in Seq(S \cup {e}) /\ <<e>> \in Seq(S \cup {e}) /\ IsInjective(q)
      /\ Range(q) = S /\ DOMAIN q = 1..Len(q) /\ Len(q) \in Nat
  BY SeqMonotonic DEF Lists
<1>2. /\ r \in Seq(S \cup {e}) /\ Len(r) = Len(q) + 1
      /\ \A i \in 1..Len(q) + 1 : r[i] = IF i <= 1 THEN <<e>>[i] ELSE q[i - 1]
  <2>1. /\ r = <<e>> \o q /\ Len(<<e>>) = 1
    BY DEF Cons
  <2> QED BY <1>1, <2>1, ConcatProperties
<1>3. DOMAIN r = 1..Len(q) + 1 /\ r[1] = e
  BY <1>1, <1>2
<1> HIDE DEF r
<1>4. ASSUME NEW i \in 2..Len(q) + 1 PROVE i - 1 \in DOMAIN q /\ r[i] = q[i - 1]
  BY <1>1, <1>2
<1>5. ASSUME NEW i \in 2..Len(q) + 1 PROVE r[i] \in S
  BY <1>1, <1>4 DEF Range
<1>6. IsInjective(r)
  <2> SUFFICES ASSUME NEW i \in 1..Len(q) + 1, NEW j \in 1..Len(q) + 1, r[i] = r[j]
               PROVE  i = j
    BY <1>3 DEF IsInjective
  <2>1. CASE i = 1 \/ j = 1
    BY <2>1, <1>3, <1>5
  <2>2. CASE i # 1 /\ j # 1
    <3>1. i \in 2..Len(q) + 1 /\ j \in 2..Len(q) + 1
      BY <2>2
    <3>2. i - 1 = j - 1
      BY <3>1, <1>1, <1>4 DEF IsInjective
    <3> QED BY <3>2
  <2> QED BY <2>1, <2>2
<1>7. ASSUME NEW x \in S PROVE \E i \in DOMAIN r : r[i] = x
  <2>1. PICK j \in 1..Len(q) : q[j] = x
    BY <1>1 DEF Range
  <2>2. j + 1 \in 2..Len(q) + 1 /\ (j + 1) - 1 = j /\ j + 1 \in 1..Len(q) + 1
    BY <1>1
  <2>3. j + 1 \in DOMAIN r /\ r[j + 1] = q[(j + 1) - 1]
    BY ONLY <2>2, <1>3, <1>4
  <2>4. r[j + 1] = x
    BY ONLY <2>1, <2>2, <2>3
  <2> QED BY ONLY <2>3, <2>4
<1>8. Range(r) = S \cup {e}
  <2>1. ASSUME NEW i \in DOMAIN r PROVE r[i] \in S \cup {e}
    BY <1>2, <1>3
  <2>2. \E i \in DOMAIN r : r[i] = e
    BY <1>1, <1>3
  <2> QED BY <2>1, <2>2, <1>7 DEF Range
<1> QED BY <1>2, <1>6, <1>8 DEF Lists, r

\* attachbottom: the client is put after all others.
LEMMA ListsAppend ==
  ASSUME NEW S, NEW q, Lists(q, S), NEW e, e \notin S
  PROVE  Lists(Append(q, e), S \cup {e})
<1> DEFINE r == Append(q, e)
           n == Len(q) + 1
<1>1. /\ q \in Seq(S \cup {e}) /\ IsInjective(q)
      /\ Range(q) = S /\ DOMAIN q = 1..Len(q) /\ Len(q) \in Nat
  BY SeqMonotonic DEF Lists
<1>2. /\ r \in Seq(S \cup {e}) /\ DOMAIN r = 1..n /\ r[n] = e
      /\ \A i \in 1..Len(q) : r[i] = q[i]
  BY <1>1
<1> HIDE DEF r
<1>3. ASSUME NEW i \in 1..Len(q) PROVE r[i] \in S
  BY <1>1, <1>2 DEF Range
<1>4. IsInjective(r)
  <2> SUFFICES ASSUME NEW i \in 1..n, NEW j \in 1..n, r[i] = r[j]
               PROVE  i = j
    BY <1>2 DEF IsInjective
  <2>1. CASE i = n \/ j = n
    BY <2>1, <1>1, <1>2, <1>3
  <2>2. CASE i # n /\ j # n
    BY <2>2, <1>1, <1>2 DEF IsInjective
  <2> QED BY <2>1, <2>2
<1>5. Range(r) = S \cup {e}
  <2>1. ASSUME NEW i \in DOMAIN r PROVE r[i] \in S \cup {e}
    BY <1>2
  <2>2. ASSUME NEW x \in S PROVE \E i \in DOMAIN r : r[i] = x
    BY <1>1, <1>2 DEF Range
  <2>3. n \in DOMAIN r
    BY <1>1, <1>2
  <2> QED BY <2>1, <2>2, <2>3, <1>2 DEF Range
<1> QED BY <1>2, <1>4, <1>5 DEF Lists, r

\* movestack: two clients of the list change places.
LEMMA ListsSwap ==
  ASSUME NEW S, NEW q, Lists(q, S), NEW k \in 1..Len(q), NEW j \in 1..Len(q)
  PROVE  Lists([q EXCEPT ![k] = q[j], ![j] = q[k]], S)
<1> DEFINE r == [q EXCEPT ![k] = q[j], ![j] = q[k]]
           to(i) == IF i = j THEN k ELSE IF i = k THEN j ELSE i
<1>1. /\ q \in Seq(S) /\ IsInjective(q) /\ Range(q) = S
      /\ DOMAIN q = 1..Len(q) /\ Len(q) \in Nat
  BY DEF Lists
<1>2. /\ r \in Seq(S) /\ DOMAIN r = 1..Len(q)
      /\ \A i \in 1..Len(q) : to(i) \in 1..Len(q) /\ r[i] = q[to(i)]
  BY <1>1
<1>3. \A i \in 1..Len(q) : to(to(i)) = i
  OBVIOUS
<1> HIDE DEF r, to
<1>4. IsInjective(r)
  BY <1>1, <1>2, <1>3 DEF IsInjective
<1>5. Range(r) = Range(q)
  <2>1. ASSUME NEW i \in DOMAIN r PROVE r[i] \in Range(q)
    BY <1>1, <1>2 DEF Range
  <2>2. ASSUME NEW i \in DOMAIN q PROVE q[i] \in Range(r)
    <3>1. to(i) \in DOMAIN r /\ r[to(i)] = q[i]
      BY <1>1, <1>2, <1>3
    <3> QED BY <3>1 DEF Range
  <2> QED BY <2>1, <2>2 DEF Range
<1> QED BY <1>1, <1>2, <1>4, <1>5 DEF Lists, r

\* updategeom: the clients of one list go, one by one, before those of another.
LEMMA ListsPrepend ==
  ASSUME NEW S, NEW T, NEW p, NEW q, Lists(p, S), Lists(q, T), S \cap T = {}
  PROVE  Lists(Reverse(p) \o q, S \cup T)
<1> DEFINE v == Reverse(p)
           r == v \o q
           a == Len(p)
           b == Len(q)
<1>1. /\ p \in Seq(S \cup T) /\ IsInjective(p) /\ Range(p) = S
      /\ DOMAIN p = 1..a /\ a \in Nat
  BY SeqMonotonic DEF Lists
<1>2. /\ q \in Seq(S \cup T) /\ IsInjective(q) /\ Range(q) = T
      /\ DOMAIN q = 1..b /\ b \in Nat
  BY SeqMonotonic DEF Lists
<1>3. /\ v \in Seq(S \cup T) /\ Len(v) = a
      /\ \A i \in 1..a : v[i] = p[(a - i) + 1]
  BY <1>1 DEF Reverse
<1> HIDE DEF v
<1>4. /\ r \in Seq(S \cup T) /\ DOMAIN r = 1..a + b
      /\ \A i \in 1..a + b : r[i] = IF i <= a THEN v[i] ELSE q[i - a]
  <2>1. /\ v \o q \in Seq(S \cup T) /\ Len(v \o q) = Len(v) + Len(q)
        /\ \A i \in 1..Len(v) + Len(q) :
             (v \o q)[i] = IF i <= Len(v) THEN v[i] ELSE q[i - Len(v)]
    <3>1. v \in Seq(S \cup T) /\ q \in Seq(S \cup T)
      BY <1>2, <1>3
    <3> QED BY ONLY <3>1, ConcatProperties
  <2> QED BY <2>1, <1>3
<1> HIDE DEF r
<1>5. ASSUME NEW i \in 1..a
      PROVE  i \in DOMAIN r /\ (a - i) + 1 \in DOMAIN p /\ r[i] = p[(a - i) + 1]
  BY <1>1, <1>2, <1>3, <1>4
<1>6. ASSUME NEW i \in a + 1..a + b
      PROVE  i \in DOMAIN r /\ i - a \in DOMAIN q /\ r[i] = q[i - a]
  <2>1. i \in 1..a + b /\ ~(i <= a) /\ i - a \in 1..b
    BY <1>1, <1>2, <1>6
  <2> QED BY ONLY <2>1, <1>2, <1>4
<1>7. \A i \in DOMAIN r : i \in 1..a \/ i \in a + 1..a + b
  BY <1>1, <1>2, <1>4
<1>8. \A i \in 1..a : r[i] \in S
  BY <1>1, <1>5 DEF Range
<1>9. \A i \in a + 1..a + b : r[i] \in T
  BY <1>2, <1>6 DEF Range
<1>10. IsInjective(r)
  <2> SUFFICES ASSUME NEW i \in DOMAIN r, NEW j \in DOMAIN r, r[i] = r[j]
               PROVE  i = j
    BY DEF IsInjective
  <2>1. CASE i \in 1..a /\ j \in 1..a
    <3>1. (a - i) + 1 = (a - j) + 1
      BY <2>1, <1>1, <1>5 DEF IsInjective
    <3> QED BY <2>1, <3>1, <1>1
  <2>2. CASE i \in a + 1..a + b /\ j \in a + 1..a + b
    <3>1. i - a = j - a
      BY <2>2, <1>2, <1>6 DEF IsInjective
    <3> QED BY <2>2, <3>1, <1>1, <1>2
  <2> QED BY <2>1, <2>2, <1>7, <1>8, <1>9
<1>11. ASSUME NEW x \in S PROVE \E i \in DOMAIN r : r[i] = x
  <2>1. PICK k \in 1..a : p[k] = x
    BY <1>1 DEF Range
  <2>2. (a - k) + 1 \in 1..a /\ (a - ((a - k) + 1)) + 1 = k
    BY <1>1
  <2> QED BY <2>1, <2>2, <1>5
<1>12. ASSUME NEW x \in T PROVE \E i \in DOMAIN r : r[i] = x
  <2>1. PICK k \in 1..b : q[k] = x
    BY <1>2 DEF Range
  <2>2. k + a \in a + 1..a + b /\ (k + a) - a = k
    BY <1>1, <1>2
  <2> QED BY <2>1, <2>2, <1>6
<1>13. Range(r) = S \cup T
  BY <1>7, <1>8, <1>9, <1>11, <1>12 DEF Range
<1> QED BY <1>4, <1>10, <1>13 DEF Lists, r, v

\* updategeom: the last monitor leaves the list of monitors.
LEMMA ListsFront ==
  ASSUME NEW S, NEW q, Lists(q, S), q # << >>
  PROVE  Lists(Front(q), S \ {Last(q)})
<1> DEFINE n == Len(q)
           r == Front(q)
           e == q[n]
<1>1. /\ q \in Seq(S) /\ IsInjective(q) /\ Range(q) = S
      /\ DOMAIN q = 1..n /\ n \in Nat /\ n > 0
  BY EmptySeq DEF Lists
<1>2. /\ r \in Seq(S) /\ Len(r) = n - 1 /\ \A i \in 1..n - 1 : r[i] = q[i]
  <2>1. /\ \A i \in 1..n - 1 : q[i] \in S
        /\ (n - 1) - 1 + 1 = n - 1 /\ \A i \in 1..n - 1 : 1 + i - 1 = i
    BY <1>1
  <2> QED BY <2>1, <1>1, SubSeqProperties DEF Front
<1> HIDE DEF r, n
<1>3. DOMAIN r = 1..n - 1
  BY <1>1, <1>2
<1>4. IsInjective(r)
  BY <1>1, <1>2, <1>3 DEF IsInjective
<1>5. ASSUME NEW i \in 1..n - 1 PROVE r[i] \in S \ {e}
  <2>1. i \in DOMAIN q /\ n \in DOMAIN q /\ i # n
    BY <1>1
  <2> QED BY <2>1, <1>1, <1>2 DEF IsInjective
<1>6. ASSUME NEW x \in S \ {e} PROVE \E i \in DOMAIN r : r[i] = x
  <2>1. PICK j \in 1..n : q[j] = x
    BY <1>1 DEF Range
  <2> QED BY <2>1, <1>1, <1>2, <1>3
<1>7. Range(r) = S \ {e}
  BY <1>3, <1>5, <1>6 DEF Range
<1>8. r \in Seq(S \ {e})
  BY <1>2, <1>5, SeqOver
<1> QED BY <1>4, <1>7, <1>8 DEF Lists, r, n, Last

LEMMA ListsEnds ==
  ASSUME NEW S, NEW q, Lists(q, S), Len(q) > 1
  PROVE  q[1] \in S /\ Last(q) \in S /\ q[1] # Last(q)
<1>1. /\ q \in Seq(S) /\ DOMAIN q = 1..Len(q) /\ Len(q) \in Nat
      /\ IsInjective(q) /\ Range(q) = S
  BY DEF Lists
<1>2. 1 \in DOMAIN q /\ Len(q) \in DOMAIN q /\ Len(q) # 1
  BY <1>1
<1> QED BY <1>1, <1>2 DEF Last, Range, IsInjective

----------------------------------------------------------------------------
(* The order of the elements *)

\* Which of two elements of a list without repetition comes first.
LEMMA BeforeAt ==
  ASSUME NEW S, NEW q, Lists(q, S), NEW i \in 1..Len(q), NEW j \in 1..Len(q)
  PROVE  Before(q, q[i], q[j]) <=> i < j
<1>1. q[i] \in S /\ q[j] \in S /\ DOMAIN q = 1..Len(q) /\ IsInjective(q)
  BY DEF Lists, Range
<1>2. /\ IndexOf(q, q[i]) \in 1..Len(q) /\ q[IndexOf(q, q[i])] = q[i]
      /\ IndexOf(q, q[j]) \in 1..Len(q) /\ q[IndexOf(q, q[j])] = q[j]
  BY <1>1, IndexOfListed
<1>3. IndexOf(q, q[i]) = i /\ IndexOf(q, q[j]) = j
  BY <1>1, <1>2 DEF IsInjective
<1> QED BY <1>3 DEF Before

LEMMA BeforeTotal ==
  ASSUME NEW S, NEW q, Lists(q, S), NEW c \in S, NEW d \in S
  PROVE  Before(q, c, d) <=> ~ Before(q, d, c) /\ c # d
<1>1. /\ IndexOf(q, c) \in 1..Len(q) /\ q[IndexOf(q, c)] = c
      /\ IndexOf(q, d) \in 1..Len(q) /\ q[IndexOf(q, d)] = d
  BY IndexOfListed
<1>2. Len(q) \in Nat
  BY DEF Lists
<1> DEFINE i == IndexOf(q, c)
           j == IndexOf(q, d)
<1> HIDE DEF i, j
<1>3. i \in 1..Len(q) /\ j \in 1..Len(q) /\ (i = j <=> c = d)
  BY <1>1 DEF i, j
<1>4. i < j <=> ~(j < i) /\ i # j
  BY <1>2, <1>3
<1> QED BY <1>3, <1>4 DEF Before, i, j

LEMMA BeforeRemove ==
  ASSUME NEW S, NEW q, Lists(q, S), NEW e \in S, NEW c \in S \ {e}, NEW d \in S \ {e}
  PROVE  Before(RemoveFirst(q, e), c, d) <=> Before(q, c, d)
<1> DEFINE k == IndexOf(q, e)
           i == IndexOf(q, c)
           j == IndexOf(q, d)
           r == RemoveFirst(q, e)
           to(n) == IF n < k THEN n ELSE n - 1
<1>1. /\ k \in 1..Len(q) /\ q[k] = e /\ i \in 1..Len(q) /\ q[i] = c
      /\ j \in 1..Len(q) /\ q[j] = d
  BY IndexOfListed
<1>2. q \in Seq(S) /\ Len(q) \in Nat /\ i # k /\ j # k
  BY <1>1 DEF Lists
<1>3. r = RemoveAt(q, k) /\ Lists(r, S \ {e})
  BY <1>1, RemoveFirstIsRemoveAt, ListsRemove
<1> HIDE DEF r
<1>4. /\ Len(r) = Len(q) - 1
      /\ \A n \in 1..Len(q) - 1 : r[n] = IF n < k THEN q[n] ELSE q[n + 1]
  BY <1>1, <1>2, <1>3, RemoveAtProps
<1>5. Before(q, c, d) <=> i < j
  BY DEF Before
<1> HIDE DEF i, j, k
<1>6. ASSUME NEW n \in 1..Len(q), n # k
      PROVE  to(n) \in 1..Len(r) /\ r[to(n)] = q[n]
  <2>1. CASE n < k
    BY <1>1, <1>2, <1>4, <2>1
  <2>2. CASE ~(n < k)
    <3>1. n - 1 \in 1..Len(q) - 1 /\ ~(n - 1 < k) /\ (n - 1) + 1 = n
      BY <1>1, <1>2, <1>6, <2>2
    <3> QED BY <1>4, <2>2, <3>1
  <2> QED BY <2>1, <2>2
<1>7. to(i) < to(j) <=> i < j
  BY <1>1, <1>2
<1>8. /\ to(i) \in 1..Len(r) /\ r[to(i)] = c
      /\ to(j) \in 1..Len(r) /\ r[to(j)] = d
  BY <1>1, <1>2, <1>6
<1> HIDE DEF to
<1>9. Before(r, r[to(i)], r[to(j)]) <=> to(i) < to(j)
  BY <1>3, <1>8, BeforeAt
<1> QED BY <1>5, <1>7, <1>8, <1>9 DEF r

\* A list put before another leaves the order of the other alone.
LEMMA BeforeConcat ==
  ASSUME NEW T, NEW p \in Seq(T), NEW q, Lists(p \o q, T), NEW S \in SUBSET T,
         Lists(q, S), NEW c \in S, NEW d \in S
  PROVE  Before(p \o q, c, d) <=> Before(q, c, d)
<1> DEFINE i == IndexOf(q, c)
           j == IndexOf(q, d)
           a == Len(p)
           r == p \o q
<1>1. /\ i \in 1..Len(q) /\ q[i] = c /\ j \in 1..Len(q) /\ q[j] = d
  BY IndexOfListed
<1>2. q \in Seq(T) /\ Len(q) \in Nat /\ a \in Nat
  BY SeqMonotonic DEF Lists
<1>3. /\ Len(r) = a + Len(q)
      /\ \A n \in 1..a + Len(q) : r[n] = IF n <= a THEN p[n] ELSE q[n - a]
  <2>1. p \in Seq(T) /\ q \in Seq(T)
    BY <1>2
  <2> QED BY ONLY <2>1, ConcatProperties
<1>4. Before(q, c, d) <=> i < j
  BY DEF Before
<1> HIDE DEF i, j, a, r
<1>5. /\ a + i \in 1..Len(r) /\ r[a + i] = c
      /\ a + j \in 1..Len(r) /\ r[a + j] = d
  <2>1. /\ a + i \in 1..a + Len(q) /\ ~(a + i <= a) /\ (a + i) - a = i
        /\ a + j \in 1..a + Len(q) /\ ~(a + j <= a) /\ (a + j) - a = j
    BY <1>1, <1>2
  <2> QED BY <1>1, <1>3, <2>1
<1>6. Before(r, r[a + i], r[a + j]) <=> a + i < a + j
  BY <1>5, BeforeAt DEF r
<1>7. a + i < a + j <=> i < j
  BY <1>1, <1>2
<1> QED BY <1>4, <1>5, <1>6, <1>7 DEF r

LEMMA BeforeCons ==
  ASSUME NEW S, NEW q, Lists(q, S), NEW e, e \notin S, NEW c \in S, NEW d \in S
  PROVE  Before(Cons(e, q), c, d) <=> Before(q, c, d)
<1> DEFINE p == <<e>>
           T == S \cup {e}
<1>1. p \in Seq(T) /\ S \in SUBSET T
  OBVIOUS
<1>2. Cons(e, q) = p \o q
  BY DEF Cons
<1>3. Lists(Cons(e, q), T)
  BY ListsCons
<1> HIDE DEF p, T
<1>4. Lists(p \o q, T)
  BY ONLY <1>2, <1>3
<1>5. Before(p \o q, c, d) <=> Before(q, c, d)
  BY <1>1, <1>4, BeforeConcat
<1> QED BY ONLY <1>2, <1>5

\* Raised to the front of its list, e alone comes before elements it came after.
LEMMA BeforeRaise ==
  ASSUME NEW S, NEW q, Lists(q, S), NEW e \in S, NEW c \in S, NEW d \in S,
         Before(q, c, d), Before(Cons(e, RemoveFirst(q, e)), d, c)
  PROVE  d = e
<1> DEFINE p == RemoveFirst(q, e)
           r == Cons(e, p)
<1>1. Lists(p, S \ {e})
  BY ListsRemove
<1>2. Lists(r, S)
  <2>1. (S \ {e}) \cup {e} = S
    OBVIOUS
  <2> HIDE DEF p
  <2> QED BY <1>1, <2>1, ListsCons
<1>3. CASE c = e
  <2>1. r[1] = e /\ 1 \in 1..Len(r) /\ Len(r) \in Nat
    <3>1. p \in Seq(S) /\ <<e>> \in Seq(S) /\ Len(<<e>>) = 1 /\ <<e>>[1] = e
      BY <1>1, SeqMonotonic DEF Lists
    <3> HIDE DEF p
    <3>2. /\ Len(<<e>> \o p) = Len(<<e>>) + Len(p) /\ Len(p) \in Nat
          /\ \A n \in 1..Len(<<e>>) + Len(p) :
               (<<e>> \o p)[n] = IF n <= Len(<<e>>) THEN <<e>>[n] ELSE p[n - Len(<<e>>)]
      BY ONLY <3>1, ConcatProperties
    <3> QED BY <3>1, <3>2 DEF Cons
  <2> HIDE DEF r
  <2>2. IndexOf(r, d) \in 1..Len(r) /\ r[IndexOf(r, d)] = d
    BY <1>2, IndexOfListed
  <2>3. Before(r, r[IndexOf(r, d)], r[1]) <=> IndexOf(r, d) < 1
    BY <1>2, <2>1, <2>2, BeforeAt
  <2>4. Before(r, d, e)
    BY <1>3 DEF r
  <2> QED BY <2>1, <2>2, <2>3, <2>4
<1>4. CASE c # e /\ d # e
  <2>1. Before(p, d, c) <=> Before(q, d, c)
    BY <1>4, BeforeRemove
  <2>2. Before(q, c, d) <=> ~ Before(q, d, c) /\ c # d
    BY BeforeTotal
  <2> HIDE DEF p
  <2>3. PICK T : T = S \ {e}
    OBVIOUS
  <2>5. Lists(p, T) /\ e \notin T /\ c \in T /\ d \in T
    BY <1>1, <1>4, <2>3
  <2>4. Before(Cons(e, p), d, c) <=> Before(p, d, c)
    BY ONLY <2>5, BeforeCons
  <2> QED BY <2>1, <2>2, <2>4 DEF p
<1> QED BY <1>3, <1>4

----------------------------------------------------------------------------
(* The invariant, on a state between two calls *)

\* Everything about the lists that the list operations rely on.
Placed(s) ==
  /\ s \in State
  /\ IsInjective(s.mons) /\ s.selmon \in Range(s.mons)
  /\ \A c \in Client : s.mon[c] # None => s.mon[c] \in Range(s.mons)
  /\ \A m \in Monitor : /\ Lists(s.clients[m], On(s, m))
                        /\ Lists(s.stack[m], On(s, m))
                        /\ s.sel[m] # None => s.mon[s.sel[m]] = m

\* The fields of the state that Placed reads.
SamePlaces(s, t) ==
  /\ t.mons = s.mons /\ t.selmon = s.selmon /\ t.clients = s.clients
  /\ t.stack = s.stack /\ t.sel = s.sel /\ t.mon = s.mon

\* The fields that tell which clients are visible.
SameView(s, t) == t.tags = s.tags /\ t.tagset = s.tagset /\ t.seltags = s.seltags

\* What no function that focus() calls writes: states of windows.
SameWindows(s, t) ==
  /\ t.floating = s.floating /\ t.fullscreen = s.fullscreen
  /\ t.oldstate = s.oldstate /\ t.live = s.live /\ t.stolen = s.stolen

\* What shows the focus, and the keys.
SameFocus(s, t) ==
  /\ t.lit = s.lit /\ t.urgent = s.urgent
  /\ t.xfocus = s.xfocus /\ t.refused = s.refused

\* What focus() establishes and every other call preserves.
SelTop(s) == s.sel[s.selmon] = TopVisible(s, s.stack[s.selmon])

Shown(s) == Placed(s) /\ SelTop(s)

LEMMA PlacedFrame ==
  ASSUME NEW s, NEW t, Placed(s), t \in State, SamePlaces(s, t)
  PROVE  Placed(t)
BY DEF Placed, SamePlaces, On

LEMMA TopVisibleFrame ==
  ASSUME NEW s, NEW t, SameView(s, t), t.mon = s.mon
  PROVE  /\ \A c : Visible(t, c) = Visible(s, c)
         /\ \A q : TopVisible(t, q) = TopVisible(s, q)
<1>1. \A c : Visible(t, c) = Visible(s, c)
  BY DEF SameView, Visible, ViewOf
<1> QED BY <1>1 DEF TopVisible

LEMMA ShownFrame ==
  ASSUME NEW s, NEW t, Shown(s), t \in State, SamePlaces(s, t), SameView(s, t)
  PROVE  Shown(t)
<1>1. Placed(t)
  BY PlacedFrame DEF Shown
<1>2. \A q : TopVisible(t, q) = TopVisible(s, q)
  BY TopVisibleFrame DEF SamePlaces
<1> QED BY <1>1, <1>2 DEF Shown, SelTop, SamePlaces

LEMMA PlacedTypes ==
  ASSUME NEW s, Placed(s)
  PROVE  /\ s.mons \in Seq(Monitor) /\ s.selmon \in Monitor
         /\ s.clients \in [Monitor -> Seq(Client)]
         /\ s.stack \in [Monitor -> Seq(Client)]
         /\ s.sel \in [Monitor -> Client \cup {None}]
         /\ s.mon \in [Client -> Monitor \cup {None}]
         /\ \A m \in Range(s.mons) : m \in Monitor
         /\ \A n \in Monitor : s.sel[n] # None => s.sel[n] \in On(s, n)
<1>1. s \in State
  BY DEF Placed
<1>2. /\ s.mons \in Seq(Monitor) /\ s.selmon \in Monitor
      /\ s.clients \in [Monitor -> Seq(Client)]
      /\ s.stack \in [Monitor -> Seq(Client)]
      /\ s.sel \in [Monitor -> Client \cup {None}]
      /\ s.mon \in [Client -> Monitor \cup {None}]
  BY <1>1 DEF State
<1>3. \A m \in Range(s.mons) : m \in Monitor
  BY <1>2 DEF Range
<1>4. \A n \in Monitor : s.sel[n] # None => s.sel[n] \in On(s, n)
  BY <1>2 DEF Placed, On
<1> QED BY <1>2, <1>3, <1>4

\* Changing one field of the state leaves the others alone.
LEMMA WithLists ==
  ASSUME NEW s \in State, NEW f \in [Monitor -> Seq(Client)]
  PROVE  /\ LET t == [s EXCEPT !.stack = f]
            IN  /\ t \in State /\ t.stack = f /\ t.clients = s.clients
                /\ t.mons = s.mons /\ t.selmon = s.selmon /\ t.sel = s.sel
                /\ t.mon = s.mon
         /\ LET t == [s EXCEPT !.clients = f]
            IN  /\ t \in State /\ t.clients = f /\ t.stack = s.stack
                /\ t.mons = s.mons /\ t.selmon = s.selmon /\ t.sel = s.sel
                /\ t.mon = s.mon
BY DEF State

LEMMA ViewOfTyped ==
  ASSUME NEW s \in State, NEW m \in Monitor
  PROVE  ViewOf(s, m) \in SUBSET Tag
<1>1. s.tagset[m] \in [{0, 1} -> SUBSET Tag] /\ s.seltags[m] \in {0, 1}
  BY DEF State
<1> QED BY <1>1 DEF ViewOf

LEMMA UnfocusPlaced ==
  ASSUME NEW s, Placed(s), NEW c \in Client \cup {None}, NEW b \in BOOLEAN
  PROVE  /\ Placed(Unfocus(s, c, b)) /\ SamePlaces(s, Unfocus(s, c, b))
         /\ SameView(s, Unfocus(s, c, b))
<1> DEFINE t == Unfocus(s, c, b)
<1>1. t \in State /\ SamePlaces(s, t) /\ SameView(s, t)
  BY ZenonT(60) DEF Placed, Unfocus, State, SamePlaces, SameView
<1> QED BY <1>1, PlacedFrame

LEMMA SetFocusPlaced ==
  ASSUME NEW s, Placed(s), NEW c \in Client
  PROVE  /\ Placed(SetFocus(s, c)) /\ SamePlaces(s, SetFocus(s, c))
         /\ SameView(s, SetFocus(s, c))
<1> DEFINE t  == SetFocus(s, c)
           rf == c \in s.neverfocus
           xf == IF c \in s.neverfocus \/ c \notin s.live THEN s.xfocus ELSE c
<1>1. s \in State /\ rf \in BOOLEAN /\ xf \in Client \cup {None}
  BY DEF Placed, State
<1>2. t = [s EXCEPT !.refused = rf, !.xfocus = xf]
  BY <1>1 DEF SetFocus, State
<1> HIDE DEF t, rf, xf
<1>3. t \in State
  BY ZenonT(60), <1>1, <1>2 DEF State
<1>4. SamePlaces(s, t) /\ SameView(s, t)
  BY <1>1, <1>2 DEF State, SamePlaces, SameView
<1> QED BY <1>3, <1>4, PlacedFrame DEF t

LEMMA TopVisibleListed ==
  ASSUME NEW s, NEW S, NEW q, Lists(q, S)
  PROVE  TopVisible(s, q) \in S \cup {None}
<1> DEFINE shown == {i \in DOMAIN q : Visible(s, q[i])}
<1>1. DOMAIN q \in SUBSET Nat /\ \A i \in DOMAIN q : q[i] \in S
  BY DEF Lists, Range
<1>2. CASE shown = {}
  BY <1>2 DEF TopVisible
<1>3. CASE shown # {}
  <2>1. Min(shown) \in shown
    BY <1>1, <1>3, MinExists
  <2> QED BY <1>1, <1>3, <2>1 DEF TopVisible
<1> QED BY <1>2, <1>3

LEMMA TopVisibleShown ==
  ASSUME NEW s, NEW S, NEW q, Lists(q, S), TopVisible(s, q) # None
  PROVE  Visible(s, TopVisible(s, q))
<1> DEFINE shown == {i \in DOMAIN q : Visible(s, q[i])}
<1>1. shown \in SUBSET Nat /\ shown # {}
  BY DEF Lists, TopVisible
<1>2. Min(shown) \in shown
  BY <1>1, MinExists
<1> QED BY <1>1, <1>2 DEF TopVisible

LEMMA TopVisibleFirst ==
  ASSUME NEW s, NEW S, NEW q, NEW c, Lists(Cons(c, q), S), q \in Seq(S), Visible(s, c)
  PROVE  TopVisible(s, Cons(c, q)) = c
<1> DEFINE r     == Cons(c, q)
           shown == {i \in DOMAIN r : Visible(s, r[i])}
<1>1. DOMAIN r = 1..(Len(q) + 1) /\ r[1] = c /\ Len(q) \in Nat
  <2>1. c \in S
    BY DEF Lists, Range, Cons
  <2> QED BY <2>1 DEF Cons
<1> HIDE DEF r
<1>2. shown \in SUBSET Nat /\ shown \subseteq 1..(Len(q) + 1) /\ 1 \in shown
  BY <1>1
<1>3. Min(shown) = 1
  <2> HIDE DEF shown
  <2>1. Min(shown) \in shown /\ Min(shown) =< 1
    BY <1>2, MinExists
  <2>2. PICK k \in 1..(Len(q) + 1) : k = Min(shown)
    BY <1>2, <2>1
  <2> QED BY <1>1, <2>1, <2>2
<1>4. TopVisible(s, r) = r[Min(shown)]
  BY <1>2 DEF TopVisible
<1> QED BY <1>1, <1>3, <1>4 DEF r

\* focus moves the client to the front of the focus list it is in.
LEMMA RaisePlaced ==
  ASSUME NEW s, Placed(s), NEW c \in Client, s.mon[c] # None
  PROVE  LET t == AttachStack(DetachStack(s, c), c)
         IN  /\ Placed(t) /\ t.mon = s.mon /\ t.mons = s.mons /\ t.selmon = s.selmon
             /\ SameView(s, t)
             /\ Visible(s, c) => TopVisible(s, t.stack[s.mon[c]]) = c
<1> DEFINE m    == s.mon[c]
           rest == RemoveFirst(s.stack[m], c)
           u    == DetachStack(s, c)
           t    == AttachStack(u, c)
<1>1. m \in Monitor /\ c \in On(s, m)
  BY DEF Placed, State, On
<1>2. Lists(s.stack[m], On(s, m))
  BY <1>1 DEF Placed
<1>3. Lists(rest, On(s, m) \ {c})
  BY <1>1, <1>2, ListsRemove
<1>4. Lists(Cons(c, rest), On(s, m))
  <2>1. (On(s, m) \ {c}) \cup {c} = On(s, m)
    BY <1>1
  <2> HIDE DEF rest, m
  <2> QED BY <1>3, <2>1, ListsCons
<1>5. TopVisible(s, rest) \in On(s, m) \cup {None}
  BY <1>3, TopVisibleListed
<1>6. rest \in Seq(Client) /\ Cons(c, rest) \in Seq(Client)
  BY <1>3, <1>4, SeqMonotonic DEF Lists, On
<1> HIDE DEF rest
<1>7. /\ u \in State /\ u.mon = s.mon /\ u.mons = s.mons /\ u.selmon = s.selmon
      /\ u.clients = s.clients /\ u.stack = [s.stack EXCEPT ![m] = rest]
      /\ \A n \in Monitor : u.sel[n] = s.sel[n] \/ (n = m /\ u.sel[n] = TopVisible(s, rest))
      /\ SameView(s, u)
  BY <1>1, <1>5, <1>6 DEF Placed, State, DetachStack, rest, On, SameView
<1> HIDE DEF u
<1>8. /\ t \in State /\ t.mon = s.mon /\ t.mons = s.mons /\ t.selmon = s.selmon
      /\ t.clients = s.clients /\ t.stack = [s.stack EXCEPT ![m] = Cons(c, rest)]
      /\ t.sel = u.sel /\ SameView(s, t)
  <2>1. t = [u EXCEPT !.stack[m] = Cons(c, u.stack[m])]
    BY <1>7 DEF AttachStack
  <2>2. u.stack[m] = rest /\ s.stack \in [Monitor -> Seq(Client)]
    BY <1>1, <1>6, <1>7 DEF Placed, State
  <2> HIDE DEF t, m
  <2>3. t = [u EXCEPT !.stack = [s.stack EXCEPT ![m] = Cons(c, rest)]]
    BY <1>1, <1>7, <2>1, <2>2 DEF State
  <2>4. [s.stack EXCEPT ![m] = Cons(c, rest)] \in [Monitor -> Seq(Client)]
    BY <1>1, <1>6, <2>2
  <2> QED BY <1>7, <2>3, <2>4 DEF State, SameView
<1> HIDE DEF t
<1>9. \A n : On(t, n) = On(s, n)
  BY <1>8 DEF On
<1>10. ASSUME NEW n \in Monitor
       PROVE  /\ Lists(t.clients[n], On(t, n)) /\ Lists(t.stack[n], On(t, n))
              /\ t.sel[n] # None => t.mon[t.sel[n]] = n
  <2>1. t.stack[n] = IF n = m THEN Cons(c, rest) ELSE s.stack[n]
    BY <1>8 DEF Placed, State
  <2>2. Lists(s.clients[n], On(s, n)) /\ Lists(s.stack[n], On(s, n))
    BY DEF Placed
  <2>3. t.sel[n] # None => t.mon[t.sel[n]] = n
    <3>1. CASE t.sel[n] = s.sel[n]
      BY <3>1, <1>8 DEF Placed
    <3>2. CASE n = m /\ t.sel[n] = TopVisible(s, rest)
      BY <3>2, <1>5, <1>8 DEF On
    <3> QED BY <3>1, <3>2, <1>7, <1>8
  <2> QED BY <1>4, <1>8, <1>9, <2>1, <2>2, <2>3
<1>11. Placed(t)
  BY <1>8, <1>10 DEF Placed
<1>12. Visible(s, c) => TopVisible(s, t.stack[m]) = c
  <2>1. t.stack[m] = Cons(c, rest)
    BY <1>1, <1>8, PlacedTypes
  <2>2. rest \in Seq(On(s, m))
    BY <1>3, SeqMonotonic DEF Lists
  <2> QED BY <1>4, <2>1, <2>2, TopVisibleFirst
<1> QED BY <1>8, <1>11, <1>12 DEF t, u

\* The hypotheses under which focus is called: a client it is given is managed.
Focusable(s, w) == w = None \/ (w \in Client /\ s.mon[w] # None)

LEMMA FocusPlaced ==
  ASSUME NEW s, Placed(s), NEW w, Focusable(s, w)
  PROVE  LET t == Focus(s, w)
         IN  Placed(t) /\ SelTop(t) /\ t.mon = s.mon /\ t.mons = s.mons
<1> DEFINE c   == IF w # None /\ Visible(s, w) THEN w
                  ELSE TopVisible(s, s.stack[s.selmon])
           old == s.sel[s.selmon]
           s1  == IF old # c THEN Unfocus(s, old, FALSE) ELSE s
           s2  == [s1 EXCEPT !.selmon = s.mon[c], !.urgent = @ \ {c},
                             !.lit = @ \cup {c}]
           s3  == AttachStack(DetachStack(s2, c), c)
           s4  == SetFocus(s3, c)
           t   == Focus(s, w)
<1>1. s.selmon \in Monitor /\ old \in Client \cup {None}
  BY DEF Placed, State, Range
<1>2. c = None \/ (c \in Client /\ s.mon[c] # None)
  <2>1. TopVisible(s, s.stack[s.selmon]) \in On(s, s.selmon) \cup {None}
    BY <1>1, TopVisibleListed DEF Placed
  <2> QED BY <1>1, <2>1, ConstantsAssumption DEF Focusable, On
<1>a. IF c = None THEN TopVisible(s, s.stack[s.selmon]) = None ELSE Visible(s, c)
  BY <1>1, TopVisibleShown DEF Placed
<1> HIDE DEF c
<1>3. Placed(s1) /\ SamePlaces(s, s1) /\ SameView(s, s1)
  BY <1>1, UnfocusPlaced DEF SamePlaces, SameView
<1> HIDE DEF s1
<1>4. CASE c = None
  <2>1. t = [s1 EXCEPT !.xfocus = None, !.sel[s.selmon] = None]
    BY <1>4 DEF Focus, c, s1
  <2> HIDE DEF t
  <2>2. /\ t \in State /\ t.mon = s.mon /\ t.mons = s.mons /\ t.selmon = s.selmon
        /\ t.clients = s.clients /\ t.stack = s.stack
        /\ \A n \in Monitor : t.sel[n] \in {s.sel[n], None}
        /\ t.sel[s.selmon] = None /\ SameView(s, t)
    <3>1. s1 \in State
      BY <1>3 DEF Placed
    <3>2. t \in State
      BY <1>1, <2>1, <3>1 DEF State
    <3> QED BY ZenonT(60), <1>1, <1>3, <2>1, <3>1, <3>2 DEF State, SamePlaces, SameView
  <2>3. Placed(t)
    BY <2>2 DEF Placed, On
  <2>4. SelTop(t)
    BY <1>4, <1>a, <2>2, TopVisibleFrame DEF SelTop
  <2> QED BY <2>2, <2>3, <2>4 DEF t
<1>5. CASE c # None
  <2>0. c \in Client /\ s.mon[c] # None /\ s.mon[c] \in Monitor
    BY <1>2, <1>5 DEF Placed, State
  <2>1. t = [s4 EXCEPT !.sel[s.mon[c]] = c]
    BY <1>5 DEF Focus, c, s1, s2, s3, s4
  <2>2. /\ s2 \in State /\ s2.mon = s.mon /\ s2.mons = s.mons /\ s2.sel = s.sel
        /\ s2.clients = s.clients /\ s2.stack = s.stack /\ s2.selmon = s.mon[c]
        /\ SameView(s, s2)
    BY <1>3, <2>0, ZenonT(40) DEF Placed, State, SamePlaces, SameView
  <2> HIDE DEF s2
  <2>3. Placed(s2)
    BY <2>0, <2>2 DEF Placed, On
  <2>a. Visible(s2, c)
    BY <1>5, <1>a, <2>2, TopVisibleFrame
  <2>4. /\ Placed(s3) /\ s3.mon = s.mon /\ s3.mons = s.mons /\ s3.selmon = s.mon[c]
        /\ SameView(s2, s3) /\ TopVisible(s2, s3.stack[s.mon[c]]) = c
    BY <2>0, <2>2, <2>3, <2>a, RaisePlaced
  <2> HIDE DEF s3
  <2>5. /\ Placed(s4) /\ s4.mon = s.mon /\ s4.mons = s.mons /\ s4.selmon = s.mon[c]
        /\ SameView(s2, s4) /\ TopVisible(s2, s4.stack[s.mon[c]]) = c
    BY <2>0, <2>4, SetFocusPlaced DEF SamePlaces, SameView
  <2> HIDE DEF s4
  <2> HIDE DEF t
  <2>6. /\ t \in State /\ t.mon = s.mon /\ t.mons = s.mons /\ t.selmon = s4.selmon
        /\ t.clients = s4.clients /\ t.stack = s4.stack
        /\ \A n \in Monitor : t.sel[n] = IF n = s.mon[c] THEN c ELSE s4.sel[n]
        /\ SameView(s4, t)
    <3>1. s4 \in State /\ s.mon[c] \in Monitor /\ c \in Client
      BY <2>0, <2>5 DEF Placed
    <3>2. t \in State
      BY <2>1, <3>1 DEF State
    <3> QED BY <2>1, <2>5, <3>1, <3>2 DEF State, SameView
  <2>7. Placed(t)
    BY <2>5, <2>6 DEF Placed, On
  <2>8. SelTop(t)
    <3>1. SameView(s2, t) /\ t.mon = s2.mon
      BY <2>2, <2>5, <2>6 DEF SameView
    <3>2. TopVisible(t, t.stack[s.mon[c]]) = c
      BY <2>5, <2>6, <3>1, TopVisibleFrame
    <3> QED BY <2>0, <2>5, <2>6, <3>2 DEF SelTop
  <2> QED BY <2>6, <2>7, <2>8 DEF t
<1> QED BY <1>4, <1>5

LEMMA SelectMonPlaced ==
  ASSUME NEW s, Placed(s), NEW m \in Range(s.mons), NEW w, Focusable(s, w),
         NEW b \in BOOLEAN
  PROVE  LET t == SelectMon(s, m, w, b)
         IN  Shown(t) /\ t.mon = s.mon /\ t.mons = s.mons
<1> DEFINE u == Unfocus(s, s.sel[s.selmon], b)
           v == [u EXCEPT !.selmon = m]
<1>1. s.sel[s.selmon] \in Client \cup {None} /\ m \in Monitor
  BY DEF Placed, State, Range
<1>2. Placed(u) /\ SamePlaces(s, u)
  BY <1>1, UnfocusPlaced
<1> HIDE DEF u
<1>3. /\ v \in State /\ v.mon = s.mon /\ v.mons = s.mons /\ v.selmon = m
      /\ v.clients = s.clients /\ v.stack = s.stack /\ v.sel = s.sel
  BY <1>1, <1>2 DEF Placed, State, SamePlaces
<1> HIDE DEF v
<1>4. Placed(v) /\ Focusable(v, w)
  BY <1>3 DEF Placed, On, Focusable
<1> QED BY <1>3, <1>4, FocusPlaced DEF SelectMon, Shown, u, v

\* A client that leaves both lists of its monitor leaves no trace in them.
LEMMA LeavePlaced ==
  ASSUME NEW s, Placed(s), NEW c \in Client, s.mon[c] # None
  PROVE  LET d == DetachStack(Detach(s, c), c)
         IN  /\ d \in State /\ d.mon = s.mon /\ d.mons = s.mons /\ d.selmon = s.selmon
             /\ Placed([d EXCEPT !.mon[c] = None])
<1> DEFINE m    == s.mon[c]
           row  == RemoveFirst(s.clients[m], c)
           rest == RemoveFirst(s.stack[m], c)
           u    == Detach(s, c)
           d    == DetachStack(u, c)
           t    == [d EXCEPT !.mon[c] = None]
           left == On(s, m) \ {c}
<1>1. m \in Monitor /\ c \in On(s, m) /\ m # None
  BY DEF Placed, State, On
<1>2. Lists(row, left) /\ Lists(rest, left)
  BY <1>1, ListsRemove DEF Placed
<1>3. row \in Seq(Client) /\ rest \in Seq(Client)
  BY <1>2, SeqMonotonic DEF Lists, On
<1> HIDE DEF row, rest
<1>4. /\ u \in State /\ u.mon = s.mon /\ u.mons = s.mons /\ u.selmon = s.selmon
      /\ u.clients = [s.clients EXCEPT ![m] = row]
      /\ u.stack = s.stack /\ u.sel = s.sel
  BY <1>1, <1>3 DEF Placed, State, Detach, row
<1>5. TopVisible(u, rest) \in left \cup {None}
  BY <1>2, TopVisibleListed
<1> HIDE DEF u
<1>6. /\ d \in State /\ d.mon = s.mon /\ d.mons = s.mons /\ d.selmon = s.selmon
      /\ d.clients = u.clients /\ d.stack = [s.stack EXCEPT ![m] = rest]
      /\ d.sel = [s.sel EXCEPT ![m] = IF c = @ THEN TopVisible(u, rest) ELSE @]
  <2>1. d = [u EXCEPT !.stack[m] = rest,
                      !.sel[m] = IF c = @ THEN TopVisible(u, rest) ELSE @]
    BY <1>4 DEF DetachStack, rest
  <2>2. TopVisible(u, rest) \in Client \cup {None}
    BY <1>5 DEF On
  <2> HIDE DEF d, m
  <2> QED BY <1>1, <1>3, <1>4, <2>1, <2>2 DEF State
<1> HIDE DEF d
<1>7. /\ t \in State /\ t.mon = [s.mon EXCEPT ![c] = None] /\ t.mons = s.mons
      /\ t.selmon = s.selmon /\ t.clients = d.clients /\ t.stack = d.stack
      /\ t.sel = d.sel
  BY <1>6 DEF State
<1> HIDE DEF t
<1>8. ASSUME NEW n \in Monitor
      PROVE  On(t, n) = IF n = m THEN left ELSE On(s, n)
  <2>1. \A e \in Client : t.mon[e] = IF e = c THEN None ELSE s.mon[e]
    BY <1>7, PlacedTypes
  <2>2. None # n
    BY ConstantsAssumption
  <2> QED BY <2>1, <2>2 DEF On
<1>9. ASSUME NEW n \in Monitor
      PROVE  /\ Lists(t.clients[n], On(t, n)) /\ Lists(t.stack[n], On(t, n))
             /\ t.sel[n] # None => t.mon[t.sel[n]] = n
  <2>1. /\ t.clients[n] = IF n = m THEN row ELSE s.clients[n]
        /\ t.stack[n] = IF n = m THEN rest ELSE s.stack[n]
    BY <1>1, <1>4, <1>6, <1>7, PlacedTypes
  <2>2. Lists(s.clients[n], On(s, n)) /\ Lists(s.stack[n], On(s, n))
    BY DEF Placed
  <2>3. t.sel[n] # None => t.sel[n] \in On(t, n)
    <3>0. s.sel[n] # None => s.sel[n] \in On(s, n)
      BY DEF Placed, State, On
    <3>1. t.sel[n] = IF n = m /\ c = s.sel[n] THEN TopVisible(u, rest) ELSE s.sel[n]
      BY <1>1, <1>6, <1>7, PlacedTypes
    <3>2. CASE n = m /\ c = s.sel[n]
      BY <3>1, <3>2, <1>5, <1>8
    <3>3. CASE n = m /\ c # s.sel[n]
      BY <3>0, <3>1, <3>3, <1>8
    <3>4. CASE n # m
      BY <3>0, <3>1, <3>4, <1>8
    <3> QED BY <3>2, <3>3, <3>4
  <2> QED BY <1>2, <1>8, <2>1, <2>2, <2>3 DEF On
<1>10. Placed(t)
  <2>1. \A e \in Client : t.mon[e] # None => t.mon[e] \in Range(s.mons)
    BY <1>7, PlacedTypes DEF Placed
  <2> QED BY <1>7, <1>9, <2>1 DEF Placed
<1> QED BY <1>6, <1>10 DEF t, d, u

\* A client that is on no monitor and enters both lists of one is on that one.
LEMMA JoinPlaced ==
  ASSUME NEW s, Placed(s), NEW c \in Client, s.mon[c] = None,
         NEW m \in Range(s.mons), NEW u \in State,
         u.mons = s.mons, u.selmon = s.selmon, u.clients = s.clients,
         u.stack = s.stack, u.sel = s.sel, u.mon = [s.mon EXCEPT ![c] = m]
  PROVE  LET t == AttachStack(AttachBottom(u, c), c)
         IN  Placed(t) /\ t.mon = u.mon /\ t.mons = s.mons /\ t.selmon = s.selmon
<1> DEFINE row == Append(s.clients[m], c)
           new == Cons(c, s.stack[m])
           v   == AttachBottom(u, c)
           t   == AttachStack(v, c)
<1>1. /\ m \in Monitor /\ u.mon[c] = m /\ c \notin On(s, m) /\ m # None
      /\ s.clients \in [Monitor -> Seq(Client)] /\ s.stack \in [Monitor -> Seq(Client)]
  BY PlacedTypes, ConstantsAssumption DEF On
<1>2. Lists(row, On(s, m) \cup {c}) /\ Lists(new, On(s, m) \cup {c})
  BY <1>1, ListsCons, ListsAppend DEF Placed
<1>3. row \in Seq(Client) /\ new \in Seq(Client)
  BY <1>2, SeqMonotonic DEF Lists, On
<1>4. v = [u EXCEPT !.clients = [s.clients EXCEPT ![m] = row]]
  BY <1>1 DEF AttachBottom, State
<1>5. /\ v \in State /\ v.mons = s.mons /\ v.selmon = s.selmon /\ v.sel = s.sel
      /\ v.clients = [s.clients EXCEPT ![m] = row] /\ v.stack = s.stack
      /\ v.mon = u.mon
  <2>1. [s.clients EXCEPT ![m] = row] \in [Monitor -> Seq(Client)]
    BY <1>1, <1>3
  <2> HIDE DEF v, row
  <2> QED BY ZenonT(60), <1>4, <2>1, WithLists
<1> HIDE DEF v
<1>6. t = [v EXCEPT !.stack = [s.stack EXCEPT ![m] = new]]
  BY <1>1, <1>5 DEF AttachStack, State
<1>7. /\ t \in State /\ t.mons = s.mons /\ t.selmon = s.selmon /\ t.sel = s.sel
      /\ t.clients = v.clients /\ t.stack = [s.stack EXCEPT ![m] = new]
      /\ t.mon = u.mon
  <2>1. [s.stack EXCEPT ![m] = new] \in [Monitor -> Seq(Client)]
    BY <1>1, <1>3
  <2> HIDE DEF t, new
  <2> QED BY ZenonT(60), <1>5, <1>6, <2>1, WithLists
<1> HIDE DEF t, row, new
<1>8. ASSUME NEW n \in Monitor
      PROVE  On(t, n) = IF n = m THEN On(s, n) \cup {c} ELSE On(s, n)
  <2>1. \A d \in Client : t.mon[d] = IF d = c THEN m ELSE s.mon[d]
    BY <1>7, PlacedTypes
  <2>2. s.mon[c] # n
    BY ConstantsAssumption
  <2> QED BY <2>1, <2>2 DEF On
<1>9. ASSUME NEW n \in Monitor
      PROVE  /\ Lists(t.clients[n], On(t, n)) /\ Lists(t.stack[n], On(t, n))
             /\ t.sel[n] # None => t.mon[t.sel[n]] = n
  <2>1. /\ t.clients[n] = IF n = m THEN row ELSE s.clients[n]
        /\ t.stack[n] = IF n = m THEN new ELSE s.stack[n]
    BY <1>1, <1>5, <1>7
  <2>2. Lists(s.clients[n], On(s, n)) /\ Lists(s.stack[n], On(s, n))
    BY DEF Placed
  <2>3. s.sel[n] # None => s.sel[n] \in On(s, n)
    BY PlacedTypes
  <2> QED BY SMTT(30), <1>2, <1>7, <1>8, <2>1, <2>2, <2>3 DEF On
<1>10. Placed(t)
  <2>1. \A d \in Client : t.mon[d] # None => t.mon[d] \in Range(s.mons)
    BY <1>7, PlacedTypes DEF Placed
  <2> QED BY <1>7, <1>9, <2>1 DEF Placed
<1> QED BY <1>7, <1>10 DEF t, v

LEMMA UnmappedPlaced ==
  ASSUME NEW s, Placed(s), NEW c \in Client, s.mon[c] # None
  PROVE  LET u == Unmapped(s, c)
         IN  Placed(u) /\ u.mon = [s.mon EXCEPT ![c] = None]
<1> DEFINE d == DetachStack(Detach(s, c), c)
           t == [d EXCEPT !.mon[c] = None]
           u == Free(d, c)
<1>1. d \in State /\ d.mon = s.mon /\ Placed(t)
  BY LeavePlaced
<1> HIDE DEF d
<1>2. u \in State /\ SamePlaces(t, u) /\ u.mon = [s.mon EXCEPT ![c] = None]
  BY <1>1 DEF State, Free, SamePlaces
<1> HIDE DEF u
<1>3. Placed(u)
  BY <1>1, <1>2, PlacedFrame
<1> QED BY <1>2, <1>3 DEF Unmapped, u, d

LEMMA UnmanagePlaced ==
  ASSUME NEW s, Placed(s), NEW c \in Client, s.mon[c] # None
  PROVE  Shown(Unmanage(s, c))
BY UnmappedPlaced, FocusPlaced DEF Unmanage, Focusable, Shown

LEMMA SendMonPlaces ==
  ASSUME NEW s, Placed(s), NEW c \in Client, s.mon[c] # None,
         NEW m \in Range(s.mons), s.mon[c] # m
  PROVE  LET x == Sent(s, c, m)
         IN  /\ Placed(x) /\ x.mons = s.mons
             /\ x.mon = [s.mon EXCEPT ![c] = m]
<1> DEFINE u == Unfocus(s, c, TRUE)
           d == DetachStack(Detach(u, c), c)
           v == [d EXCEPT !.mon[c] = None]
           w == [d EXCEPT !.mon[c] = m, !.tags[c] = ViewOf(s, m)]
           x == AttachStack(AttachBottom(w, c), c)
<1>1. Placed(u) /\ u.mons = s.mons /\ u.mon = s.mon
  BY UnfocusPlaced DEF SamePlaces
<1> HIDE DEF u
<1>2. d \in State /\ d.mons = s.mons /\ d.mon = s.mon /\ Placed(v)
  BY <1>1, LeavePlaced
<1> HIDE DEF d
<1>3. m \in Monitor /\ ViewOf(s, m) \in SUBSET Tag
  <2>1. m \in Monitor /\ s \in State
    BY PlacedTypes DEF Placed
  <2> QED BY <2>1, ViewOfTyped
<1>4. /\ v.mons = d.mons /\ v.selmon = d.selmon /\ v.clients = d.clients
      /\ v.stack = d.stack /\ v.sel = d.sel /\ v.mon = [d.mon EXCEPT ![c] = None]
  BY <1>2 DEF State
<1>5. /\ w \in State /\ w.mons = d.mons /\ w.selmon = d.selmon
      /\ w.clients = d.clients /\ w.stack = d.stack /\ w.sel = d.sel
      /\ w.mon = [d.mon EXCEPT ![c] = m]
  BY <1>2, <1>3 DEF State
<1>6. v.mon[c] = None /\ w.mon = [v.mon EXCEPT ![c] = m]
  <2>1. d.mon \in [Client -> Monitor \cup {None}]
    BY <1>2 DEF State
  <2> QED BY <1>4, <1>5, <2>1
<1> HIDE DEF v, w
<1>7. Placed(x) /\ x.mons = s.mons /\ x.mon = w.mon
  <2>1. /\ m \in Range(v.mons) /\ v.mons = s.mons
        /\ w.mons = v.mons /\ w.selmon = v.selmon /\ w.clients = v.clients
        /\ w.stack = v.stack /\ w.sel = v.sel
    BY <1>2, <1>4, <1>5
  <2> QED BY <1>2, <1>5, <1>6, <2>1, JoinPlaced
<1> HIDE DEF x
<1>8. x.mon = [s.mon EXCEPT ![c] = m]
  BY <1>2, <1>5, <1>7
<1>9. Sent(s, c, m) = x
  BY DEF Sent, x, w, d, u
<1> QED BY <1>7, <1>8, <1>9

LEMMA SendMonPlaced ==
  ASSUME NEW s, Placed(s), NEW c \in Client, s.mon[c] # None,
         NEW m \in Range(s.mons)
  PROVE  LET t == SendMon(s, c, m)
         IN  Placed(t) /\ t.mons = s.mons /\ (SelTop(s) => SelTop(t))
<1>1. CASE s.mon[c] = m
  BY <1>1 DEF SendMon
<1>2. CASE s.mon[c] # m
  <2> DEFINE x == Sent(s, c, m)
  <2>1. SendMon(s, c, m) = Focus(x, None)
    BY <1>2 DEF SendMon, Sent
  <2> HIDE DEF x
  <2>2. Placed(x) /\ x.mons = s.mons
    BY <1>2, SendMonPlaces DEF x
  <2> QED BY <2>1, <2>2, FocusPlaced DEF Focusable
<1> QED BY <1>1, <1>2

\* updatewmhints writes two flags of the window.
LEMMA HintsRead ==
  ASSUME NEW s \in State, NEW c \in Client, NEW urg \in BOOLEAN, NEW deaf \in BOOLEAN
  PROVE  LET t == UpdateWmHints(s, c, urg, deaf)
         IN  /\ t \in State /\ SamePlaces(s, t) /\ SameView(s, t) /\ SameWindows(s, t)
             /\ t.lit = s.lit /\ t.xfocus = s.xfocus /\ t.refused = s.refused
             /\ t.urgent \subseteq s.urgent \cup {c}
             /\ s.sel[s.selmon] \notin s.urgent => s.sel[s.selmon] \notin t.urgent
<1> DEFINE t  == UpdateWmHints(s, c, urg, deaf)
           ur == IF ~urg THEN s.urgent \ {c}
                 ELSE IF c = s.sel[s.selmon] THEN s.urgent ELSE s.urgent \cup {c}
           nf == IF deaf THEN s.neverfocus \cup {c} ELSE s.neverfocus \ {c}
<1>1. s.urgent \in SUBSET Client /\ s.neverfocus \in SUBSET Client
  BY DEF State
<1>2. ur \in SUBSET Client /\ nf \in SUBSET Client
  BY <1>1
<1>3. /\ ur \subseteq s.urgent \cup {c}
      /\ s.sel[s.selmon] \notin s.urgent => s.sel[s.selmon] \notin ur
  OBVIOUS
<1>4. t = [s EXCEPT !.urgent = ur, !.neverfocus = nf]
  BY DEF UpdateWmHints, State
<1> HIDE DEF t, ur, nf
<1>5. t \in State /\ SamePlaces(s, t) /\ SameView(s, t)
  BY <1>2, <1>4 DEF State, SamePlaces, SameView
<1>6. /\ SameWindows(s, t) /\ t.lit = s.lit /\ t.xfocus = s.xfocus
      /\ t.refused = s.refused /\ t.urgent = ur
  BY <1>4 DEF State, SameWindows
<1> QED BY <1>3, <1>5, <1>6 DEF t

\* manage: the monitor and the lists do not depend on what the window asks for.
LEMMA MappedPlaced ==
  ASSUME NEW s, Placed(s), NEW c \in Client, s.mon[c] = None, NEW urg \in BOOLEAN,
         NEW deaf \in BOOLEAN
  PROVE  LET x == Mapped(s, c, urg, deaf)
         IN  Placed(x) /\ \E m \in Monitor : x.mon = [s.mon EXCEPT ![c] = m]
<1> DEFINE h       == Hints[c]
           trans   == h.parent \in Managed(s)
           m       == IF trans THEN s.mon[h.parent] ELSE s.selmon
           tags    == IF trans THEN s.tags[h.parent]
                      ELSE IF TagMask(h.ruletags) # {} THEN TagMask(h.ruletags)
                      ELSE ViewOf(s, m)
           ruled   == ~trans /\ h.rulefloat
           typed   == ruled \/ h.fullscreen \/ h.dialog
           default == h.parent # None \/ h.fixed
           fl == IF typed \/ default THEN s.floating \cup {c} ELSE s.floating
           fu == IF h.fullscreen THEN s.fullscreen \cup {c} ELSE s.fullscreen
           old == IF \/ h.fullscreen /\ ruled
                     \/ ~typed /\ default
                  THEN s.oldstate \cup {c} ELSE s.oldstate
           g == UpdateWmHints(s, c, urg, deaf)
           u == [g EXCEPT
                  !.mon[c] = m, !.tags[c] = tags, !.live = @ \cup {c},
                  !.floating   = IF typed \/ default THEN @ \cup {c} ELSE @,
                  !.fullscreen = IF h.fullscreen THEN @ \cup {c} ELSE @,
                  !.oldstate   = IF \/ h.fullscreen /\ ruled
                                    \/ ~typed /\ default
                                 THEN @ \cup {c} ELSE @]
           v == AttachStack(AttachBottom(u, c), c)
           w == IF m = s.selmon THEN Unfocus(v, s.sel[m], FALSE) ELSE v
           x == [w EXCEPT !.sel[m] = c]
<1>1. m \in Range(s.mons) /\ m \in Monitor /\ m # None
  BY PlacedTypes, ConstantsAssumption DEF Managed, Placed
<1>2. tags \in SUBSET Tag
  <2>1. s \in State /\ s.selmon \in Monitor
    BY PlacedTypes DEF Placed
  <2>2. TagMask(h.ruletags) \in SUBSET Tag
    BY DEF TagMask
  <2>3. ViewOf(s, m) \in SUBSET Tag
    BY <1>1, <2>1, ViewOfTyped
  <2>4. trans => s.tags[h.parent] \in SUBSET Tag
    BY <2>1 DEF State, Managed
  <2> QED BY <2>2, <2>3, <2>4
<1>3. Mapped(s, c, urg, deaf) = x
  BY DEF Mapped
<1>a. s.mon \in [Client -> Monitor \cup {None}] /\ s.tags \in [Client -> SUBSET Tag]
  BY DEF Placed, State
<1>b. {s.live, s.floating, s.fullscreen, s.oldstate} \subseteq SUBSET Client
  BY DEF Placed, State
<1>c. fl \in SUBSET Client /\ fu \in SUBSET Client /\ old \in SUBSET Client
  BY <1>b
<1>d. g \in State /\ SamePlaces(s, g) /\ SameView(s, g) /\ SameWindows(s, g)
  BY HintsRead DEF Placed
<1>e. u = [g EXCEPT !.mon[c] = m, !.tags[c] = tags, !.live = @ \cup {c},
                    !.floating = fl, !.fullscreen = fu, !.oldstate = old]
  <2> HIDE DEF g, h, ruled, typed, default, m, tags
  <2> QED BY <1>d DEF State, SameWindows
<1> HIDE DEF m, tags, fl, fu, old, u, g
<1>4. /\ u \in State /\ u.mons = s.mons /\ u.selmon = s.selmon
      /\ u.clients = s.clients /\ u.stack = s.stack /\ u.sel = s.sel
      /\ u.mon = [s.mon EXCEPT ![c] = m]
  <2> DEFINE mn == [s.mon EXCEPT ![c] = m]
             tg == [s.tags EXCEPT ![c] = tags]
             li == s.live \cup {c}
  <2>1. /\ g \in State /\ g.mons = s.mons /\ g.selmon = s.selmon
        /\ g.clients = s.clients /\ g.stack = s.stack /\ g.sel = s.sel
        /\ g.mon = s.mon /\ g.tags = s.tags /\ g.live = s.live
    BY <1>d DEF SamePlaces, SameView, SameWindows
  <2>2. mn \in [Client -> Monitor \cup {None}] /\ tg \in [Client -> SUBSET Tag]
    BY <1>1, <1>2, <1>a
  <2>3. li \in SUBSET Client
    BY <1>b
  <2>4. u = [g EXCEPT !.mon = mn, !.tags = tg, !.live = li, !.floating = fl,
                      !.fullscreen = fu, !.oldstate = old]
    BY <1>e, <2>1 DEF State
  <2> HIDE DEF mn, tg, li
  <2>5. /\ u \in State /\ u.mons = s.mons /\ u.selmon = s.selmon
        /\ u.clients = s.clients /\ u.stack = s.stack /\ u.sel = s.sel
        /\ u.mon = mn
    BY ZenonT(60), <1>c, <2>1, <2>2, <2>3, <2>4 DEF State
  <2> QED BY <2>5 DEF mn
<1>5. Placed(v) /\ v.mon = u.mon /\ v.mons = s.mons
  BY <1>1, <1>4, JoinPlaced
<1> HIDE DEF v
<1>6. Placed(w) /\ w.mon = u.mon /\ w.mons = s.mons
  <2>1. s.sel[m] \in Client \cup {None}
    BY <1>1, PlacedTypes
  <2> QED BY <1>5, <2>1, UnfocusPlaced DEF SamePlaces
<1> HIDE DEF w
<1>7. /\ x \in State /\ x.mons = w.mons /\ x.selmon = w.selmon
      /\ x.clients = w.clients /\ x.stack = w.stack /\ x.mon = w.mon
      /\ x.sel = [w.sel EXCEPT ![m] = c]
  <2>1. w \in State
    BY <1>6 DEF Placed
  <2> QED BY ZenonT(60), <1>1, <2>1 DEF State
<1> HIDE DEF x
<1>8. x.mon[c] = m /\ x.mon = [s.mon EXCEPT ![c] = m]
  BY <1>1, <1>4, <1>5, <1>6, <1>7, PlacedTypes
<1>9. Placed(x)
  <2>1. \A n \in Monitor : x.sel[n] = IF n = m THEN c ELSE w.sel[n]
    BY <1>1, <1>6, <1>7, PlacedTypes
  <2> QED BY <1>6, <1>7, <1>8, <2>1 DEF Placed, On
<1> QED BY <1>1, <1>3, <1>8, <1>9

LEMMA ManagePlaced ==
  ASSUME NEW s, Placed(s), NEW c \in Client, s.mon[c] = None, NEW urg \in BOOLEAN,
         NEW deaf \in BOOLEAN
  PROVE  LET t == Manage(s, c, urg, deaf)
         IN  Shown(t) /\ \A e \in Client : s.mon[e] # None => t.mon[e] # None
<1> DEFINE x == Mapped(s, c, urg, deaf)
           t == Focus(x, None)
<1>1. Placed(x)
  BY MappedPlaced
<1>2. PICK m \in Monitor : x.mon = [s.mon EXCEPT ![c] = m]
  BY MappedPlaced
<1> HIDE DEF x
<1>3. Shown(t) /\ t.mon = x.mon
  BY <1>1, FocusPlaced DEF Focusable, Shown
<1>4. \A e \in Client : s.mon[e] # None => x.mon[e] # None
  BY <1>2, PlacedTypes, ConstantsAssumption
<1>5. Manage(s, c, urg, deaf) = t
  BY DEF Manage, x
<1> HIDE DEF t
<1> QED BY <1>3, <1>4, <1>5

----------------------------------------------------------------------------
(* The commands *)

\* What a command of the keys does to the state, in terms of the functions that
\* several of them call.
Command(s, t) ==
  \/ t = s
  \/ \E w : Focusable(s, w) /\ t = Focus(s, w)
  \/ \E u \in State : /\ SamePlaces(s, u) /\ SameWindows(s, u) /\ SameFocus(s, u)
                      /\ t = Refocus(u)
  \/ \E c \in Client : s.mon[c] # None /\ t = Pop(s, c)
  \/ \E c \in Client, m \in Range(s.mons) : s.mon[c] # None /\ t = SendMon(s, c, m)
  \/ \E m \in Range(s.mons) : t = SelectMon(s, m, None, FALSE)
  \/ \E dir : t = MoveStack(s, dir)

LEMMA ViewCommand ==
  ASSUME NEW s, Placed(s), NEW arg
  PROVE  Command(s, View(s, arg)) /\ Command(s, ToggleView(s, arg))
<1> DEFINE m    == s.selmon
           flip == 1 - s.seltags[m]
           new  == TagMask(arg)
           set  == IF new # {} THEN new ELSE s.tagset[m][flip]
           u    == [s EXCEPT !.seltags[m] = flip,
                             !.tagset[m][flip] = IF new # {} THEN new ELSE @]
           two  == SymDiff(ViewOf(s, m), new)
           v    == [s EXCEPT !.tagset[m][s.seltags[m]] = two]
<1>1. s \in State /\ m \in Monitor /\ new \in SUBSET Tag
  BY PlacedTypes DEF Placed, TagMask
<1>2. s.seltags \in [Monitor -> {0, 1}] /\ s.tagset \in [Monitor -> [{0, 1} -> SUBSET Tag]]
  BY <1>1 DEF State
<1>3. flip \in {0, 1} /\ s.seltags[m] \in {0, 1}
  BY <1>1, <1>2
<1>4. set \in SUBSET Tag /\ two \in SUBSET Tag
  BY <1>1, <1>2, <1>3, ViewOfTyped DEF SymDiff
<1>5. u \in State /\ SamePlaces(s, u) /\ SameWindows(s, u) /\ SameFocus(s, u)
  <2> DEFINE f == [s.seltags EXCEPT ![m] = flip]
             g == [s.tagset EXCEPT ![m] = [s.tagset[m] EXCEPT ![flip] = set]]
  <2> HIDE DEF flip, new
  <2>1. u = [s EXCEPT !.seltags = f, !.tagset = g]
    BY <1>1, <1>2, <1>3 DEF State
  <2>2. f \in [Monitor -> {0, 1}] /\ g \in [Monitor -> [{0, 1} -> SUBSET Tag]]
    BY <1>1, <1>2, <1>3, <1>4
  <2> HIDE DEF f, g, u
  <2> QED BY <1>1, <2>1, <2>2 DEF State, SamePlaces, SameWindows, SameFocus
<1>6. v \in State /\ SamePlaces(s, v) /\ SameWindows(s, v) /\ SameFocus(s, v)
  <2> DEFINE k == s.seltags[m]
             g == [s.tagset EXCEPT ![m] = [s.tagset[m] EXCEPT ![k] = two]]
  <2> HIDE DEF two
  <2>1. v = [s EXCEPT !.tagset = g]
    BY <1>1, <1>2 DEF State
  <2>2. g \in [Monitor -> [{0, 1} -> SUBSET Tag]]
    BY <1>1, <1>2, <1>3, <1>4
  <2> HIDE DEF g, v
  <2> QED BY <1>1, <2>1, <2>2 DEF State, SamePlaces, SameWindows, SameFocus
<1>7. View(s, arg) \in {s, Refocus(u)}
  BY DEF View
<1>8. ToggleView(s, arg) \in {s, Refocus(v)}
  BY DEF ToggleView
<1> HIDE DEF u, v
<1> QED BY <1>5, <1>6, <1>7, <1>8 DEF Command

LEMMA SetTagsCommand ==
  ASSUME NEW s, Placed(s), NEW c \in Client \cup {None}, NEW new \in SUBSET Tag
  PROVE  Command(s, SetTags(s, c, new))
<1>1. CASE c = None \/ new = {}
  BY <1>1 DEF SetTags, Command
<1>2. CASE c # None /\ new # {}
  <2> DEFINE u == [s EXCEPT !.tags[c] = new]
  <2>1. u \in State /\ SamePlaces(s, u) /\ SameWindows(s, u) /\ SameFocus(s, u)
    BY <1>2 DEF Placed, State, SamePlaces, SameWindows, SameFocus
  <2>2. SetTags(s, c, new) = Refocus(u)
    BY <1>2 DEF SetTags
  <2> HIDE DEF u
  <2> QED BY <2>1, <2>2 DEF Command
<1> QED BY <1>1, <1>2

LEMMA TagSelCommand ==
  ASSUME NEW s, Placed(s), NEW arg
  PROVE  Command(s, TagSel(s, arg)) /\ Command(s, ToggleTag(s, arg))
<1> DEFINE c == s.sel[s.selmon]
<1>1. c \in Client \cup {None} /\ TagMask(arg) \in SUBSET Tag
  BY PlacedTypes DEF TagMask
<1>2. CASE c = None
  BY <1>1, <1>2, SetTagsCommand DEF TagSel, ToggleTag, Command
<1>3. CASE c # None
  <2>1. s.tags[c] \in SUBSET Tag
    BY <1>1, <1>3 DEF Placed, State
  <2>2. SymDiff(s.tags[c], TagMask(arg)) \in SUBSET Tag
    BY <1>1, <2>1 DEF SymDiff
  <2> QED BY <1>1, <1>3, <2>2, SetTagsCommand DEF TagSel, ToggleTag
<1> QED BY <1>2, <1>3

\* pop puts a client before the others of its monitor and focuses it.
LEMMA PopPlaces ==
  ASSUME NEW s, Placed(s), NEW c \in Client, s.mon[c] # None
  PROVE  LET t == Attach(Detach(s, c), c)
         IN  Placed(t) /\ t.mon = s.mon /\ t.stack = s.stack /\ SameView(s, t)
<1> DEFINE m   == s.mon[c]
           row == RemoveFirst(s.clients[m], c)
           u   == Detach(s, c)
           t   == Attach(u, c)
<1>1. m \in Monitor /\ c \in On(s, m)
  BY PlacedTypes DEF On
<1>2. Lists(row, On(s, m) \ {c})
  BY <1>1, ListsRemove DEF Placed
<1>3. Lists(Cons(c, row), On(s, m))
  <2>1. (On(s, m) \ {c}) \cup {c} = On(s, m)
    BY <1>1
  <2> HIDE DEF row, m
  <2> QED BY <1>2, <2>1, ListsCons
<1>4. row \in Seq(Client) /\ Cons(c, row) \in Seq(Client)
  BY <1>2, <1>3, SeqMonotonic DEF Lists, On
<1>5. /\ u \in State /\ u.mon = s.mon /\ u.mons = s.mons /\ u.selmon = s.selmon
      /\ u.clients = [s.clients EXCEPT ![m] = row]
      /\ u.stack = s.stack /\ u.sel = s.sel
  <2> DEFINE f == [s.clients EXCEPT ![m] = row]
  <2>1. f \in [Monitor -> Seq(Client)] /\ s \in State
    BY <1>1, <1>4, PlacedTypes DEF Placed
  <2>2. u = [s EXCEPT !.clients = f]
    BY <1>1, <2>1 DEF Detach, State
  <2> HIDE DEF f, u
  <2>3. /\ u \in State /\ u.mon = s.mon /\ u.mons = s.mons /\ u.selmon = s.selmon
        /\ u.clients = f /\ u.stack = s.stack /\ u.sel = s.sel
    BY <2>1, <2>2, WithLists
  <2> QED BY <2>3 DEF f
<1> HIDE DEF u
<1>6. /\ t \in State /\ t.mon = s.mon /\ t.mons = s.mons /\ t.selmon = s.selmon
      /\ t.clients = [s.clients EXCEPT ![m] = Cons(c, row)]
      /\ t.stack = s.stack /\ t.sel = s.sel
  <2> DEFINE f == [s.clients EXCEPT ![m] = Cons(c, row)]
  <2>1. f \in [Monitor -> Seq(Client)] /\ u.clients[m] = row
    BY <1>1, <1>4, <1>5, PlacedTypes
  <2>2. t = [u EXCEPT !.clients[m] = Cons(c, row)]
    BY <1>5, <2>1 DEF Attach, State
  <2>3. t = [u EXCEPT !.clients = f]
    BY <1>1, <1>5, <2>2, PlacedTypes DEF State
  <2> HIDE DEF f, t
  <2>4. /\ t \in State /\ t.mon = u.mon /\ t.mons = u.mons /\ t.selmon = u.selmon
        /\ t.clients = f /\ t.stack = u.stack /\ t.sel = u.sel
    BY ZenonT(60), <1>5, <2>1, <2>3, WithLists
  <2> QED BY <1>5, <2>4 DEF f
<1> HIDE DEF t, row
<1>7. ASSUME NEW n \in Monitor PROVE Lists(t.clients[n], On(t, n))
  <2>1. t.clients[n] = IF n = m THEN Cons(c, row) ELSE s.clients[n]
    BY <1>1, <1>6, PlacedTypes
  <2>2. On(t, n) = On(s, n) /\ Lists(s.clients[n], On(s, n))
    BY <1>6 DEF On, Placed
  <2> QED BY <1>3, <2>1, <2>2
<1>8. Placed(t)
  BY <1>6, <1>7 DEF Placed, On
<1>9. SameView(s, t)
  BY DEF Placed, State, SameView, Attach, Detach, t, u
<1> QED BY <1>6, <1>8, <1>9 DEF t, u

LEMMA PopPlaced ==
  ASSUME NEW s, Placed(s), NEW c \in Client, s.mon[c] # None
  PROVE  Shown(Pop(s, c))
BY PopPlaces, FocusPlaced DEF Pop, Shown, Focusable

LEMMA ZoomCommand ==
  ASSUME NEW s, Placed(s)
  PROVE  Command(s, Zoom(s))
<1> DEFINE m     == s.selmon
           q     == s.clients[m]
           c     == s.sel[m]
           first == Min(Tiled(s, m))
           after == Tiled(s, m) \ {first}
<1>1. m \in Monitor /\ Lists(q, On(s, m)) /\ c \in Client \cup {None}
      /\ (c # None => s.mon[c] # None)
  BY PlacedTypes, ConstantsAssumption DEF Placed
<1>2. after \in SUBSET Nat /\ \A i \in after : q[i] \in Client /\ s.mon[q[i]] # None
  <2>1. after \subseteq DOMAIN q
    BY DEF Tiled
  <2>2. \A i \in DOMAIN q : i \in Nat /\ q[i] \in On(s, m)
    BY <1>1 DEF Lists, Range
  <2>3. m # None
    BY <1>1, ConstantsAssumption
  <2> QED BY <2>1, <2>2, <2>3 DEF On
<1>3. after # {} => Min(after) \in after
  BY <1>2, MinExists
<1>4. \/ Zoom(s) = s
      \/ c # None /\ Zoom(s) = Pop(s, c)
      \/ after # {} /\ Zoom(s) = Pop(s, q[Min(after)])
  BY DEF Zoom
<1> HIDE DEF after, c, q, m
<1> QED BY <1>1, <1>2, <1>3, <1>4 DEF Command

LEMMA FocusStackCommand ==
  ASSUME NEW s, Placed(s), NEW dir
  PROVE  Command(s, FocusStack(s, dir))
<1> DEFINE m    == s.selmon
           q    == s.clients[m]
           Good == {i \in DOMAIN q : Visible(s, q[i])}
           at   == IndexOf(q, s.sel[m])
           k    == Cyclic(Good, at, dir)
           d    == NextInStack(s, dir)
<1>1. m \in Monitor /\ m # None /\ Lists(q, On(s, m))
  BY PlacedTypes, ConstantsAssumption DEF Placed
<1>2. \A i \in DOMAIN q : q[i] \in On(s, m)
  BY <1>1 DEF Lists, Range
<1>3. Len(q) \in Nat /\ Good \in SUBSET (1..Len(q)) /\ Good \subseteq DOMAIN q
  BY <1>1 DEF Lists
<1>4. d = IF k = 0 THEN None ELSE q[k]
  BY DEF NextInStack
<1> HIDE DEF Good, at
<1>5. k \in Good \cup {0}
  BY <1>3, CyclicIn
<1> HIDE DEF k
<1>6. Focusable(s, d)
  BY <1>1, <1>2, <1>3, <1>4, <1>5 DEF Focusable, On
<1>7. FocusStack(s, dir) \in {s, Focus(s, d)}
  BY DEF FocusStack
<1> HIDE DEF d
<1> QED BY <1>6, <1>7 DEF Command

LEMMA MoveStackPlaced ==
  ASSUME NEW s, Shown(s), NEW dir
  PROVE  Shown(MoveStack(s, dir))
<1> Placed(s)
  BY DEF Shown
<1> DEFINE m == s.selmon
           q == s.clients[m]
           c == s.sel[m]
           k == IndexOf(q, c)
           T == Tiled(s, m)
           j == Cyclic(T, k, dir)
           r == [q EXCEPT ![k] = q[j], ![j] = c]
           f == [s.clients EXCEPT ![m] = r]
           u == [s EXCEPT !.clients = f]
<1>1. m \in Monitor /\ Lists(q, On(s, m)) /\ (c # None => c \in On(s, m))
  BY PlacedTypes DEF Placed
<1>2. Len(q) \in Nat /\ T \in SUBSET (1..Len(q))
  BY <1>1 DEF Lists, Tiled
<1>3. CASE c = None \/ j = 0
  BY <1>3 DEF MoveStack
<1>4. CASE c # None /\ j # 0
  <2>1. k \in 1..Len(q) /\ q[k] = c
    BY <1>1, <1>4, IndexOfListed
  <2> HIDE DEF k, T
  <2>2. j \in 1..Len(q)
    BY <1>2, <1>4, CyclicIn
  <2> HIDE DEF j
  <2>3. Lists(r, On(s, m))
    BY <1>1, <2>1, <2>2, ListsSwap
  <2>4. r \in Seq(Client)
    BY <2>3, SeqMonotonic DEF Lists, On
  <2> HIDE DEF r
  <2>5. f \in [Monitor -> Seq(Client)] /\ s \in State
    BY <1>1, <2>4, PlacedTypes DEF Placed
  <2>6. MoveStack(s, dir) = u
    <3>1. MoveStack(s, dir) = [s EXCEPT !.clients[m] = r]
      BY <1>4 DEF MoveStack, r, j, k, T
    <3> QED BY <3>1, <2>5, <1>1 DEF State
  <2>7. /\ u \in State /\ u.clients = f /\ u.stack = s.stack
        /\ u.mons = s.mons /\ u.selmon = s.selmon /\ u.sel = s.sel
        /\ u.mon = s.mon
    <3> HIDE DEF f
    <3> QED BY <2>5, WithLists
  <2>8. ASSUME NEW n \in Monitor PROVE Lists(u.clients[n], On(u, n))
    <3>1. f[n] = IF n = m THEN r ELSE s.clients[n]
      BY <1>1, PlacedTypes
    <3>2. On(u, n) = On(s, n) /\ Lists(s.clients[n], On(s, n))
      BY <2>7 DEF On, Placed
    <3> QED BY <2>3, <2>7, <3>1, <3>2
  <2>9. SameView(s, u)
    BY <2>5 DEF State, SameView
  <2> HIDE DEF u
  <2>10. Placed(u)
    BY <2>7, <2>8 DEF Placed, On
  <2>11. SelTop(u)
    BY <2>7, <2>9, TopVisibleFrame DEF SelTop, Shown
  <2> QED BY <2>6, <2>10, <2>11 DEF Shown
<1> QED BY <1>3, <1>4

LEMMA DirToMonListed ==
  ASSUME NEW s, Placed(s), NEW dir
  PROVE  DirToMon(s, dir) \in Range(s.mons)
<1> DEFINE k == IndexOf(s.mons, s.selmon)
           n == Len(s.mons)
<1>1. s.mons \in Seq(Monitor) /\ n \in Nat /\ DOMAIN s.mons = 1..n
  BY PlacedTypes
<1>2. \E i \in DOMAIN s.mons : s.mons[i] = s.selmon
  BY DEF Placed, Range
<1>3. k \in 1..n
  BY <1>1, <1>2 DEF IndexOf
<1> HIDE DEF k
<1>4. PICK i \in 1..n : DirToMon(s, dir) = s.mons[i]
  <2>1. DirToMon(s, dir) = IF dir > 0 THEN s.mons[IF k = n THEN 1 ELSE k + 1]
                           ELSE s.mons[IF k = 1 THEN n ELSE k - 1]
    BY DEF DirToMon, k
  <2>2. CASE dir > 0
    <3>1. (IF k = n THEN 1 ELSE k + 1) \in 1..n
      BY <1>1, <1>3
    <3> QED BY <2>1, <2>2, <3>1
  <2>3. CASE ~(dir > 0)
    <3>1. (IF k = 1 THEN n ELSE k - 1) \in 1..n
      BY <1>1, <1>3
    <3> QED BY <2>1, <2>3, <3>1
  <2> QED BY <2>2, <2>3
<1> QED BY <1>1, <1>4 DEF Range

LEMMA MonCommand ==
  ASSUME NEW s, Placed(s), NEW dir
  PROVE  Command(s, FocusMon(s, dir)) /\ Command(s, TagMon(s, dir))
<1> DEFINE m == DirToMon(s, dir)
           c == s.sel[s.selmon]
<1>1. m \in Range(s.mons)
  BY DirToMonListed
<1> HIDE DEF m
<1>2. Command(s, FocusMon(s, dir))
  BY <1>1 DEF FocusMon, Command, m
<1>3. Command(s, TagMon(s, dir))
  <2>1. CASE c = None \/ Len(s.mons) = 1
    BY <2>1 DEF TagMon, Command
  <2>2. CASE c # None /\ Len(s.mons) # 1
    <3>1. c \in Client /\ s.mon[c] # None
      BY <2>2, PlacedTypes, ConstantsAssumption DEF Placed
    <3>2. TagMon(s, dir) = SendMon(s, c, m)
      BY <2>2 DEF TagMon, m
    <3> HIDE DEF c
    <3> QED BY <1>1, <3>1, <3>2 DEF Command
  <2> QED BY <2>1, <2>2
<1> QED BY <1>2, <1>3

\* focus(NULL) after a write that touches no list, as the commands end with.
LEMMA RefocusFrame ==
  ASSUME NEW s, Placed(s), NEW u \in State, SamePlaces(s, u)
  PROVE  LET t == Refocus(u)
         IN  Shown(t) /\ t.mon = s.mon /\ t.mons = s.mons
BY PlacedFrame, FocusPlaced DEF Refocus, Focusable, SamePlaces, Shown

LEMMA CommandPlaced ==
  ASSUME NEW s, Shown(s), NEW t, Command(s, t)
  PROVE  Shown(t)
<1>1. Placed(s)
  BY DEF Shown
<1>2. CASE \E w : Focusable(s, w) /\ t = Focus(s, w)
  BY <1>1, <1>2, FocusPlaced DEF Shown
<1>3. CASE \E u \in State : SamePlaces(s, u) /\ t = Refocus(u)
  BY <1>1, <1>3, RefocusFrame
<1>4. CASE \E c \in Client, m \in Range(s.mons) : s.mon[c] # None /\ t = SendMon(s, c, m)
  BY <1>1, <1>4, SendMonPlaced DEF Shown
<1>5. CASE \E m \in Range(s.mons) : t = SelectMon(s, m, None, FALSE)
  BY <1>1, <1>5, SelectMonPlaced DEF Focusable
<1> QED BY <1>1, <1>2, <1>3, <1>4, <1>5, PopPlaced, MoveStackPlaced DEF Command


----------------------------------------------------------------------------
(* Handlers that touch no list *)

LEMMA FlagsPlaced ==
  ASSUME NEW s, Shown(s), NEW c \in Client, NEW on \in BOOLEAN
  PROVE  /\ Shown(SetFullscreen(s, c, on)) /\ Shown(ToggleFloating(s))
         /\ Shown(Vanish(s, c))
         /\ ToggleFloating(s).mon = s.mon /\ Vanish(s, c).mon = s.mon
<1> DEFINE t == SetFullscreen(s, c, on)
           u == ToggleFloating(s)
           v == Vanish(s, c)
<1>0. s \in State /\ s.sel[s.selmon] \in Client \cup {None}
  BY PlacedTypes DEF Placed, Shown
<1>1. t \in State /\ SamePlaces(s, t) /\ SameView(s, t)
  BY ZenonT(60), <1>0 DEF SetFullscreen, State, SamePlaces, SameView
<1>2. u \in State /\ SamePlaces(s, u) /\ SameView(s, u)
  BY ZenonT(60), <1>0 DEF ToggleFloating, State, SamePlaces, SameView
<1>3. v \in State /\ SamePlaces(s, v) /\ SameView(s, v)
  BY <1>0 DEF Vanish, State, SamePlaces, SameView
<1> HIDE DEF t, u, v
<1>4. Shown(t) /\ Shown(u) /\ Shown(v)
  BY <1>1, <1>2, <1>3, ShownFrame
<1> QED BY <1>2, <1>3, <1>4 DEF SamePlaces, t, u, v

----------------------------------------------------------------------------
(* Monitors *)

\* The list of the monitors, read as a list of its own elements.
LEMMA MonsListed ==
  ASSUME NEW s, Placed(s)
  PROVE  Lists(s.mons, Range(s.mons)) /\ Len(s.mons) \in Nat /\ s.mons # << >>
<1>1. s.mons \in Seq(Monitor) /\ DOMAIN s.mons = 1..Len(s.mons) /\ Len(s.mons) \in Nat
  BY PlacedTypes
<1>2. s.mons \in Seq(Range(s.mons))
  BY <1>1, SeqOver DEF Range
<1>3. s.mons # << >>
  BY <1>1 DEF Placed, Range
<1> QED BY <1>1, <1>2, <1>3 DEF Lists, Placed

LEMMA CreateMonFrame ==
  ASSUME NEW s, Placed(s), NEW m \in Monitor
  PROVE  CreateMon(s, m) \in State /\ SamePlaces(s, CreateMon(s, m))
<1>1. FirstTagset \in Tag
  BY ConstantsAssumption DEF FirstTagset
<1>2. [i \in {0, 1} |-> {FirstTagset}] \in [{0, 1} -> SUBSET Tag]
  BY <1>1
<1> QED BY <1>2 DEF Placed, CreateMon, State, SamePlaces

LEMMA AddMonPlaced ==
  ASSUME NEW s, Placed(s), NEW m \in Monitor, m \notin Range(s.mons)
  PROVE  LET t == AddMon(s, m)
         IN  Placed(t) /\ t.mon = s.mon
<1> DEFINE u == CreateMon(s, m)
           f == Append(s.mons, m)
           t == AddMon(s, m)
<1>1. u \in State /\ SamePlaces(s, u)
  BY CreateMonFrame
<1>2. Lists(f, Range(s.mons) \cup {m})
  BY MonsListed, ListsAppend
<1>3. f \in Seq(Monitor)
  BY PlacedTypes
<1>4. t = [u EXCEPT !.mons = f]
  BY <1>1 DEF AddMon, SamePlaces
<1> HIDE DEF u, f, t
<1>5. /\ t \in State /\ t.mons = f /\ t.selmon = s.selmon /\ t.clients = s.clients
      /\ t.stack = s.stack /\ t.sel = s.sel /\ t.mon = s.mon
  BY <1>1, <1>3, <1>4 DEF State, SamePlaces
<1>6. IsInjective(t.mons) /\ Range(t.mons) = Range(s.mons) \cup {m}
  BY <1>2, <1>5 DEF Lists
<1>7. Placed(t)
  BY <1>5, <1>6 DEF Placed, On
<1> QED BY <1>5, <1>7 DEF t

\* The clients of the last monitor all arrive on the first one, once.
LEMMA DropMonPlaced ==
  ASSUME NEW s, Placed(s), Len(s.mons) > 1
  PROVE  LET t == DropMon(s)
         IN  Placed(t) /\ \A c \in Client : s.mon[c] # None => t.mon[c] # None
<1> DEFINE m     == Last(s.mons)
           first == s.mons[1]
           moved == Reverse(s.clients[m])
           u     == CreateMon(s, m)
           t     == DropMon(s)
           row   == moved \o s.clients[first]
           new   == moved \o s.stack[first]
           mo    == Front(s.mons)
           sm    == IF s.selmon = m THEN first ELSE s.selmon
           f     == [s.clients EXCEPT ![m] = << >>, ![first] = row]
           g     == [s.stack EXCEPT ![m] = << >>, ![first] = new]
           se    == [s.sel EXCEPT ![m] = None]
           mn    == [c \in Client |-> IF s.mon[c] = m THEN first ELSE s.mon[c]]
           both  == On(s, m) \cup On(s, first)
<1>1. /\ m \in Monitor /\ first \in Monitor /\ m # first
      /\ m \in Range(s.mons) /\ first \in Range(s.mons)
  BY MonsListed, ListsEnds, PlacedTypes
<1>2. u \in State /\ SamePlaces(s, u)
  BY <1>1, CreateMonFrame
<1>3. Lists(mo, Range(s.mons) \ {m})
  BY MonsListed, ListsFront
<1>4. mo \in Seq(Monitor) /\ Range(mo) = Range(s.mons) \ {m} /\ IsInjective(mo)
  BY <1>3, PlacedTypes, SeqMonotonic DEF Lists
<1>5. On(s, m) \cap On(s, first) = {}
  BY <1>1 DEF On
<1>6. Lists(row, both) /\ Lists(new, both)
  BY <1>1, <1>5, ListsPrepend DEF Placed
<1>7. row \in Seq(Client) /\ new \in Seq(Client)
  BY <1>6, SeqMonotonic DEF Lists, On
<1>8. t = [u EXCEPT !.mons = mo, !.selmon = sm, !.clients = f, !.stack = g,
                    !.sel = se, !.mon = mn]
  <2>1. /\ s.clients \in [Monitor -> Seq(Client)] /\ s.stack \in [Monitor -> Seq(Client)]
        /\ s.sel \in [Monitor -> Client \cup {None}]
    BY PlacedTypes
  <2>2. /\ u.mons = s.mons /\ u.selmon = s.selmon /\ u.clients = s.clients
        /\ u.stack = s.stack /\ u.sel = s.sel /\ u.mon = s.mon
    BY <1>2 DEF SamePlaces
  <2>3. t = [u EXCEPT
               !.mons    = Front(u.mons),
               !.selmon  = IF u.selmon = m THEN first ELSE u.selmon,
               !.clients = [u.clients EXCEPT ![m] = << >>, ![first] = moved \o @],
               !.stack   = [u.stack EXCEPT ![m] = << >>, ![first] = moved \o @],
               !.sel     = [u.sel EXCEPT ![m] = None],
               !.mon     = [c \in Client |-> IF u.mon[c] = m THEN first ELSE u.mon[c]]]
    <3>1. t = [u EXCEPT
                 !.mons    = Front(@),
                 !.selmon  = IF @ = m THEN first ELSE @,
                 !.clients[m] = << >>, !.clients[first] = moved \o @,
                 !.stack[m]   = << >>, !.stack[first]   = moved \o @,
                 !.sel[m]  = None,
                 !.mon     = [c \in Client |-> IF @[c] = m THEN first ELSE @[c]]]
      BY DEF DropMon
    <3> HIDE DEF t, u, m, first, moved
    <3> QED BY ZenonT(60), <1>2, <3>1 DEF State
  <2>4. /\ [u.clients EXCEPT ![m] = << >>, ![first] = moved \o @] = f
        /\ [u.stack EXCEPT ![m] = << >>, ![first] = moved \o @] = g
    BY <1>1, <2>1, <2>2
  <2>5. /\ Front(u.mons) = mo /\ [u.sel EXCEPT ![m] = None] = se
        /\ (IF u.selmon = m THEN first ELSE u.selmon) = sm
        /\ [c \in Client |-> IF u.mon[c] = m THEN first ELSE u.mon[c]] = mn
    BY <2>2
  <2> QED BY Zenon, <2>3, <2>4, <2>5
<1>9. /\ sm \in Monitor /\ f \in [Monitor -> Seq(Client)] /\ g \in [Monitor -> Seq(Client)]
      /\ se \in [Monitor -> Client \cup {None}] /\ mn \in [Client -> Monitor \cup {None}]
  <2>1. << >> \in Seq(Client)
    BY EmptySeq
  <2> HIDE DEF row, new, m, first
  <2> QED BY <1>1, <1>7, <2>1, PlacedTypes
<1>10. /\ \A n \in Monitor : /\ f[n] = IF n = m THEN << >> ELSE IF n = first THEN row ELSE s.clients[n]
                             /\ g[n] = IF n = m THEN << >> ELSE IF n = first THEN new ELSE s.stack[n]
                             /\ se[n] = IF n = m THEN None ELSE s.sel[n]
       /\ \A c \in Client : mn[c] = IF s.mon[c] = m THEN first ELSE s.mon[c]
  <2> HIDE DEF row, new, m, first
  <2> QED BY <1>1, PlacedTypes
<1>11. sm \in Range(s.mons) \ {m}
  BY <1>1 DEF Placed
<1> HIDE DEF u, f, g, se, mn, mo, sm, t
<1>12. /\ t \in State /\ t.mons = mo /\ t.selmon = sm /\ t.clients = f /\ t.stack = g
       /\ t.sel = se /\ t.mon = mn
  BY <1>2, <1>4, <1>8, <1>9 DEF State
<1> HIDE DEF row, new, m, first
<1>13. ASSUME NEW n \in Monitor
       PROVE  On(t, n) = IF n = m THEN {} ELSE IF n = first THEN both ELSE On(s, n)
  BY <1>1, <1>10, <1>12 DEF On
<1>14. ASSUME NEW n \in Monitor
       PROVE  /\ Lists(t.clients[n], On(t, n)) /\ Lists(t.stack[n], On(t, n))
              /\ t.sel[n] # None => t.mon[t.sel[n]] = n
  <2>1. Lists(s.clients[n], On(s, n)) /\ Lists(s.stack[n], On(s, n))
    BY DEF Placed
  <2>2. Lists(<< >>, {})
    BY EmptySeq DEF Lists, IsInjective, Range
  <2>3. s.sel[n] # None => s.sel[n] \in On(s, n)
    BY PlacedTypes
  <2>4. n # m /\ s.sel[n] # None => t.mon[s.sel[n]] = n
    BY <1>10, <1>12, <2>3 DEF On
  <2> QED BY <1>6, <1>10, <1>12, <1>13, <2>1, <2>2, <2>4
<1>15. \A c \in Client :
         /\ s.mon[c] # None => t.mon[c] # None
         /\ t.mon[c] # None => t.mon[c] \in Range(s.mons) \ {m}
  BY <1>1, <1>10, <1>12, ConstantsAssumption DEF Placed
<1>16. Placed(t)
  BY <1>4, <1>11, <1>12, <1>14, <1>15 DEF Placed
<1>17. \A c \in Client : s.mon[c] # None => t.mon[c] # None
  BY Zenon, <1>15
<1> QED BY Zenon, <1>16, <1>17 DEF t

LEMMA SelmonPlaced ==
  ASSUME NEW s, Placed(s), NEW m \in Range(s.mons)
  PROVE  LET t == [s EXCEPT !.selmon = m]
         IN  Placed(t) /\ t.mon = s.mon /\ t.mons = s.mons
<1> DEFINE t == [s EXCEPT !.selmon = m]
<1>1. s \in State /\ m \in Monitor
  BY PlacedTypes DEF Placed
<1>2. /\ t \in State /\ t.mons = s.mons /\ t.selmon = m /\ t.clients = s.clients
      /\ t.stack = s.stack /\ t.sel = s.sel /\ t.mon = s.mon
  BY <1>1 DEF State
<1> HIDE DEF t
<1>3. Placed(t)
  BY <1>2 DEF Placed, On
<1> QED BY <1>2, <1>3 DEF t

----------------------------------------------------------------------------
(* The inductive invariant *)

\* The lists are consistent, the selection is the most recent visible client, and
\* the client that is dragged is a managed one:
\* the release of the button hands it to sendmon.
IInv ==
  /\ Shown(dwm)
  /\ phase \in Phase /\ drag \in Client \cup {None}
  /\ (phase = "drag") = (drag # None)
  /\ drag # None => dwm.mon[drag] # None

LEMMA InitIInv == Init => IInv
<1> SUFFICES ASSUME Init PROVE IInv
  OBVIOUS
<1> PICK p \in Range(Screens) :
       dwm = [ mons       |-> Screens,
               selmon     |-> p,
               clients    |-> [m \in Monitor |-> << >>],
               stack      |-> [m \in Monitor |-> << >>],
               sel        |-> [m \in Monitor |-> None],
               tagset     |-> [m \in Monitor |-> [i \in {0, 1} |-> {FirstTagset}]],
               seltags    |-> [m \in Monitor |-> 0],
               mon        |-> [c \in Client |-> None],
               tags       |-> [c \in Client |-> {}],
               floating   |-> {}, fullscreen |-> {}, oldstate |-> {},
               urgent     |-> {}, neverfocus |-> {}, lit |-> {}, live |-> {},
               xfocus     |-> None, stolen |-> None, refused |-> FALSE,
               ptrmon     |-> None ]
  BY DEF Init
<1>1. p \in Monitor
  BY ConstantsAssumption DEF Range
<1>2. FirstTagset \in Tag
  BY ConstantsAssumption DEF FirstTagset
<1>3. dwm \in State
  <2>1. [m \in Monitor |-> [i \in {0, 1} |-> {FirstTagset}]]
          \in [Monitor -> [{0, 1} -> SUBSET Tag]]
    BY <1>2
  <2>2. << >> \in Seq(Client)
    BY EmptySeq
  <2> QED BY <1>1, <2>1, <2>2, ConstantsAssumption DEF State
<1>4. ASSUME NEW m \in Monitor
      PROVE  /\ Lists(dwm.clients[m], On(dwm, m)) /\ Lists(dwm.stack[m], On(dwm, m))
             /\ dwm.sel[m] = None
  <2>1. Lists(<< >>, {})
    BY EmptySeq DEF Lists, IsInjective, Range
  <2>2. On(dwm, m) = {}
    BY ConstantsAssumption DEF On
  <2> QED BY <2>1, <2>2
<1>5. Placed(dwm)
  BY <1>3, <1>4, ConstantsAssumption DEF Placed
<1>6. SelTop(dwm)
  <2>1. dwm.sel[dwm.selmon] = None /\ dwm.stack[dwm.selmon] = << >>
    BY <1>1
  <2>2. TopVisible(dwm, << >>) = None
    BY DEF TopVisible
  <2> QED BY <2>1, <2>2 DEF SelTop
<1> QED BY <1>5, <1>6 DEF Init, IInv, Phase, Shown

\* A handler between two events of run() may assume and must keep Placed.
LEMMA HandleIInv ==
  ASSUME IInv, NEW h, NEW s, Handle(h, s), phase = "run" => Shown(s)
  PROVE  IInv'
BY DEF IInv, Shown, Handle, Phase

----------------------------------------------------------------------------
(* Every step keeps it *)

\* What an event about a managed client may assume.
LEMMA ManagedFacts ==
  ASSUME IInv, NEW c \in Managed(dwm)
  PROVE  /\ c \in Client /\ dwm.mon[c] # None /\ dwm.mon[c] \in Range(dwm.mons)
         /\ Shown(dwm) /\ Placed(dwm)
BY DEF IInv, Shown, Placed, Managed

LEMMA ClickedMonPlaced ==
  ASSUME IInv, NEW m \in Range(dwm.mons)
  PROVE  /\ Shown(ClickedMon(m)) /\ ClickedMon(m).mon = dwm.mon
         /\ ClickedMon(m).mons = dwm.mons
<1>1. Shown(dwm) /\ Placed(dwm)
  BY DEF IInv, Shown
<1> QED BY <1>1, SelectMonPlaced DEF ClickedMon, Focusable

LEMMA MapRequestStep ==
  ASSUME IInv, NEW c \in Client, NEW urg \in BOOLEAN, NEW deaf \in BOOLEAN,
         MapRequest(c, urg, deaf)
  PROVE  IInv'
<1> DEFINE t == Manage(dwm, c, urg, deaf)
<1>1. Shown(dwm) /\ Placed(dwm) /\ dwm.mon[c] = None
  BY DEF IInv, Shown, MapRequest, Managed
<1>2. Shown(t) /\ \A e \in Client : dwm.mon[e] # None => t.mon[e] # None
  BY <1>1, ManagePlaced
<1> HIDE DEF t
<1>3. dwm' = t /\ phase' = phase /\ drag' = drag
  BY DEF MapRequest, t
<1> QED BY <1>2, <1>3 DEF IInv

LEMMA WithdrawStep ==
  ASSUME IInv, NEW c \in Client, Withdraw(c)
  PROVE  IInv'
<1> DEFINE t == Vanish(dwm, c)
<1>1. Shown(t) /\ t.mon = dwm.mon
  BY FlagsPlaced DEF IInv, Shown
<1> HIDE DEF t
<1>2. dwm' = t /\ phase' = phase /\ drag' = drag
  BY DEF Withdraw, t
<1> QED BY <1>1, <1>2 DEF IInv

LEMMA UnmapNotifyStep ==
  ASSUME IInv, NEW c \in Client, UnmapNotify(c)
  PROVE  IInv'
<1>1. Shown(dwm) /\ Placed(dwm) /\ dwm.mon[c] # None
  BY DEF IInv, Shown, UnmapNotify, Managed
<1>2. Shown(Unmanage(dwm, c))
  BY <1>1, UnmanagePlaced
<1> QED BY <1>2 DEF IInv, UnmapNotify, Phase

\* A click, a drag and the pointer: the client and its monitor are selected.
LEMMA ClickedFocus ==
  ASSUME IInv, NEW c \in Managed(dwm)
  PROVE  LET s == Focus(ClickedMon(dwm.mon[c]), c)
         IN  Shown(s) /\ s.mon = dwm.mon /\ s.mons = dwm.mons
<1> DEFINE u == ClickedMon(dwm.mon[c])
<1>1. c \in Client /\ dwm.mon[c] # None /\ dwm.mon[c] \in Range(dwm.mons)
  BY ManagedFacts
<1>2. Placed(u) /\ u.mon = dwm.mon /\ u.mons = dwm.mons
  BY <1>1, ClickedMonPlaced DEF Shown
<1> HIDE DEF u
<1>3. Focusable(u, c)
  BY <1>1, <1>2 DEF Focusable
<1> QED BY <1>2, <1>3, FocusPlaced DEF Shown, u

LEMMA PointerStep ==
  ASSUME IInv, NEW c \in Managed(dwm),
         EnterNotify(c, dwm.mon[c]) \/ ClickClient(c) \/ DragStart(c)
  PROVE  IInv'
<1> DEFINE s == Focus(ClickedMon(dwm.mon[c]), c)
           m == dwm.mon[c]
<1>1. /\ c \in Client /\ m # None /\ m \in Range(dwm.mons)
      /\ Shown(dwm) /\ Placed(dwm)
  BY ManagedFacts
<1>2. Shown(s) /\ Placed(s) /\ s.mon = dwm.mon
  BY ClickedFocus DEF Shown
<1> HIDE DEF s
<1>3. CASE EnterNotify(c, m)
  <2> DEFINE u == IF m # dwm.selmon THEN SelectMon(dwm, m, c, TRUE)
                  ELSE IF c \in {None, dwm.sel[m]} THEN dwm ELSE Focus(dwm, c)
  <2>1. Focusable(dwm, c)
    BY <1>1 DEF Focusable
  <2>2. Shown(u)
    BY <1>1, <2>1, SelectMonPlaced, FocusPlaced DEF Shown
  <2>3. Handle("enter", u)
    BY <1>3 DEF EnterNotify
  <2> QED BY <2>2, <2>3, HandleIInv
<1>4. CASE ClickClient(c)
  <2>1. Shown(ToggleFloating(s))
    BY <1>1, <1>2, FlagsPlaced
  <2>2. Handle("click", s) \/ Handle("click", ToggleFloating(s))
    BY <1>4 DEF ClickClient, s
  <2> QED BY <1>2, <2>1, <2>2, HandleIInv
<1>5. CASE DragStart(c)
  <2>1. dwm' = s /\ phase' = "drag" /\ drag' = s.sel[s.selmon] /\ drag' # None
    BY <1>5 DEF DragStart, s
  <2>2. drag' \in Client /\ s.mon[drag'] # None
    <3>1. s.selmon \in Monitor /\ s.sel[s.selmon] \in Client
      BY <1>2, <2>1, PlacedTypes
    <3> QED BY <1>2, <2>1, <3>1, ConstantsAssumption DEF Placed
  <2> QED BY <1>2, <2>1, <2>2 DEF IInv, Phase
<1> QED BY <1>3, <1>4, <1>5

LEMMA PropertyStep ==
  ASSUME IInv, NEW c \in Managed(dwm),
         ClientMessage(c) \/ PropertyNotify(c) \/ Steal(c)
  PROVE  IInv'
<1> DEFINE u1 == [dwm EXCEPT !.urgent = @ \cup {c}]
           u2(urg, deaf) == UpdateWmHints(dwm, c, urg, deaf)
           u3 == [dwm EXCEPT !.floating = @ \cup {c}]
           u4 == [dwm EXCEPT !.stolen = c, !.xfocus = c]
<1>1. c \in Client /\ Shown(dwm) /\ Placed(dwm)
  BY ManagedFacts
<1>2. /\ u1 \in State /\ SamePlaces(dwm, u1) /\ SameView(dwm, u1)
      /\ u3 \in State /\ SamePlaces(dwm, u3) /\ SameView(dwm, u3)
      /\ u4 \in State /\ SamePlaces(dwm, u4) /\ SameView(dwm, u4)
  BY <1>1 DEF Placed, State, SamePlaces, SameView
<1>a. \A urg, deaf \in BOOLEAN :
        LET u == u2(urg, deaf) IN u \in State /\ SamePlaces(dwm, u) /\ SameView(dwm, u)
  BY <1>1, HintsRead DEF Placed
<1>3. \/ \E on \in BOOLEAN : Handle("fullscreen", SetFullscreen(dwm, c, on))
      \/ \E urg, deaf \in BOOLEAN : Handle("hints", u2(urg, deaf))
      \/ Handle("active", u1) \/ Handle("type", u3) \/ Handle("steal", u4)
  BY DEF ClientMessage, PropertyNotify, Steal, Flag
<1> HIDE DEF u1, u2, u3, u4
<1>4. /\ Shown(u1) /\ Shown(u3) /\ Shown(u4)
      /\ \A urg, deaf \in BOOLEAN : Shown(u2(urg, deaf))
      /\ \A on \in BOOLEAN : Shown(SetFullscreen(dwm, c, on))
  BY <1>1, <1>2, <1>a, ShownFrame, FlagsPlaced
<1> QED BY <1>3, <1>4, HandleIInv

LEMMA ClientStep ==
  ASSUME IInv, NEW c \in Client, ClientEvent(c)
  PROVE  IInv'
BY MapRequestStep, WithdrawStep, UnmapNotifyStep, PointerStep, PropertyStep
   DEF ClientEvent, Flag

LEMMA RootStep ==
  ASSUME IInv, NEW m \in Range(dwm.mons), EnterNotify(None, m) \/ MotionNotify(m)
  PROVE  IInv'
<1> DEFINE u == IF m # dwm.selmon THEN SelectMon(dwm, m, None, TRUE) ELSE dwm
           v == IF dwm.ptrmon \notin {None, m} THEN SelectMon(dwm, m, None, TRUE)
                ELSE dwm
           w == [v EXCEPT !.ptrmon = m]
<1>1. Shown(dwm) /\ Placed(dwm) /\ m \in Monitor
  BY PlacedTypes DEF IInv, Shown
<1>2. Shown(u) /\ Shown(v)
  BY <1>1, SelectMonPlaced DEF Focusable
<1>3. Handle("enter", u) \/ Handle("motion", w)
  BY DEF EnterNotify, MotionNotify
<1> HIDE DEF u, v
<1>4. w \in State /\ SamePlaces(v, w) /\ SameView(v, w)
  BY <1>1, <1>2 DEF Shown, Placed, State, SamePlaces, SameView
<1>5. Shown(w)
  BY <1>2, <1>4, ShownFrame
<1> HIDE DEF w
<1> QED BY <1>2, <1>3, <1>5, HandleIInv

LEMMA ClickBarStep ==
  ASSUME IInv, NEW m \in Range(dwm.mons), ClickBar(m)
  PROVE  IInv'
<1> DEFINE s == ClickedMon(m)
<1>1. Shown(s)
  BY ClickedMonPlaced
<1>2. \/ Handle("bar", s) \/ Handle("bar", Zoom(s))
      \/ \E t \in Tag : \/ Handle("bar", View(s, {t}))
                        \/ Handle("bar", ToggleView(s, {t}))
                        \/ Handle("bar", TagSel(s, {t}))
                        \/ Handle("bar", ToggleTag(s, {t}))
  BY DEF ClickBar
<1> HIDE DEF s
<1> QED BY <1>1, <1>2, ZoomCommand, ViewCommand, TagSelCommand, CommandPlaced, HandleIInv
       DEF Shown

LEMMA DragMotionStep == ASSUME IInv, DragMotion PROVE IInv'
<1> DEFINE t == ToggleFloating(dwm)
<1>1. drag \in Client
  BY DEF IInv, Shown, DragMotion
<1>2. Shown(t) /\ t.mon = dwm.mon
  BY <1>1, FlagsPlaced DEF IInv, Shown
<1> HIDE DEF t
<1>3. dwm' = t /\ phase' = phase /\ drag' = drag
  BY DEF DragMotion, t
<1> QED BY <1>2, <1>3 DEF IInv

LEMMA DragReleaseStep ==
  ASSUME IInv, NEW m \in Range(dwm.mons), DragRelease(m)
  PROVE  IInv'
<1> DEFINE u == SendMon(dwm, drag, m)
           v == [u EXCEPT !.selmon = m]
<1>1. Shown(dwm) /\ Placed(dwm) /\ drag \in Client /\ dwm.mon[drag] # None
  BY DEF IInv, Shown, DragRelease
<1>2. Placed(u) /\ u.mons = dwm.mons
  BY <1>1, SendMonPlaced
<1> HIDE DEF u
<1>3. Placed(v)
  BY <1>2, SelmonPlaced
<1>4. Shown(Refocus(v))
  BY <1>3, FocusPlaced DEF Refocus, Focusable, Shown
<1>5. dwm' \in {dwm, Refocus(v)} /\ phase' = "run" /\ drag' = None
  BY DEF DragRelease, u
<1> QED BY <1>1, <1>4, <1>5 DEF IInv, Phase

LEMMA MonitorStep ==
  ASSUME IInv, NEW m \in Range(dwm.mons), MonitorEvent(m)
  PROVE  IInv'
BY RootStep, ClickBarStep, DragReleaseStep DEF MonitorEvent

LEMMA KeyStep ==
  ASSUME IInv, TagKey \/ StackKey \/ MonKey \/ MoveStackCrash
  PROVE  IInv'
<1>1. Shown(dwm) /\ Placed(dwm)
  BY DEF IInv, Shown
<1>2. PICK s, h : \/ Shown(s) /\ Handle(h, s)
                  \/ MoveStackCrash
  <2>1. CASE TagKey
    BY <1>1, <2>1, ViewCommand, TagSelCommand, CommandPlaced DEF TagKey
  <2>2. CASE StackKey
    <3>1. Shown(ToggleFloating(dwm))
      <4>1. SUFFICES ASSUME dwm.sel[dwm.selmon] # None PROVE Shown(ToggleFloating(dwm))
        BY <1>1 DEF ToggleFloating
      <4>2. dwm.sel[dwm.selmon] \in Client
        BY <1>1, <4>1, PlacedTypes
      <4> QED BY <1>1, <4>2, FlagsPlaced
    <3> QED BY <1>1, <2>2, <3>1, FocusStackCommand, ZoomCommand, CommandPlaced,
               MoveStackPlaced DEF StackKey
  <2>3. CASE MonKey
    BY <1>1, <2>3, MonCommand, CommandPlaced DEF MonKey
  <2> QED BY <2>1, <2>2, <2>3
<1>3. CASE MoveStackCrash
  BY <1>3 DEF MoveStackCrash, IInv, Phase
<1> QED BY <1>2, <1>3, HandleIInv

LEMMA KillFocusStep == ASSUME IInv, KillClient \/ FocusIn PROVE IInv'
<1> DEFINE c == dwm.sel[dwm.selmon]
<1>1. Shown(dwm) /\ Placed(dwm) /\ dwm \in State /\ c \in Client \cup {None}
  BY PlacedTypes DEF IInv, Shown, Placed
<1> HIDE DEF c
<1>2. CASE KillClient
  <2>1. c \in Client /\ Handle("kill", Vanish(dwm, c))
    BY <1>1, <1>2 DEF KillClient, State, c
  <2> QED BY <1>1, <2>1, FlagsPlaced, HandleIInv
<1>3. CASE FocusIn
  <2> DEFINE s == IF c \in {None, dwm.stolen} THEN dwm ELSE SetFocus(dwm, c)
             t == [s EXCEPT !.stolen = None]
  <2>1. Shown(s)
    BY <1>1, SetFocusPlaced, ShownFrame DEF Placed
  <2>2. dwm' = t /\ phase' = phase /\ drag' = drag /\ phase = "run"
    BY <1>3 DEF FocusIn, c
  <2> HIDE DEF s
  <2>3. t \in State /\ SamePlaces(s, t) /\ SameView(s, t)
    BY <2>1 DEF Shown, Placed, State, SamePlaces, SameView
  <2>4. Shown(t)
    BY <2>1, <2>3, ShownFrame
  <2> HIDE DEF t
  <2> QED BY <2>2, <2>4 DEF IInv
<1> QED BY <1>2, <1>3

LEMMA ScreensStep == ASSUME IInv, ScreensChanged PROVE IInv'
<1>1. Shown(dwm) /\ Placed(dwm)
  BY DEF IInv, Shown
<1>2. PICK s \in {dwm} \cup {AddMon(dwm, m) : m \in Monitor \ Range(dwm.mons)}
                       \cup (IF Len(dwm.mons) > 1 THEN {DropMon(dwm)} ELSE {}) :
        \E p \in Range(s.mons) :
          Handle("screens", Refocus([s EXCEPT !.selmon = p]))
  BY DEF ScreensChanged
<1>3. PICK p \in Range(s.mons) : Handle("screens", Refocus([s EXCEPT !.selmon = p]))
  BY <1>2
<1>4. Placed(s)
  BY <1>1, AddMonPlaced, DropMonPlaced
<1>5. Placed([s EXCEPT !.selmon = p])
  BY <1>4, SelmonPlaced
<1>6. Shown(Refocus([s EXCEPT !.selmon = p]))
  BY <1>5, FocusPlaced DEF Refocus, Focusable, Shown
<1> QED BY <1>3, <1>6, HandleIInv

\* The client cleanup() unmanages next.
LEMMA FirstLeft ==
  ASSUME NEW s, Placed(s),
         {i \in DOMAIN s.mons : s.stack[s.mons[i]] # << >>} # {}
  PROVE  LET left == {i \in DOMAIN s.mons : s.stack[s.mons[i]] # << >>}
             c    == Head(s.stack[s.mons[Min(left)]])
         IN  c \in Client /\ s.mon[c] # None
<1> DEFINE left == {i \in DOMAIN s.mons : s.stack[s.mons[i]] # << >>}
           m    == s.mons[Min(left)]
           c    == Head(s.stack[m])
<1>1. left \in SUBSET Nat
  BY PlacedTypes
<1>2. Min(left) \in left
  BY <1>1, MinExists
<1>3. m \in Monitor /\ s.stack[m] # << >>
  <2>1. PICK i \in DOMAIN s.mons : m = s.mons[i] /\ s.stack[s.mons[i]] # << >>
    BY <1>2
  <2> HIDE DEF m, left
  <2>2. m \in Monitor
    BY <2>1, PlacedTypes DEF Range
  <2> QED BY Zenon, <2>1, <2>2
<1> HIDE DEF m, left
<1>4. Lists(s.stack[m], On(s, m))
  BY <1>3 DEF Placed
<1>5. c \in On(s, m)
  <2>1. 1 \in DOMAIN s.stack[m] /\ c = s.stack[m][1]
    BY <1>3, <1>4 DEF Lists
  <2> QED BY <1>4, <2>1 DEF Lists, Range
<1> HIDE DEF c
<1>6. c \in Client /\ s.mon[c] # None
  BY <1>3, <1>5, ConstantsAssumption DEF On
<1> QED BY <1>6 DEF c, m, left

LEMMA QuitStep == ASSUME IInv, Quit \/ Cleanup PROVE IInv'
<1>1. Shown(dwm) /\ Placed(dwm)
  BY DEF IInv, Shown
<1>2. CASE Quit
  <2>1. Shown(View(dwm, Bit))
    BY <1>1, ViewCommand, CommandPlaced
  <2> QED BY <1>2, <2>1 DEF Quit, IInv, Phase
<1>3. CASE Cleanup
  <2> DEFINE left == {i \in DOMAIN dwm.mons : dwm.stack[dwm.mons[i]] # << >>}
             m    == dwm.mons[Min(left)]
             c    == Head(dwm.stack[m])
  <2>1. CASE left = {}
    <3> DEFINE t == [dwm EXCEPT !.xfocus = None]
    <3>1. t \in State /\ SamePlaces(dwm, t) /\ SameView(dwm, t)
      BY <1>1 DEF Placed, State, SamePlaces, SameView
    <3>2. Shown(t)
      BY <1>1, <3>1, ShownFrame
    <3>3. dwm' = t /\ phase' = "stopped" /\ drag' = drag /\ phase = "quit"
      BY <1>3, <2>1 DEF Cleanup
    <3> QED BY <3>2, <3>3 DEF IInv, Phase
  <2>2. CASE left # {}
    <3>1. c \in Client /\ dwm.mon[c] # None
      BY <1>1, <2>2, FirstLeft
    <3>2. /\ dwm' = Unmanage(dwm, c) /\ phase' = phase /\ drag' = drag
          /\ phase = "quit"
      BY <1>3, <2>2 DEF Cleanup
    <3> HIDE DEF left, m, c
    <3>3. Shown(Unmanage(dwm, c))
      BY <1>1, <3>1, UnmanagePlaced
    <3> QED BY <3>2, <3>3 DEF IInv, Phase
  <2> QED BY <2>1, <2>2
<1> QED BY <1>2, <1>3

LEMMA StepIInv == IInv /\ [Next]_vars => IInv'
<1> SUFFICES ASSUME IInv, [Next]_vars PROVE IInv'
  OBVIOUS
<1>1. CASE UNCHANGED vars
  BY <1>1 DEF IInv, Shown, vars
<1>2. CASE Next
  BY <1>2, ClientStep, MonitorStep, KeyStep, KillFocusStep, DragMotionStep,
     ScreensStep, QuitStep DEF Next
<1> QED BY <1>1, <1>2

----------------------------------------------------------------------------
(* The theorems *)

LEMMA SpecIInv == Spec => []IInv
BY InitIInv, StepIInv, PTL DEF Spec

\* For any windows, monitors, tags and hints, and any events in any order, the
\* state of dwm is well formed: no list, flag or pointer leaves its type.
THEOREM TypeCorrect == Spec => []TypeOK
<1>1. IInv => TypeOK
  BY DEF IInv, Shown, TypeOK, Placed
<1> QED BY <1>1, SpecIInv, PTL

\* For every instance, the client list and the focus list of each monitor hold
\* exactly the clients whose monitor it is, each once, and no client points to
\* a monitor that was removed (attach, detach, sendmon, updategeom, movestack).
THEOREM ListsStayConsistent == Spec => []ListsAgree
<1>1. IInv => ListsAgree
  BY DEF IInv, Shown, ListsAgree, Placed, Managed
<1> QED BY <1>1, SpecIInv, PTL

\* For every instance, the selected client is the one most recently focused of
\* those the selected monitor shows: focus() establishes it, and no other
\* function disturbs it without a call of focus() after it.
THEOREM SelectionIsMostRecent == Spec => []SelIsTop
<1>1. IInv => SelIsTop
  BY DEF IInv, Shown, SelTop, SelIsTop
<1> QED BY <1>1, SpecIInv, PTL

\* For every instance, the selected client of a monitor is a client of that
\* monitor: unmanage and sendmon leave no dangling m->sel.
THEOREM SelectionStaysListed == Spec => []SelListed
<1>1. IInv => SelListed
  BY DEF IInv, Shown, SelListed, Placed
<1> QED BY <1>1, SpecIInv, PTL

\* For every instance, the lists of every monitor and what points into them are
\* sound: the three together, as the runs check them.
THEOREM ListsStaySound == Spec => []ListsSound
<1>1. TypeOK /\ ListsAgree /\ SelListed => ListsSound
  BY DEF ListsSound
<1> QED BY <1>1, TypeCorrect, ListsStayConsistent, SelectionStaysListed, PTL

=============================================================================
