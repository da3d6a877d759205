------------------------ MODULE TaskContainer_proofs ------------------------
(* Proofs about TaskContainer, for any tasks, containers and calls.           *)
EXTENDS TaskContainer, WellFoundedInduction, FiniteSetTheorems, TLAPS

----------------------------------------------------------------------------
(* Lists, and taking tasks out of them. *)

\* Induction over the naturals, for a set of them.
LEMMA SetInduction ==
  ASSUME NEW T \in SUBSET Nat, 0 \in T, \A n \in T : n + 1 \in T
  PROVE  \A n \in Nat : n \in T
<1> DEFINE B == Nat \ T
           R == OpToRel(<, Nat)
<1>1. SUFFICES ASSUME B # {} PROVE FALSE
  OBVIOUS
<1>2. IsWellFoundedOn(R, Nat)
  BY NatLessThanWellFounded
<1> HIDE DEF R
<1>3. PICK x \in B : \A y \in B : ~(<<y, x>> \in R)
  BY <1>1, <1>2, WFMin
<1>4. \A y \in B : ~(y < x)
  BY <1>3 DEF OpToRel, R
<1>5. x - 1 \in Nat /\ x - 1 < x
  OBVIOUS
<1> QED
  BY <1>4, <1>5

\* A set of numbers up to n has a largest one.
LEMMA MaxOf ==
  ASSUME NEW n \in Nat, NEW x \in SUBSET (1..n), x # {}
  PROVE  /\ Max(x) \in x
         /\ \A y \in x : y <= Max(x)
<1> DEFINE Bounded(m) == \A z \in SUBSET (1..m) : z # {} => \E i \in z : \A y \in z : i >= y
           T == {m \in Nat : Bounded(m)}
<1>1. 0 \in T
  <2>1. 1..0 = {}
    OBVIOUS
  <2>2. Bounded(0)
    BY <2>1
  <2> QED
    BY <2>2
<1>2. ASSUME NEW m \in T PROVE m + 1 \in T
  <2>1. SUFFICES ASSUME NEW z \in SUBSET (1..(m + 1)), z # {}
                 PROVE  \E i \in z : \A y \in z : i >= y
    BY <1>2
  <2>2. CASE m + 1 \in z
    BY <1>2, <2>2
  <2>3. CASE m + 1 \notin z
    <3>1. z \in SUBSET (1..m)
      BY <1>2, <2>3
    <3> QED
      BY <1>2, <2>1, <3>1
  <2> QED
    BY <2>2, <2>3
<1> HIDE DEF T
<1>3. n \in T
  <2>1. T \in SUBSET Nat
    BY DEF T
  <2> QED
    BY <1>1, <1>2, <2>1, SetInduction
<1>4. \E i \in x : \A y \in x : i >= y
  BY <1>3 DEF T
<1>5. Max(x) \in x /\ \A y \in x : Max(x) >= y
  BY <1>4 DEF Max
<1> QED
  BY <1>5

\* The recursive function that FoldLeft stands for, on the sets up to n.
Peels(f, s, r, n) ==
  f = [x \in SUBSET (1..n) |->
         IF x = {} THEN s ELSE RemoveFirst(f[x \ {Max(x)}], r[Max(x)])]

\* There is such a function, for every n.
LEMMA PeelsExists ==
  ASSUME NEW s, NEW r, NEW n \in Nat
  PROVE  \E f : Peels(f, s, r, n)
<1> DEFINE T == {m \in Nat : \E f : Peels(f, s, r, m)}
<1>1. 0 \in T
  <2>1. SUBSET (1..0) = {{}}
    OBVIOUS
  <2>2. Peels([x \in {{}} |-> s], s, r, 0)
    BY <2>1 DEF Peels
  <2> QED
    BY <2>2
<1>2. ASSUME NEW m \in T PROVE m + 1 \in T
  <2>1. m \in Nat
    BY <1>2
  <2>2. PICK f : Peels(f, s, r, m)
    BY <1>2
  <2> DEFINE g == [x \in SUBSET (1..(m + 1)) |->
                     IF x = {} THEN s ELSE RemoveFirst(f[x \ {Max(x)}], r[Max(x)])]
  <2>3. ASSUME NEW x \in SUBSET (1..m) PROVE g[x] = f[x]
    <3>1. x \in SUBSET (1..(m + 1))
      BY <2>1
    <3>2. g[x] = IF x = {} THEN s ELSE RemoveFirst(f[x \ {Max(x)}], r[Max(x)])
      BY <3>1
    <3>3. f[x] = IF x = {} THEN s ELSE RemoveFirst(f[x \ {Max(x)}], r[Max(x)])
      BY <2>2 DEF Peels
    <3> QED
      BY <3>2, <3>3
  <2>4. ASSUME NEW x \in SUBSET (1..(m + 1)), x # {}
        PROVE  x \ {Max(x)} \in SUBSET (1..m)
    <3>1. m + 1 \in Nat
      BY <2>1
    <3>2. Max(x) \in x /\ \A y \in x : y <= Max(x)
      BY <2>4, <3>1, MaxOf
    <3>3. Max(x) \in 1..(m + 1)
      BY <3>2
    <3>4. ASSUME NEW y \in x, y # Max(x) PROVE y \in 1..m
      BY <2>1, <3>2, <3>3, <3>4
    <3> QED
      BY <3>4
  <2>5. ASSUME NEW x \in SUBSET (1..(m + 1)), x # {}
        PROVE  RemoveFirst(f[x \ {Max(x)}], r[Max(x)]) = RemoveFirst(g[x \ {Max(x)}], r[Max(x)])
    BY <2>3, <2>4, <2>5
  <2>6. g = [x \in SUBSET (1..(m + 1)) |->
               IF x = {} THEN s ELSE RemoveFirst(g[x \ {Max(x)}], r[Max(x)])]
    <3> DEFINE h == [x \in SUBSET (1..(m + 1)) |->
               IF x = {} THEN s ELSE RemoveFirst(g[x \ {Max(x)}], r[Max(x)])]
    <3>1. ASSUME NEW x \in SUBSET (1..(m + 1)) PROVE g[x] = h[x]
      BY <2>5
    <3> QED
      BY <3>1
  <2>7. Peels(g, s, r, m + 1)
    <3> HIDE DEF g
    <3> QED
      BY <2>6 DEF Peels
  <2> QED
    BY <2>1, <2>7
<1>3. T \in SUBSET Nat
  OBVIOUS
<1> HIDE DEF T
<1>4. n \in T
  BY <1>1, <1>2, <1>3, SetInduction
<1> QED
  BY <1>4 DEF T

\* remove_returned_tasks takes the tasks out one after the other.
LEMMA WithoutSteps ==
  ASSUME NEW s, NEW r \in Seq(Tasks)
  PROVE  \E f : /\ f[0] = s
                /\ \A k \in 0..(Len(r) - 1) : f[k + 1] = RemoveFirst(f[k], r[k + 1])
                /\ Without(s, r) = f[Len(r)]
<1> DEFINE n == Len(r)
           iter == CHOOSE f : Peels(f, s, r, n)
<1>1. n \in Nat /\ DOMAIN r = 1..n
  OBVIOUS
<1>2. Peels(iter, s, r, n)
  BY <1>1, PeelsExists
<1>3. Without(s, r) = iter[1..n]
  BY <1>1 DEF Without, FoldLeft, MapThenFoldSet, Peels
<1> HIDE DEF iter
<1> DEFINE f == [k \in 0..n |-> iter[1..k]]
<1>4. f[0] = s
  <2>1. 0 \in 0..n /\ 1..0 = {} /\ {} \in SUBSET (1..n)
    BY <1>1
  <2>2. iter[{}] = s
    BY <1>2, <2>1 DEF Peels
  <2> QED
    BY <2>1, <2>2
<1>5. ASSUME NEW k \in 0..(n - 1) PROVE f[k + 1] = RemoveFirst(f[k], r[k + 1])
  <2>1. k \in 0..n /\ k + 1 \in 0..n /\ k + 1 \in Nat
    BY <1>1
  <2>2. 1..(k + 1) \in SUBSET (1..n) /\ 1..(k + 1) # {}
    <3>1. \A i \in 1..(k + 1) : i \in 1..n
      BY <1>1
    <3>2. 1 \in 1..(k + 1)
      BY <1>1
    <3> QED
      BY <3>1, <3>2
  <2>3. Max(1..(k + 1)) = k + 1
    <3>1. /\ Max(1..(k + 1)) \in 1..(k + 1)
          /\ \A y \in 1..(k + 1) : y <= Max(1..(k + 1))
      BY <2>1, <2>2, MaxOf
    <3>2. k + 1 \in 1..(k + 1)
      BY <2>1
    <3> QED
      BY <2>1, <3>1, <3>2
  <2>4. (1..(k + 1)) \ {k + 1} = 1..k
    BY <1>1
  <2>5. iter[1..(k + 1)] = RemoveFirst(iter[1..k], r[k + 1])
    BY <1>2, <2>2, <2>3, <2>4 DEF Peels
  <2> QED
    BY <2>1, <2>5
<1>6. f[n] = iter[1..n]
  BY <1>1
<1> HIDE DEF f
<1> QED
  BY <1>3, <1>4, <1>5, <1>6

\* RemoveFirst takes out one entry, if there is one.
LEMMA RemoveFirstEntry ==
  ASSUME NEW s \in Seq(Tasks), NEW e, NEW j \in 1..Len(s), s[j] = e
  PROVE  \E k \in 1..Len(s) : s[k] = e /\ RemoveFirst(s, e) = RemoveAt(s, k)
<1> DEFINE I == {i \in 1..Len(s) : s[i] = e}
<1>1. I # {} /\ I \subseteq Nat
  OBVIOUS
<1>2. \E k \in I : \A i \in I : k =< i
  <2>1. PICK k \in I : \A i \in I : ~(<<i, k>> \in OpToRel(<, Nat))
    BY <1>1, NatLessThanWellFounded, WFMin
  <2>2. \A i \in I : ~(i < k)
    <3>1. \A i \in I : i \in Nat
      BY <1>1
    <3> HIDE DEF I
    <3> QED
      BY <2>1, <3>1 DEF OpToRel
  <2>3. \A i \in I : k =< i
    BY <2>2
  <2> QED
    BY <2>3
<1>3. Min(I) \in I
  BY <1>2 DEF Min
<1>4. RemoveFirst(s, e) = RemoveAt(s, Min(I))
  <2>1. \E i \in 1..Len(s) : s[i] = e
    OBVIOUS
  <2>2. RemoveFirst(s, e) = RemoveAt(s, SelectInSeq(s, LAMBDA v : v = e))
    BY <2>1 DEF RemoveFirst
  <2>3. SelectInSeq(s, LAMBDA v : v = e) = Min(I)
    BY <1>1 DEF SelectInSeq
  <2> QED
    BY <2>2, <2>3
<1> QED
  BY <1>3, <1>4

\* What is left of a list without its entry k.
LEMMA RemoveAtEntries ==
  ASSUME NEW s \in Seq(Tasks), NEW k \in 1..Len(s)
  PROVE  /\ RemoveAt(s, k) \in Seq(Tasks)
         /\ Len(RemoveAt(s, k)) = Len(s) - 1
         /\ \A i \in 1..(Len(s) - 1) : RemoveAt(s, k)[i] = IF i < k THEN s[i] ELSE s[i + 1]
<1> DEFINE a == SubSeq(s, 1, k - 1)
           b == SubSeq(s, k + 1, Len(s))
<1>1. a \in Seq(Tasks) /\ Len(a) = k - 1 /\ \A i \in 1..(k - 1) : a[i] = s[i]
  OBVIOUS
<1>2. b \in Seq(Tasks) /\ Len(b) = Len(s) - k /\ \A i \in 1..(Len(s) - k) : b[i] = s[k + i]
  OBVIOUS
<1> HIDE DEF a, b
<1>3. /\ a \o b \in Seq(Tasks) /\ Len(a \o b) = Len(a) + Len(b)
      /\ \A i \in 1..(Len(a) + Len(b)) : (a \o b)[i] = IF i <= Len(a) THEN a[i] ELSE b[i - Len(a)]
  <2>1. a \in Seq(Tasks) /\ b \in Seq(Tasks)
    BY <1>1, <1>2
  <2>2. a \o b \in Seq(Tasks)
    BY <2>1
  <2>3. Len(a \o b) = Len(a) + Len(b)
    BY <2>1
  <2>4. \A i \in 1..(Len(a) + Len(b)) : (a \o b)[i] = IF i <= Len(a) THEN a[i] ELSE b[i - Len(a)]
    BY <2>1
  <2> QED
    BY <2>2, <2>3, <2>4
<1>4. RemoveAt(s, k) = a \o b
  BY DEF RemoveAt, a, b
<1>5. Len(a) + Len(b) = Len(s) - 1
  BY <1>1, <1>2
<1>6. ASSUME NEW i \in 1..(Len(s) - 1)
      PROVE  (a \o b)[i] = IF i < k THEN s[i] ELSE s[i + 1]
  <2>1. CASE i < k
    BY <1>1, <1>3, <1>5, <2>1
  <2>2. CASE ~(i < k)
    <3>1. i - (k - 1) \in 1..(Len(s) - k) /\ k + (i - (k - 1)) = i + 1
      BY <2>2
    <3>2. (a \o b)[i] = b[i - (k - 1)]
      BY <1>1, <1>3, <1>5, <2>2
    <3> QED
      BY <1>2, <2>2, <3>1, <3>2
  <2> QED
    BY <2>1, <2>2
<1> QED
  BY <1>3, <1>4, <1>5, <1>6

\* What is left of a list is a list.
LEMMA RemoveFirstType ==
  ASSUME NEW s \in Seq(Tasks), NEW e
  PROVE  RemoveFirst(s, e) \in Seq(Tasks)
<1>1. CASE \E j \in 1..Len(s) : s[j] = e
  BY <1>1, RemoveFirstEntry, RemoveAtEntries
<1>2. CASE ~ \E j \in 1..Len(s) : s[j] = e
  BY <1>2 DEF RemoveFirst
<1> QED
  BY <1>1, <1>2

Entries(s, t) == {i \in 1..Len(s) : s[i] = t}

\* Copies counts entries.
LEMMA CopiesOf ==
  ASSUME NEW s \in Seq(Tasks), NEW t
  PROVE  /\ Copies(s, t) = Cardinality(Entries(s, t))
         /\ IsFiniteSet(Entries(s, t))
         /\ Copies(s, t) \in Nat
<1>1. Entries(s, t) = {i \in DOMAIN s : s[i] = t}
  BY DEF Entries
<1>2. IsFiniteSet(1..Len(s))
  BY FS_Interval
<1>3. IsFiniteSet(Entries(s, t))
  BY <1>2, FS_Subset DEF Entries
<1> QED
  BY <1>1, <1>3, FS_CardinalityType DEF Copies

\* A list without its entry k has one copy less of the task there.
LEMMA CopiesAfterRemoval ==
  ASSUME NEW s \in Seq(Tasks), NEW k \in 1..Len(s), NEW t
  PROVE  Copies(RemoveAt(s, k), t) = IF s[k] = t THEN Copies(s, t) - 1 ELSE Copies(s, t)
<1> DEFINE u == RemoveAt(s, k)
           E == Entries(s, t)
           F == Entries(u, t)
           f == [i \in F |-> IF i < k THEN i ELSE i + 1]
<1>1. /\ u \in Seq(Tasks) /\ Len(u) = Len(s) - 1 /\ Len(s) \in Nat
      /\ \A i \in 1..(Len(s) - 1) : u[i] = IF i < k THEN s[i] ELSE s[i + 1]
  BY RemoveAtEntries
<1> HIDE DEF u
<1>2. /\ IsFiniteSet(E) /\ Copies(s, t) = Cardinality(E) /\ Cardinality(E) \in Nat
      /\ IsFiniteSet(F) /\ Copies(u, t) = Cardinality(F)
  BY <1>1, CopiesOf
<1>3. \A i \in F : f[i] \in E \ {k}
  BY <1>1 DEF Entries
<1>4. \A i, j \in F : f[i] = f[j] => i = j
  BY <1>1 DEF Entries
<1>5. ASSUME NEW j \in E \ {k} PROVE \E i \in F : f[i] = j
  <2>1. CASE j < k
    <3>1. j \in F /\ f[j] = j
      BY <1>1, <1>5, <2>1 DEF Entries
    <3> QED
      BY <3>1
  <2>2. CASE ~(j < k)
    <3>1. j - 1 \in F /\ f[j - 1] = j
      BY <1>1, <1>5, <2>2 DEF Entries
    <3> QED
      BY <3>1
  <2> QED
    BY <2>1, <2>2
<1>6. f \in Bijection(F, E \ {k})
  BY <1>3, <1>4, <1>5 DEF Bijection, Injection, Surjection, IsInjective
<1>7. Cardinality(E \ {k}) = Cardinality(F)
  BY <1>2, <1>6, FS_Bijection DEF ExistsBijection
<1>8. k \in E <=> s[k] = t
  BY DEF Entries
<1> HIDE DEF E, F
<1>9. Cardinality(E \ {k}) = IF k \in E THEN Cardinality(E) - 1 ELSE Cardinality(E)
  BY <1>2, FS_RemoveElement
<1> QED
  BY <1>2, <1>7, <1>8, <1>9 DEF u

\* So it is when one task after the other is taken out.
LEMMA WithoutType ==
  ASSUME NEW s \in Seq(Tasks), NEW r \in Seq(Tasks)
  PROVE  Without(s, r) \in Seq(Tasks)
<1> DEFINE n == Len(r)
<1>1. PICK f : /\ f[0] = s
               /\ \A k \in 0..(n - 1) : f[k + 1] = RemoveFirst(f[k], r[k + 1])
               /\ Without(s, r) = f[n]
  BY WithoutSteps
<1>2. n \in Nat
  OBVIOUS
<1> HIDE DEF n
<1> DEFINE T == {k \in Nat : k <= n => f[k] \in Seq(Tasks)}
<1>3. 0 \in T
  BY <1>1
<1>4. ASSUME NEW k \in T PROVE k + 1 \in T
  <2>1. k \in Nat /\ (k <= n => f[k] \in Seq(Tasks))
    BY <1>4
  <2>2. ASSUME k + 1 <= n PROVE f[k + 1] \in Seq(Tasks)
    <3>1. k \in 0..(n - 1) /\ k <= n
      BY <1>2, <2>1, <2>2
    <3> QED
      BY <1>1, <2>1, <3>1, RemoveFirstType
  <2> QED
    BY <2>1, <2>2
<1>5. T \in SUBSET Nat
  OBVIOUS
<1> HIDE DEF T
<1>6. n \in T
  BY <1>2, <1>3, <1>4, <1>5, SetInduction
<1> QED
  BY <1>1, <1>2, <1>6 DEF T

\* Copies of t among the first k entries.
CopiesUpTo(s, k, t) == Cardinality({i \in 1..k : s[i] = t})

\* Counting goes entry by entry.
LEMMA CopiesUpToSteps ==
  ASSUME NEW s, NEW t, NEW k \in Nat
  PROVE  /\ CopiesUpTo(s, 0, t) = 0
         /\ CopiesUpTo(s, k, t) \in Nat
         /\ CopiesUpTo(s, k + 1, t) =
               IF s[k + 1] = t THEN CopiesUpTo(s, k, t) + 1 ELSE CopiesUpTo(s, k, t)
<1> DEFINE E == {i \in 1..k : s[i] = t}
<1>1. {i \in 1..0 : s[i] = t} = {}
  OBVIOUS
<1>2. IsFiniteSet(1..k)
  BY FS_Interval
<1>3. IsFiniteSet(E)
  BY <1>2, FS_Subset
<1>4. {i \in 1..(k + 1) : s[i] = t} = IF s[k + 1] = t THEN E \cup {k + 1} ELSE E
  <2>1. 1..(k + 1) = (1..k) \cup {k + 1}
    OBVIOUS
  <2> QED
    BY <2>1
<1>5. k + 1 \notin E
  OBVIOUS
<1>6. CopiesUpTo(s, k, t) = Cardinality(E)
  BY DEF CopiesUpTo
<1>7. CopiesUpTo(s, k + 1, t) = Cardinality(IF s[k + 1] = t THEN E \cup {k + 1} ELSE E)
  BY <1>4 DEF CopiesUpTo
<1>8. CopiesUpTo(s, 0, t) = 0
  BY <1>1, FS_EmptySet DEF CopiesUpTo
<1> HIDE DEF E
<1>9. Cardinality(E) \in Nat /\ Cardinality(E \cup {k + 1}) = Cardinality(E) + 1
  BY <1>3, <1>5, FS_CardinalityType, FS_AddElement
<1> QED
  BY <1>6, <1>7, <1>8, <1>9

\* More entries, no fewer copies.
LEMMA CopiesUpToGrows ==
  ASSUME NEW s, NEW t, NEW k \in Nat, NEW n \in Nat, k <= n
  PROVE  CopiesUpTo(s, k, t) <= CopiesUpTo(s, n, t)
<1>1. IsFiniteSet(1..n)
  BY FS_Interval
<1>2. IsFiniteSet({i \in 1..n : s[i] = t})
  BY <1>1, FS_Subset
<1>3. {i \in 1..k : s[i] = t} \in SUBSET {i \in 1..n : s[i] = t}
  OBVIOUS
<1> QED
  BY <1>2, <1>3, FS_Subset DEF CopiesUpTo

\* remove_returned_tasks takes out what is returned, if there are as many copies
\* of it in the list.
LEMMA WithoutCounts ==
  ASSUME NEW s \in Seq(Tasks), NEW r \in Seq(Tasks),
         \A t \in Tasks : Copies(r, t) <= Copies(s, t)
  PROVE  \A t \in Tasks : Copies(s, t) = Copies(Without(s, r), t) + Copies(r, t)
<1> DEFINE n == Len(r)
<1>1. PICK f : /\ f[0] = s
               /\ \A k \in 0..(n - 1) : f[k + 1] = RemoveFirst(f[k], r[k + 1])
               /\ Without(s, r) = f[n]
  BY WithoutSteps
<1>2. n \in Nat /\ \A t : Copies(r, t) = CopiesUpTo(r, n, t)
  <2>1. DOMAIN r = 1..n /\ n \in Nat
    OBVIOUS
  <2> QED
    BY <2>1 DEF Copies, CopiesUpTo
<1> HIDE DEF n
<1> DEFINE Removed(k) == /\ f[k] \in Seq(Tasks)
                         /\ \A t \in Tasks : Copies(s, t) = Copies(f[k], t) + CopiesUpTo(r, k, t)
           T == {k \in Nat : k <= n => Removed(k)}
<1>3. 0 \in T
  <2>1. \A t \in Tasks : CopiesUpTo(r, 0, t) = 0 /\ Copies(s, t) \in Nat
    BY CopiesOf, CopiesUpToSteps
  <2> QED
    BY <1>1, <2>1
<1>4. ASSUME NEW k \in T PROVE k + 1 \in T
  <2>1. k \in Nat /\ (k <= n => Removed(k))
    BY <1>4
  <2>2. ASSUME k + 1 <= n PROVE Removed(k + 1)
    <3> DEFINE e == r[k + 1]
    <3>1. k \in 0..(n - 1) /\ k <= n /\ k + 1 \in Nat /\ k + 1 \in 1..n
      BY <1>2, <2>1, <2>2
    <3>2. e \in Tasks
      BY <3>1 DEF n
    <3>3. f[k] \in Seq(Tasks) /\ f[k + 1] = RemoveFirst(f[k], e)
      BY <1>1, <2>1, <3>1
    <3> HIDE DEF e
    <3>4. \A t \in Tasks : /\ Copies(s, t) = Copies(f[k], t) + CopiesUpTo(r, k, t)
                           /\ Copies(f[k], t) \in Nat /\ CopiesUpTo(r, k, t) \in Nat
      BY <2>1, <3>1, <3>3, CopiesOf, CopiesUpToSteps
    <3>5. \A t \in Tasks : CopiesUpTo(r, k + 1, t) =
                             IF e = t THEN CopiesUpTo(r, k, t) + 1 ELSE CopiesUpTo(r, k, t)
      BY <2>1, CopiesUpToSteps DEF e
\* The task is still there: f[k] has all copies but those taken out before.
    <3>6. \E j \in 1..Len(f[k]) : f[k][j] = e
      <4>1. CopiesUpTo(r, k + 1, e) <= CopiesUpTo(r, n, e)
        BY <1>2, <2>2, <3>1, CopiesUpToGrows
      <4>2. CopiesUpTo(r, n, e) <= Copies(s, e)
        BY <1>2, <3>2
      <4>3. Copies(f[k], e) # 0
        <5>1. Copies(s, e) \in Nat /\ CopiesUpTo(r, n, e) \in Nat
          BY <1>2, CopiesOf, CopiesUpToSteps
        <5> QED
          BY <3>2, <3>4, <3>5, <4>1, <4>2, <5>1
      <4>4. Entries(f[k], e) # {}
        BY <3>3, <4>3, CopiesOf, FS_EmptySet
      <4> QED
        BY <4>4 DEF Entries
    <3>7. PICK j \in 1..Len(f[k]) : f[k][j] = e /\ RemoveFirst(f[k], e) = RemoveAt(f[k], j)
      BY <3>3, <3>6, RemoveFirstEntry
    <3>8. \A t \in Tasks : Copies(f[k + 1], t) = IF e = t THEN Copies(f[k], t) - 1 ELSE Copies(f[k], t)
      BY <3>3, <3>7, CopiesAfterRemoval
    <3>9. f[k + 1] \in Seq(Tasks)
      BY <3>3, RemoveFirstType
    <3>10. ASSUME NEW t \in Tasks
           PROVE  Copies(s, t) = Copies(f[k + 1], t) + CopiesUpTo(r, k + 1, t)
      <4>1. /\ Copies(s, t) = Copies(f[k], t) + CopiesUpTo(r, k, t)
            /\ Copies(f[k], t) \in Nat /\ CopiesUpTo(r, k, t) \in Nat
        BY <3>4
      <4>2. CASE e = t
        <5>1. /\ CopiesUpTo(r, k + 1, t) = CopiesUpTo(r, k, t) + 1
              /\ Copies(f[k + 1], t) = Copies(f[k], t) - 1
          BY <3>5, <3>8, <4>2
        <5> QED
          BY <4>1, <5>1
      <4>3. CASE e # t
        <5>1. /\ CopiesUpTo(r, k + 1, t) = CopiesUpTo(r, k, t)
              /\ Copies(f[k + 1], t) = Copies(f[k], t)
          BY <3>5, <3>8, <4>3
        <5> QED
          BY <4>1, <5>1
      <4> QED
        BY <4>2, <4>3
    <3> QED
      BY <3>9, <3>10
  <2> QED
    BY <2>1, <2>2
<1>5. T \in SUBSET Nat
  OBVIOUS
<1> HIDE DEF T
<1>6. n \in T
  BY <1>2, <1>3, <1>4, <1>5, SetInduction
<1>7. Removed(n)
  BY <1>2, <1>6 DEF T
<1> QED
  BY <1>1, <1>2, <1>7

\* A list with one entry more has one copy more of the task there.
LEMMA CopiesAfterAppend ==
  ASSUME NEW s \in Seq(Tasks), NEW e \in Tasks, NEW t
  PROVE  Copies(Append(s, e), t) = IF e = t THEN Copies(s, t) + 1 ELSE Copies(s, t)
<1> DEFINE n == Len(s)
           u == Append(s, e)
<1>1. /\ n \in Nat /\ DOMAIN s = 1..n /\ DOMAIN u = 1..(n + 1)
      /\ u[n + 1] = e /\ \A i \in 1..n : u[i] = s[i]
  OBVIOUS
<1> HIDE DEF n, u
<1>2. {i \in 1..n : u[i] = t} = {i \in 1..n : s[i] = t}
  BY <1>1
<1>3. Copies(s, t) = CopiesUpTo(u, n, t) /\ Copies(u, t) = CopiesUpTo(u, n + 1, t)
  BY <1>1, <1>2 DEF Copies, CopiesUpTo
<1>4. CopiesUpTo(u, n + 1, t) =
        IF e = t THEN CopiesUpTo(u, n, t) + 1 ELSE CopiesUpTo(u, n, t)
  BY <1>1, CopiesUpToSteps
<1>5. u = Append(s, e)
  BY DEF u
<1> QED
  BY <1>3, <1>4, <1>5

----------------------------------------------------------------------------
(* The invariant. *)

Labels == Outside \cup Waiting \cup {"run", "run it", "cancel", "fire run", "fire cancel"}
Registering == {"register", "sleep", "unregister"}
Collecting == {"canceled", "done", "timed", "polled", "clock", "returned"}
Ended(t) == state[t] \in FinalStates

\* A fire that nobody runs has called everybody, a task that runs has its worker,
\* and only workers that ended hold a task in the name of a worker.
TaskInv ==
  /\ state \in [Tasks -> States]
  /\ active \in [Tasks -> BOOLEAN]
  /\ setter \in [Tasks -> Containers \cup {Nobody, "worker", "application"}]
  /\ callbacks \in [Tasks -> SUBSET Cookies]
  /\ pending \in [Tasks -> SUBSET Cookies]
  /\ \A t \in Tasks : pending[t] \subseteq callbacks[t]
  /\ \A t \in Tasks : setter[t] = Nobody => pending[t] = {}
  /\ \A t \in Tasks : setter[t] = Nobody /\ state[t] = "Running" => active[t]
  /\ \A t \in Tasks : setter[t] = "worker" => state[t] \in {"Done", "Failed"}

ClientTypes ==
  /\ list \in [Containers -> Seq(Tasks)]
  /\ pc \in [Containers -> Labels]
  /\ wait \in [Containers -> Waits]
  /\ at \in [Containers -> Nat \ {0}]
  /\ ret \in [Containers -> Seq(Tasks)]

\* Where a client is tells how far its loop has come.
Place(c) ==
  /\ at[c] <= Len(list[c]) + 1
  /\ pc[c] \in Outside => at[c] = 1
  /\ pc[c] \in {"run it", "fire run", "fire cancel", "join"} => at[c] <= Len(list[c])
  /\ pc[c] \in Registering \cup {"finished"} => wait[c][1] = "Any"

\* While wait registers, sleeps and unregisters, its callbacks are on the
\* entries of the list it has passed, or has still to come to.
Registrations(c) ==
  \A t \in Tasks, i \in Nat : <<c, i>> \in callbacks[t] =>
    /\ pc[c] \in Registering
    /\ i \in 1..Len(list[c])
    /\ list[c][i] = t
    /\ pc[c] = "register" => i < at[c]
    /\ pc[c] = "unregister" => i >= at[c]

\* What wait(All) has collected, or has passed on its way, has ended.
Finished(c) ==
  /\ pc[c] \in Collecting /\ wait[c][1] = "All" =>
       \A i \in 1..Len(ret[c]) : Ended(ret[c][i])
  /\ pc[c] \in {"all", "join"} =>
       \A i \in 1..Len(list[c]) : i < at[c] => Ended(list[c][i])
  /\ pc[c] = "join" => active[Here(c)] \/ Ended(Here(c))

ClientInv(c) == Place(c) /\ Registrations(c) /\ Finished(c)

ContainerInv == TaskInv /\ ClientTypes /\ \A c \in Containers : ClientInv(c)

USE DEF States, FinalStates, Labels, Outside, Waiting, Scans, Registering, Collecting

----------------------------------------------------------------------------
(* The tasks. *)

\* What no step undoes: the end of a task, and a worker until its task has ended.
Progress ==
  \A t \in Tasks : /\ Ended(t) => Ended(t)'
                   /\ active[t] => active'[t] \/ Ended(t)'

\* set_state, by somebody who may set that state.
LEMMA SetStateKeeps ==
  ASSUME TaskInv, NEW t \in Tasks, NEW s \in {"Running", "Done", "Canceled", "Failed"},
         NEW by \in Containers \cup {"worker", "application"},
         SetState(t, s, by), s = "Running" => state[t] = "New",
         by = "worker" => s \in {"Done", "Failed"}
  PROVE  TaskInv' /\ Progress /\ UNCHANGED callbacks
<1> USE DEF SetState
<1>1. by # Nobody
  BY TaskContainerAssumption DEF TaskContainerAssumption
<1>2. \A u \in Tasks : /\ state'[u] = IF u = t THEN s ELSE state[u]
                       /\ setter'[u] = IF u = t THEN by ELSE setter[u]
                       /\ pending'[u] = IF u = t THEN callbacks[u] ELSE pending[u]
  BY DEF TaskInv
<1>3. state' \in [Tasks -> States]
  BY DEF TaskInv
<1>4. setter' \in [Tasks -> Containers \cup {Nobody, "worker", "application"}]
  BY DEF TaskInv
<1>5. pending' \in [Tasks -> SUBSET Cookies]
  BY DEF TaskInv
<1>6. TaskInv'
  BY <1>1, <1>2, <1>3, <1>4, <1>5 DEF TaskInv
<1>7. Progress
  BY <1>2 DEF Progress, Ended
<1> QED
  BY <1>6, <1>7

\* The callback of a container: it takes itself off the list of the fire, and
\* off the metric when the task has ended.
LEMMA StateChangedKeeps ==
  ASSUME TaskInv, NEW t \in Tasks, NEW cookie, StateChanged(t, cookie)
  PROVE  /\ TaskInv' /\ Progress /\ UNCHANGED clientVars
         /\ \A u \in Tasks : callbacks'[u] \subseteq callbacks[u]
<1> USE DEF StateChanged
<1>1. \A u \in Tasks : /\ pending'[u] = IF u = t THEN pending[u] \ {cookie} ELSE pending[u]
                       /\ callbacks'[u] = IF u = t /\ state[t] # "Running"
                                          THEN callbacks[u] \ {cookie} ELSE callbacks[u]
  BY DEF TaskInv
<1>2. pending' \in [Tasks -> SUBSET Cookies] /\ callbacks' \in [Tasks -> SUBSET Cookies]
  BY DEF TaskInv
<1>3. TaskInv'
  BY <1>1, <1>2 DEF TaskInv
<1> QED
  BY <1>1, <1>3 DEF Progress, Ended

\* The end of a fire.
LEMMA FireEndsKeeps ==
  ASSUME TaskInv, NEW t \in Tasks, FireEnds(t)
  PROVE  TaskInv' /\ Progress /\ UNCHANGED <<callbacks, clientVars>>
<1> USE DEF FireEnds
<1>1. \A u \in Tasks : setter'[u] = IF u = t THEN Nobody ELSE setter[u]
  BY DEF TaskInv
<1>2. \A u \in Tasks : u # t => active'[u] = active[u]
  BY DEF TaskInv
<1>3. setter[t] = "worker" => active'[t] = FALSE /\ state[t] \in {"Done", "Failed"}
  BY DEF TaskInv
<1>4. ASSUME setter[t] # "worker", active[t] \/ state[t] = "Running" PROVE active'[t]
  BY <1>4 DEF TaskInv
<1>5. active' \in [Tasks -> BOOLEAN]
  BY DEF TaskInv
<1>6. setter' \in [Tasks -> Containers \cup {Nobody, "worker", "application"}]
  BY DEF TaskInv
<1>7. Nobody # "worker"
  BY TaskContainerAssumption DEF TaskContainerAssumption
<1>8. \A u \in Tasks : setter'[u] = Nobody /\ state[u] = "Running" => active'[u]
  BY <1>1, <1>2, <1>3, <1>4 DEF TaskInv
<1>9. TaskInv'
  BY <1>1, <1>5, <1>6, <1>7, <1>8 DEF TaskInv
<1>10. Progress
  BY <1>2, <1>3, <1>4 DEF Progress, Ended
<1> QED
  BY <1>9, <1>10

----------------------------------------------------------------------------
(* The clients. *)

\* A client whose own variables are left alone, and that loses at most callbacks,
\* keeps its part of the invariant.
LEMMA OthersKeep ==
  ASSUME NEW c \in Containers, ClientInv(c), Progress, ClientTypes,
         list'[c] = list[c], pc'[c] = pc[c], wait'[c] = wait[c],
         at'[c] = at[c], ret'[c] = ret[c],
         \A t \in Tasks, i \in Nat : <<c, i>> \in callbacks'[t] => <<c, i>> \in callbacks[t]
  PROVE  ClientInv(c)'
<1>1. Place(c)'
  BY DEF ClientInv, Place
<1>2. Registrations(c)'
  BY DEF ClientInv, Registrations
<1>3. list[c] \in Seq(Tasks) /\ ret[c] \in Seq(Tasks) /\ at[c] \in Nat \ {0}
  BY DEF ClientTypes
<1>4. Finished(c)'
  <2>1. \A i \in 1..Len(list[c]) : Ended(list[c][i]) => Ended(list[c][i])'
    BY <1>3 DEF Progress
  <2>2. \A i \in 1..Len(ret[c]) : Ended(ret[c][i]) => Ended(ret[c][i])'
    BY <1>3 DEF Progress
  <2>3. pc[c] = "join" => Here(c) \in Tasks /\ Here(c)' = Here(c)
    BY <1>3 DEF ClientInv, Place, Here
  <2>4. pc[c] = "join" => active'[Here(c)] \/ Ended(Here(c))'
    BY <2>3 DEF ClientInv, Finished, Progress
  <2> QED
    BY <2>1, <2>2, <2>3, <2>4, <1>3 DEF ClientInv, Finished, Ended
<1> QED
  BY <1>1, <1>2, <1>4 DEF ClientInv

\* Steps of tasks leave the clients alone.
LEMMA TasksKeep ==
  ASSUME ContainerInv, NEW t \in Tasks,
         RunTask(t) \/ CancelTask(t) \/ WorkerEnds(t) \/ TaskStep(t)
  PROVE  ContainerInv'
<1>1. /\ TaskInv' /\ Progress /\ UNCHANGED clientVars
      /\ \A u \in Tasks : callbacks'[u] \subseteq callbacks[u]
  <2>1. CASE RunTask(t)
    BY <2>1, SetStateKeeps DEF RunTask, ContainerInv
  <2>2. CASE CancelTask(t)
    BY <2>2, SetStateKeeps DEF CancelTask, ContainerInv
  <2>3. CASE WorkerEnds(t)
    BY <2>3, SetStateKeeps DEF WorkerEnds, ContainerInv
  <2>4. CASE TaskStep(t)
    BY <2>4, StateChangedKeeps, FireEndsKeeps DEF TaskStep, ContainerInv
  <2> QED
    BY <2>1, <2>2, <2>3, <2>4
<1>2. ClientTypes'
  BY <1>1 DEF clientVars, ContainerInv, ClientTypes
<1>3. ASSUME NEW c \in Containers PROVE ClientInv(c)'
  BY <1>1, OthersKeep DEF clientVars, ContainerInv
<1> QED
  BY <1>1, <1>2, <1>3 DEF ContainerInv

\* A client's step, from what it does to the client's own entries.
LEMMA ClientKeeps ==
  ASSUME ContainerInv, TaskInv', Progress, NEW c \in Containers,
         NEW l \in Seq(Tasks), list' = [list EXCEPT ![c] = l],
         NEW p \in Labels, pc' = [pc EXCEPT ![c] = p],
         NEW w \in Waits, wait' = [wait EXCEPT ![c] = w],
         NEW a \in Nat \ {0}, at' = [at EXCEPT ![c] = a],
         NEW r \in Seq(Tasks), ret' = [ret EXCEPT ![c] = r],
         \A d \in Containers \ {c}, t \in Tasks, i \in Nat :
           <<d, i>> \in callbacks'[t] => <<d, i>> \in callbacks[t],
         list'[c] = l /\ pc'[c] = p /\ wait'[c] = w /\ at'[c] = a /\ ret'[c] = r
           => ClientInv(c)'
  PROVE  ContainerInv'
<1>1. ClientTypes
  BY DEF ContainerInv
<1>2. ClientTypes'
  BY <1>1 DEF ClientTypes
<1>3. list'[c] = l /\ pc'[c] = p /\ wait'[c] = w /\ at'[c] = a /\ ret'[c] = r
  BY <1>1 DEF ClientTypes
<1>4. ASSUME NEW d \in Containers, d # c PROVE ClientInv(d)'
  <2>1. /\ list'[d] = list[d] /\ pc'[d] = pc[d] /\ wait'[d] = wait[d]
        /\ at'[d] = at[d] /\ ret'[d] = ret[d]
    BY <1>1, <1>4 DEF ClientTypes
  <2>2. ClientInv(d)
    BY DEF ContainerInv
  <2> QED
    BY <1>1, <1>4, <2>1, <2>2, OthersKeep
<1> QED
  BY <1>2, <1>3, <1>4 DEF ContainerInv

\* The same, when nothing happens to the tasks.
LEMMA Untouched ==
  ASSUME TaskInv, UNCHANGED taskVars
  PROVE  /\ TaskInv' /\ Progress
         /\ \A t \in Tasks : Ended(t)' <=> Ended(t)
         /\ \A t \in Tasks : \A e : e \in callbacks'[t] => e \in callbacks[t]
  BY DEF TaskInv, taskVars, Progress, Ended

NoCallbacks(c) == \A t \in Tasks, i \in Nat : <<c, i>> \notin callbacks[t]

\* Only who registers, sleeps or unregisters has callbacks.
LEMMA CallbacksHere ==
  ASSUME ContainerInv, NEW c \in Containers, pc[c] \notin Registering
  PROVE  NoCallbacks(c)
  BY DEF ContainerInv, ClientInv, Registrations, NoCallbacks

\* The start of a loop over the list.
LEMMA LoopKeeps ==
  ASSUME ContainerInv, NEW c \in Containers, NEW label \in Scans \cup {"all", "register", "unregister", "run", "cancel"},
         Loop(c, label), UNCHANGED <<taskVars, list>>,
         NEW w \in Waits, wait' = [wait EXCEPT ![c] = w],
         label \in {"register", "unregister", "finished"} => w[1] = "Any",
         NoCallbacks(c) \/ (pc[c] = "sleep" /\ label = "unregister")
  PROVE  ContainerInv'
<1> DEFINE p == IF list[c] = <<>> THEN "threw" ELSE label
<1>1. /\ pc' = [pc EXCEPT ![c] = p]
      /\ list' = [list EXCEPT ![c] = list[c]]
      /\ at' = [at EXCEPT ![c] = 1]
      /\ ret' = [ret EXCEPT ![c] = <<>>]
      /\ list[c] \in Seq(Tasks)
  BY DEF Loop, Go, ContainerInv, ClientTypes
<1>2. p \in Labels /\ <<>> \in Seq(Tasks)
  <2>1. label \in Labels /\ "threw" \in Labels
    OBVIOUS
  <2> HIDE DEF Labels
  <2> QED
    BY <2>1
<1>3. ClientInv(c) /\ TaskInv
  BY DEF ContainerInv
<1>4. ASSUME list'[c] = list[c], pc'[c] = p, wait'[c] = w, at'[c] = 1, ret'[c] = <<>>
      PROVE  ClientInv(c)'
  <2>1. Place(c)'
    <3>1. Len(list[c]) \in Nat
      BY <1>1
    <3>2. p \in {"register", "unregister", "finished"} => w[1] = "Any"
      OBVIOUS
    <3>3. p \notin {"run it", "fire run", "fire cancel", "join", "sleep"}
      OBVIOUS
    <3> HIDE DEF p
    <3>4. at'[c] <= Len(list'[c]) + 1
      BY <1>4, <3>1
    <3>5. pc'[c] \in Registering \cup {"finished"} => wait'[c][1] = "Any"
      BY <1>4, <3>2, <3>3
    <3>6. pc'[c] \notin {"run it", "fire run", "fire cancel", "join"}
      BY <1>4, <3>3
    <3> QED
      BY <1>4, <3>4, <3>5, <3>6 DEF Place
  <2>2. Registrations(c)'
    <3>1. CASE NoCallbacks(c)
      BY <3>1 DEF Registrations, NoCallbacks, taskVars
    <3>2. CASE pc[c] = "sleep" /\ label = "unregister"
      BY <1>1, <1>3, <1>4, <3>2 DEF Registrations, ClientInv, taskVars
    <3> QED
      BY <3>1, <3>2
  <2>3. Finished(c)'
    BY <1>1, <1>4 DEF Finished
  <2> QED
    BY <2>1, <2>2, <2>3 DEF ClientInv
<1>5. /\ TaskInv' /\ Progress
      /\ \A d \in Containers \ {c}, t \in Tasks, i \in Nat :
           <<d, i>> \in callbacks'[t] => <<d, i>> \in callbacks[t]
  BY <1>3, Untouched
<1>6. p \in Labels /\ list[c] \in Seq(Tasks) /\ <<>> \in Seq(Tasks) /\ 1 \in Nat \ {0}
  <2> HIDE DEF Labels, p
  <2> QED
    BY <1>1, <1>2
<1>7. list'[c] = list[c] /\ pc'[c] = p /\ wait'[c] = w /\ at'[c] = 1 /\ ret'[c] = <<>>
        => ClientInv(c)'
  BY <1>4
<1> HIDE DEF p
<1> QED
  BY <1>1, <1>5, <1>6, <1>7, ClientKeeps

\* wait() hands over what it has collected.
LEMMA HandOverKeeps ==
  ASSUME ContainerInv, NEW c \in Containers, pc[c] \in Scans, HandOver(c)
  PROVE  ContainerInv'
<1>1. /\ TaskInv /\ ClientInv(c)
      /\ list[c] \in Seq(Tasks) /\ ret[c] \in Seq(Tasks) /\ wait[c] \in Waits
  BY DEF ContainerInv, ClientTypes
<1>2. /\ ret' = [ret EXCEPT ![c] = ret[c]] /\ wait' = [wait EXCEPT ![c] = wait[c]]
      /\ list' = [list EXCEPT ![c] = Without(list[c], ret[c])]
      /\ pc' = [pc EXCEPT ![c] = "returned"] /\ at' = [at EXCEPT ![c] = 1]
      /\ UNCHANGED taskVars
  BY DEF HandOver, Leave, Go, ContainerInv, ClientTypes
<1>3. Without(list[c], ret[c]) \in Seq(Tasks)
  BY <1>1, WithoutType
<1>4. NoCallbacks(c)
  BY CallbacksHere
<1>5. ASSUME list'[c] = Without(list[c], ret[c]), pc'[c] = "returned",
             wait'[c] = wait[c], at'[c] = 1, ret'[c] = ret[c]
      PROVE  ClientInv(c)'
  <2>0. Len(list'[c]) \in Nat
    BY <1>3, <1>5
  <2>1. Place(c)'
    <3>1. at'[c] <= Len(list'[c]) + 1
      BY <1>5, <2>0
    <3> QED
      BY <1>5, <3>1 DEF Place
  <2>2. Registrations(c)'
    BY <1>2, <1>4 DEF Registrations, NoCallbacks, taskVars
  <2>3. Finished(c)'
    BY <1>1, <1>2, <1>5 DEF Finished, ClientInv, Place, Ended, taskVars
  <2> QED
    BY <2>1, <2>2, <2>3 DEF ClientInv
<1>6. /\ TaskInv' /\ Progress
      /\ \A d \in Containers \ {c}, t \in Tasks, i \in Nat :
           <<d, i>> \in callbacks'[t] => <<d, i>> \in callbacks[t]
  BY <1>1, <1>2, Untouched
<1>7. "returned" \in Labels /\ 1 \in Nat \ {0}
  OBVIOUS
<1>8. list'[c] = Without(list[c], ret[c]) /\ pc'[c] = "returned" /\ wait'[c] = wait[c]
        /\ at'[c] = 1 /\ ret'[c] = ret[c] => ClientInv(c)'
  BY <1>5
<1> QED
  BY <1>1, <1>2, <1>3, <1>6, <1>7, <1>8, ClientKeeps, ZenonT(30)

\* The rest of a client's steps that leave the tasks alone, and its list or what
\* it has collected.
LEMMA StepKeeps ==
  ASSUME ContainerInv, NEW c \in Containers, UNCHANGED <<taskVars, wait>>,
         NEW l \in Seq(Tasks), list' = [list EXCEPT ![c] = l],
         NEW p \in Labels, pc' = [pc EXCEPT ![c] = p],
         NEW a \in Nat \ {0}, at' = [at EXCEPT ![c] = a],
         NEW r \in Seq(Tasks), ret' = [ret EXCEPT ![c] = r],
         list'[c] = l /\ pc'[c] = p /\ wait'[c] = wait[c] /\ at'[c] = a /\ ret'[c] = r
           => Place(c)' /\ Registrations(c)' /\ Finished(c)'
  PROVE  ContainerInv'
<1>1. wait[c] \in Waits /\ wait' = [wait EXCEPT ![c] = wait[c]]
  BY DEF ContainerInv, ClientTypes
<1>2. TaskInv
  BY DEF ContainerInv
<1>3. /\ TaskInv' /\ Progress
      /\ \A d \in Containers \ {c}, t \in Tasks, i \in Nat :
           <<d, i>> \in callbacks'[t] => <<d, i>> \in callbacks[t]
  BY <1>2, Untouched
<1>4. list'[c] = l /\ pc'[c] = p /\ wait'[c] = wait[c] /\ at'[c] = a /\ ret'[c] = r
        => ClientInv(c)'
  BY DEF ClientInv
<1> QED
  BY <1>1, <1>3, <1>4, ClientKeeps

\* Scans over the list.
LEMMA LookKeeps ==
  ASSUME ContainerInv, NEW c \in Containers, Look(c)
  PROVE  ContainerInv'
<1> DEFINE t == list[c][at[c]]
           r == IF Collected(pc[c], state[t]) THEN Append(ret[c], t) ELSE ret[c]
<1>1. /\ list[c] \in Seq(Tasks) /\ ret[c] \in Seq(Tasks) /\ at[c] \in Nat \ {0}
      /\ pc[c] \in Scans
  BY DEF Look, ContainerInv, ClientTypes
<1>0. at[c] <= Len(list[c]) /\ UNCHANGED <<taskVars, wait>>
  BY DEF Look, More
<1>2. t \in Tasks /\ at[c] + 1 \in Nat \ {0}
  BY <1>0, <1>1
<1>3. r \in Seq(Tasks)
  BY <1>1, <1>2
<1>4. /\ list' = [list EXCEPT ![c] = list[c]] /\ pc' = [pc EXCEPT ![c] = pc[c]]
      /\ at' = [at EXCEPT ![c] = at[c] + 1] /\ ret' = [ret EXCEPT ![c] = r]
  BY DEF Look, Next1, Here, ContainerInv, ClientTypes
<1>5. ClientInv(c)
  BY DEF ContainerInv
<1>6. ASSUME list'[c] = list[c], pc'[c] = pc[c], wait'[c] = wait[c],
             at'[c] = at[c] + 1, ret'[c] = r
      PROVE  Place(c)' /\ Registrations(c)' /\ Finished(c)'
  <2>1. Place(c)'
    <3>1. at'[c] <= Len(list'[c]) + 1
      BY <1>0, <1>1, <1>6
    <3>2. pc'[c] \in Scans
      BY <1>1, <1>6
    <3>3. pc'[c] = "finished" => wait'[c][1] = "Any"
      BY <1>5, <1>6 DEF ClientInv, Place
    <3> QED
      BY <3>1, <3>2, <3>3 DEF Place
  <2>2. Registrations(c)'
    BY <1>0, <1>1, <1>6, CallbacksHere DEF NoCallbacks, Registrations, taskVars
  <2>3. ASSUME pc[c] \in Collecting, wait[c][1] = "All", NEW i \in 1..Len(r)
        PROVE  Ended(r[i])
    <3>1. CASE i \in 1..Len(ret[c])
      <4>1. r[i] = ret[c][i]
        BY <1>1, <1>2, <3>1
      <4> QED
        BY <1>5, <2>3, <3>1, <4>1 DEF ClientInv, Finished
    <3>2. CASE i \notin 1..Len(ret[c])
      <4>1. r[i] = t /\ Collected(pc[c], state[t])
        BY <1>1, <1>2, <2>3, <3>2
      <4>2. state[t] \in {"Canceled", "Done"}
        BY <2>3, <4>1 DEF Collected
      <4> QED
        BY <4>1, <4>2 DEF Ended
    <3> QED
      BY <3>1, <3>2
  <2>4. Finished(c)'
    <3> HIDE DEF t, r
    <3> QED
      BY <1>0, <1>1, <1>6, <2>3 DEF Finished, Ended, taskVars
  <2> QED
    BY <2>1, <2>2, <2>4
<1>7. list'[c] = list[c] /\ pc'[c] = pc[c] /\ wait'[c] = wait[c]
      /\ at'[c] = at[c] + 1 /\ ret'[c] = r
        => Place(c)' /\ Registrations(c)' /\ Finished(c)'
  BY <1>6
<1> HIDE DEF t, r
<1> QED
  BY <1>0, <1>1, <1>2, <1>3, <1>4, <1>7, StepKeeps

\* A step that only moves the client to another label, or on in its list.
LEMMA GoKeeps ==
  ASSUME ContainerInv, NEW c \in Containers, UNCHANGED <<taskVars, list, wait, ret>>,
         NEW p \in Labels, pc' = [pc EXCEPT ![c] = p],
         NEW a \in Nat \ {0}, at' = [at EXCEPT ![c] = a],
         pc'[c] = p /\ at'[c] = a => Place(c)' /\ Registrations(c)' /\ Finished(c)'
  PROVE  ContainerInv'
<1>1. /\ list[c] \in Seq(Tasks) /\ ret[c] \in Seq(Tasks)
      /\ list' = [list EXCEPT ![c] = list[c]] /\ ret' = [ret EXCEPT ![c] = ret[c]]
  BY DEF ContainerInv, ClientTypes
<1>2. list'[c] = list[c] /\ pc'[c] = p /\ wait'[c] = wait[c] /\ at'[c] = a /\ ret'[c] = ret[c]
        => Place(c)' /\ Registrations(c)' /\ Finished(c)'
  OBVIOUS
<1>3. UNCHANGED <<taskVars, wait>>
  OBVIOUS
<1> QED
  BY <1>1, <1>2, <1>3, StepKeeps

\* The calls of the application.
LEMMA CallKeeps ==
  ASSUME ContainerInv, NEW c \in Containers, ClientCall(c)
  PROVE  ContainerInv'
<1>1. pc[c] \in Outside
  BY DEF ClientCall, AddTask, RemoveTask, Run, Cancel, Wait
<1>2. NoCallbacks(c)
  BY <1>1, CallbacksHere
<1>3. /\ list[c] \in Seq(Tasks) /\ wait[c] \in Waits /\ at[c] = 1
      /\ at' = at => at' = [at EXCEPT ![c] = 1]
      /\ wait' = wait => wait' = [wait EXCEPT ![c] = wait[c]]
  BY <1>1 DEF ContainerInv, ClientTypes, ClientInv, Place
\* add_task and remove_task, whichever way the list changes.
<1>4. ASSUME NEW l \in Seq(Tasks), list' = [list EXCEPT ![c] = l],
             NEW p \in {"idle", "threw"}, Go(c, p), ret' = [ret EXCEPT ![c] = <<>>],
             UNCHANGED <<taskVars, wait, at>>
      PROVE  ContainerInv'
  <2>0. p \in {"idle", "threw"} /\ l \in Seq(Tasks)
    BY <1>4
  <2>1. p \in Labels
    BY <2>0
  <2>6. <<>> \in Seq(Tasks) /\ 1 \in Nat \ {0}
    OBVIOUS
  <2>7. Len(l) \in Nat
    BY <2>0
  <2>2. pc' = [pc EXCEPT ![c] = p] /\ at' = [at EXCEPT ![c] = 1]
    BY <1>3, <1>4 DEF Go
  <2>3. ASSUME list'[c] = l, pc'[c] = p, wait'[c] = wait[c], at'[c] = 1, ret'[c] = <<>>
        PROVE  Place(c)' /\ Registrations(c)' /\ Finished(c)'
    <3>1. at'[c] <= Len(list'[c]) + 1
      BY <2>3, <2>7
    <3>2. Place(c)'
      BY <2>3, <3>1 DEF Place
    <3>3. Registrations(c)'
      BY <1>2, <1>4 DEF Registrations, NoCallbacks, taskVars
    <3>4. Finished(c)'
      BY <2>3 DEF Finished
    <3> QED
      BY <3>2, <3>3, <3>4
  <2>4. list'[c] = l /\ pc'[c] = p /\ wait'[c] = wait[c] /\ at'[c] = 1 /\ ret'[c] = <<>>
          => Place(c)' /\ Registrations(c)' /\ Finished(c)'
    BY <2>3
  <2>5. UNCHANGED <<taskVars, wait>>
    BY <1>4
  <2> QED
    BY <2>0, <1>4, <2>1, <2>2, <2>4, <2>5, <2>6, StepKeeps
<1>5. ASSUME NEW t \in Tasks, AddTask(c, t) PROVE ContainerInv'
  <2>1. Append(list[c], t) \in Seq(Tasks)
    BY <1>3
  <2>2. /\ list' = [list EXCEPT ![c] = Append(list[c], t)] /\ Go(c, "idle")
        /\ ret' = [ret EXCEPT ![c] = <<>>] /\ UNCHANGED <<taskVars, wait, at>>
    BY <1>5 DEF AddTask
  <2> QED
    BY <1>4, <2>1, <2>2
<1>6. ASSUME NEW t \in Tasks, RemoveTask(c, t) PROVE ContainerInv'
  <2>1. RemoveFirst(list[c], t) \in Seq(Tasks)
    BY <1>3, RemoveFirstType
  <2>2. /\ list' = [list EXCEPT ![c] = RemoveFirst(list[c], t)]
        /\ Go(c, "idle") \/ Go(c, "threw")
        /\ ret' = [ret EXCEPT ![c] = <<>>] /\ UNCHANGED <<taskVars, wait, at>>
    BY <1>6 DEF RemoveTask
  <2> QED
    BY <1>4, <2>1, <2>2
<1>7. CASE Run(c) \/ Cancel(c) \/ \E w \in Waits : Wait(c, w)
  <2>1. PICK label \in {"run", "cancel", "canceled"} : Loop(c, label)
    BY <1>7 DEF Run, Cancel, Wait
  <2>2. PICK w \in Waits : wait' = [wait EXCEPT ![c] = w]
    BY <1>3, <1>7 DEF Run, Cancel, Wait
  <2>3. UNCHANGED <<taskVars, list>>
    BY <1>7 DEF Run, Cancel, Wait
  <2>4. /\ label \in Scans \cup {"all", "register", "unregister", "run", "cancel"}
        /\ label \notin {"register", "unregister", "finished"}
    BY <2>1
  <2>5. label \in {"register", "unregister", "finished"} => w[1] = "Any"
    BY <2>4
  <2>6. NoCallbacks(c) \/ (pc[c] = "sleep" /\ label = "unregister")
    BY <1>2
  <2> QED
    BY <2>1, <2>2, <2>3, <2>4, <2>5, <2>6, LoopKeeps
<1> QED
  BY <1>5, <1>6, <1>7 DEF ClientCall

\* Loops that start again, and the ends of scans.
LEMMA StartKeeps ==
  ASSUME ContainerInv, NEW c \in Containers,
         NEW label \in Scans \cup {"all", "register", "unregister"}, Start(c, label),
         label \in {"register", "unregister", "finished"} => wait[c][1] = "Any",
         NoCallbacks(c) \/ (pc[c] = "sleep" /\ label = "unregister")
  PROVE  ContainerInv'
<1>1. wait[c] \in Waits /\ wait' = [wait EXCEPT ![c] = wait[c]]
  BY DEF Start, ContainerInv, ClientTypes
<1>2. Loop(c, label) /\ UNCHANGED <<taskVars, list>>
  BY DEF Start
<1> QED
  BY <1>1, <1>2, LoopKeeps

\* A wait that ends with an exception.
LEMMA ThrowKeeps ==
  ASSUME ContainerInv, NEW c \in Containers, pc[c] \notin Registering, Throw(c)
  PROVE  ContainerInv'
<1>1. /\ list[c] \in Seq(Tasks) /\ list' = [list EXCEPT ![c] = list[c]]
      /\ pc' = [pc EXCEPT ![c] = "threw"] /\ at' = [at EXCEPT ![c] = 1]
      /\ ret' = [ret EXCEPT ![c] = <<>>] /\ UNCHANGED <<taskVars, wait>>
  BY DEF Throw, Leave, Go, ContainerInv, ClientTypes
<1>2. /\ "threw" \in Labels /\ 1 \in Nat \ {0} /\ <<>> \in Seq(Tasks)
      /\ Len(list[c]) \in Nat /\ NoCallbacks(c)
  BY <1>1, CallbacksHere
<1>3. ASSUME list'[c] = list[c], pc'[c] = "threw", at'[c] = 1, ret'[c] = <<>>
      PROVE  Place(c)' /\ Registrations(c)' /\ Finished(c)'
  <2>1. at'[c] <= Len(list'[c]) + 1
    BY <1>2, <1>3
  <2>2. Place(c)'
    BY <1>3, <2>1 DEF Place
  <2>3. Registrations(c)'
    BY <1>1, <1>2 DEF Registrations, NoCallbacks, taskVars
  <2>4. Finished(c)'
    BY <1>3 DEF Finished
  <2> QED
    BY <2>2, <2>3, <2>4
<1>4. list'[c] = list[c] /\ pc'[c] = "threw" /\ wait'[c] = wait[c] /\ at'[c] = 1
        /\ ret'[c] = <<>> => Place(c)' /\ Registrations(c)' /\ Finished(c)'
  BY <1>3
<1> QED
  BY <1>1, <1>2, <1>4, StepKeeps

\* Steps of a client that leave the tasks alone.
LEMMA ClientStepKeeps ==
  ASSUME ContainerInv, NEW c \in Containers, ClientStep(c)
  PROVE  ContainerInv'
<1>0. /\ list[c] \in Seq(Tasks) /\ Len(list[c]) \in Nat /\ at[c] + 1 \in Nat \ {0}
      /\ wait[c] \in Waits /\ at[c] \in Nat \ {0} /\ ret[c] \in Seq(Tasks)
      /\ ClientInv(c)
  <2>1. /\ list[c] \in Seq(Tasks) /\ wait[c] \in Waits /\ at[c] \in Nat \ {0}
        /\ ret[c] \in Seq(Tasks) /\ ClientInv(c)
    BY DEF ContainerInv, ClientTypes
  <2>2. Len(list[c]) \in Nat /\ at[c] + 1 \in Nat \ {0}
    BY <2>1
  <2> QED
    BY <2>1, <2>2
<1>1. wait[c] \in Modes \X Timeouts
  BY <1>0, TaskContainerAssumption DEF TaskContainerAssumption
\* Steps of one label to the next, on the same entry or on the next one.
<1>2. ASSUME UNCHANGED <<taskVars, list, wait, ret>>, NEW p \in Labels, Go(c, p),
             NEW a \in Nat \ {0}, at' = [at EXCEPT ![c] = a],
             pc'[c] = p /\ at'[c] = a => Place(c)' /\ Registrations(c)' /\ Finished(c)'
      PROVE  ContainerInv'
  BY <1>2, GoKeeps DEF Go
<1>3. at' = at => at' = [at EXCEPT ![c] = at[c]]
  BY DEF ContainerInv, ClientTypes
<1>4. pc[c] \notin Registering => NoCallbacks(c)
  BY CallbacksHere
<1>5. CASE Fired(c)
  <2>1. PICK p \in {"run", "cancel"} : Go(c, p)
    BY <1>5 DEF Fired
  <2>2. /\ UNCHANGED <<taskVars, list, wait, ret>> /\ at' = [at EXCEPT ![c] = at[c] + 1]
        /\ pc[c] \in {"fire run", "fire cancel"}
    BY <1>5 DEF Fired, Next1
  <2>3. p \in Labels /\ at[c] <= Len(list[c])
    BY <1>0, <2>1, <2>2 DEF ClientInv, Place
  <2>4. ASSUME pc'[c] = p, at'[c] = at[c] + 1
        PROVE  Place(c)' /\ Registrations(c)' /\ Finished(c)'
    <3>1. at'[c] <= Len(list'[c]) + 1
      <4>1. list'[c] = list[c] /\ at[c] \in Nat /\ Len(list[c]) \in Nat
        BY <1>0, <2>2
      <4>2. at[c] <= Len(list[c]) /\ at'[c] = at[c] + 1
        BY <2>3, <2>4
      <4> QED
        BY <4>1, <4>2
    <3>2. Place(c)'
      BY <2>1, <2>4, <3>1 DEF Place
    <3>3. Registrations(c)'
      BY <2>2, CallbacksHere DEF Registrations, NoCallbacks, taskVars
    <3>4. Finished(c)'
      BY <2>1, <2>4 DEF Finished
    <3> QED
      BY <3>2, <3>3, <3>4
  <2> QED
    BY <1>0, <1>2, <2>1, <2>2, <2>3, <2>4
<1>6. CASE LoopDone(c)
  <2>1. /\ UNCHANGED <<taskVars, list, wait, ret>> /\ at' = [at EXCEPT ![c] = 1]
        /\ pc[c] \in {"run", "cancel"} /\ Go(c, "idle")
    BY <1>6 DEF LoopDone, Leave
  <2>2. ASSUME pc'[c] = "idle", at'[c] = 1
        PROVE  Place(c)' /\ Registrations(c)' /\ Finished(c)'
    <3>1. at'[c] <= Len(list'[c]) + 1
      BY <1>0, <2>1, <2>2
    <3>2. Place(c)'
      BY <2>2, <3>1 DEF Place
    <3>3. Registrations(c)'
      BY <2>1, CallbacksHere DEF Registrations, NoCallbacks, taskVars
    <3>4. Finished(c)'
      BY <2>2 DEF Finished
    <3> QED
      BY <3>2, <3>3, <3>4
  <2>3. "idle" \in Labels /\ 1 \in Nat \ {0}
    OBVIOUS
  <2> QED
    BY <1>2, <2>1, <2>2, <2>3
<1>7. CASE TimeOut(c)
  <2>1. /\ UNCHANGED <<taskVars, list, wait, ret>> /\ at' = [at EXCEPT ![c] = 1]
        /\ pc[c] = "clock" /\ Go(c, "returned")
    BY <1>7 DEF TimeOut, Leave
  <2>2. ASSUME pc'[c] = "returned", at'[c] = 1
        PROVE  Place(c)' /\ Registrations(c)' /\ Finished(c)'
    <3>1. at'[c] <= Len(list'[c]) + 1
      BY <1>0, <2>1, <2>2
    <3>2. Place(c)'
      BY <2>2, <3>1 DEF Place
    <3>3. Registrations(c)'
      BY <2>1, CallbacksHere DEF Registrations, NoCallbacks, taskVars
    <3>4. Finished(c)'
      BY <1>0, <2>1, <2>2 DEF Finished, ClientInv, Ended, taskVars
    <3> QED
      BY <3>2, <3>3, <3>4
  <2>3. "returned" \in Labels /\ 1 \in Nat \ {0}
    OBVIOUS
  <2> QED
    BY <1>2, <2>1, <2>2, <2>3
\* The client goes on to the clock with what the scan has found.
<1>8. ASSUME UNCHANGED <<taskVars, list, wait, at, ret>>, pc[c] \in {"done", "timed"},
             Go(c, "clock")
      PROVE  ContainerInv'
  <2>1. ASSUME pc'[c] = "clock", at'[c] = at[c]
        PROVE  Place(c)' /\ Registrations(c)' /\ Finished(c)'
    <3>1. Place(c)'
      BY <1>0, <1>8, <2>1 DEF ClientInv, Place
    <3>2. Registrations(c)'
      BY <1>8, CallbacksHere DEF Registrations, NoCallbacks, taskVars
    <3>3. Finished(c)'
      BY <1>0, <1>8, <2>1 DEF Finished, ClientInv, Ended, taskVars
    <3> QED
      BY <3>1, <3>2, <3>3
  <2>2. "clock" \in Labels
    OBVIOUS
  <2> QED
    BY <1>0, <1>2, <1>3, <1>8, <2>1, <2>2
<1>9. CASE CanceledScanned(c)
  <2>1. pc[c] = "canceled" /\ (Throw(c) \/ Start(c, "done"))
    BY <1>9 DEF CanceledScanned, Scanned
  <2> QED
    BY <1>4, <2>1, ThrowKeeps, StartKeeps
<1>10. CASE DoneScanned(c)
  <2>1. pc[c] = "done"
    BY <1>10 DEF DoneScanned, Scanned
  <2>2. \/ wait[c] = <<"All", "forever">> \/ wait[c] = <<"Any", "forever">>
        \/ wait[c][2] = "timed" \/ wait[c][2] = "poll"
    BY <1>1 DEF Modes, Timeouts
  <2>3. wait[c] = <<"All", "forever">> => HandOver(c) \/ Start(c, "all")
    BY <1>10 DEF DoneScanned
  <2>4. wait[c] = <<"Any", "forever">>
          => HandOver(c) \/ (wait[c][1] = "Any" /\ Start(c, "register"))
    BY <1>10 DEF DoneScanned
  <2>5. wait[c][2] = "timed" =>
          HandOver(c) \/ (Go(c, "clock") /\ UNCHANGED <<taskVars, list, wait, at, ret>>)
    BY <1>10 DEF DoneScanned
  <2>6. wait[c][2] = "poll" => HandOver(c) \/ Start(c, "polled")
    BY <1>10 DEF DoneScanned
  <2> QED
    BY <1>4, <1>8, <2>1, <2>2, <2>3, <2>4, <2>5, <2>6, HandOverKeeps, StartKeeps
<1>11. CASE PolledScanned(c)
  BY <1>11, HandOverKeeps DEF PolledScanned, Scanned
<1>12. CASE TimedScanned(c)
  <2>1. /\ pc[c] = "timed"
        /\ \/ HandOver(c)
           \/ Go(c, "clock") /\ UNCHANGED <<taskVars, list, wait, at, ret>>
    BY <1>12 DEF TimedScanned, Scanned
  <2> QED
    BY <1>8, <2>1, HandOverKeeps
<1>13. CASE Clock(c)
  <2>1. pc[c] = "clock" /\ Start(c, "timed")
    BY <1>13 DEF Clock
  <2> QED
    BY <1>4, <2>1, StartKeeps
<1>14. CASE Joined(c)
  <2>1. /\ UNCHANGED <<taskVars, list, wait, ret>> /\ at' = [at EXCEPT ![c] = at[c] + 1]
        /\ pc[c] = "join" /\ ~active[list[c][at[c]]] /\ Go(c, "all")
    BY <1>14 DEF Joined, Next1, Here
  <2>2. at[c] <= Len(list[c]) /\ Ended(list[c][at[c]])
    BY <1>0, <2>1 DEF ClientInv, Place, Finished, Here
  <2>3. ASSUME pc'[c] = "all", at'[c] = at[c] + 1
        PROVE  Place(c)' /\ Registrations(c)' /\ Finished(c)'
    <3>1. at'[c] <= Len(list'[c]) + 1
      BY <1>0, <2>1, <2>2, <2>3
    <3>2. Place(c)'
      BY <2>3, <3>1 DEF Place
    <3>3. Registrations(c)'
      BY <2>1, CallbacksHere DEF Registrations, NoCallbacks, taskVars
    <3>4. \A i \in 1..Len(list[c]) : i < at[c] + 1 => Ended(list[c][i])
      <4>1. \A i \in 1..Len(list[c]) : i < at[c] => Ended(list[c][i])
        BY <1>0, <2>1 DEF ClientInv, Finished
      <4>2. \A i \in 1..Len(list[c]) : i < at[c] + 1 => i < at[c] \/ i = at[c]
        BY <1>0
      <4> QED
        BY <2>2, <4>1, <4>2
    <3>5. Finished(c)'
      BY <2>1, <2>3, <3>4 DEF Finished, Ended, taskVars
    <3> QED
      BY <3>2, <3>3, <3>5
  <2>4. "all" \in Labels
    OBVIOUS
  <2> QED
    BY <1>0, <1>2, <2>1, <2>3, <2>4
<1>15. CASE AllWaited(c)
  <2>1. /\ UNCHANGED <<taskVars, wait>> /\ at' = [at EXCEPT ![c] = 1]
        /\ pc[c] = "all" /\ ~(at[c] <= Len(list[c])) /\ pc' = [pc EXCEPT ![c] = "returned"]
        /\ list' = [list EXCEPT ![c] = <<>>] /\ ret' = [ret EXCEPT ![c] = list[c]]
    BY <1>15 DEF AllWaited, Leave, Go, More
  <2>2. ASSUME list'[c] = <<>>, pc'[c] = "returned", wait'[c] = wait[c],
               at'[c] = 1, ret'[c] = list[c]
        PROVE  Place(c)' /\ Registrations(c)' /\ Finished(c)'
    <3>1. at'[c] <= Len(list'[c]) + 1
      BY <2>2
    <3>2. Place(c)'
      BY <2>2, <3>1 DEF Place
    <3>3. Registrations(c)'
      BY <2>1, CallbacksHere DEF Registrations, NoCallbacks, taskVars
    <3>4. \A i \in 1..Len(list[c]) : Ended(list[c][i])
      BY <1>0, <2>1 DEF ClientInv, Finished
    <3>5. Finished(c)'
      BY <2>1, <2>2, <3>4 DEF Finished, Ended, taskVars
    <3> QED
      BY <3>2, <3>3, <3>5
  <2>3. "returned" \in Labels /\ 1 \in Nat \ {0} /\ <<>> \in Seq(Tasks)
    OBVIOUS
  <2>4. list'[c] = <<>> /\ pc'[c] = "returned" /\ wait'[c] = wait[c] /\ at'[c] = 1
          /\ ret'[c] = list[c] => Place(c)' /\ Registrations(c)' /\ Finished(c)'
    BY <2>2
  <2> QED
    BY <1>0, <2>1, <2>3, <2>4, StepKeeps
<1>16. CASE Registered(c)
  <2>1. /\ UNCHANGED <<taskVars, list, wait, at, ret>>
        /\ pc[c] = "register" /\ Go(c, "sleep")
    BY <1>16 DEF Registered
  <2>2. ASSUME pc'[c] = "sleep", at'[c] = at[c]
        PROVE  Place(c)' /\ Registrations(c)' /\ Finished(c)'
    <3>1. Place(c)'
      BY <1>0, <2>1, <2>2 DEF ClientInv, Place
    <3>2. Registrations(c)'
      BY <1>0, <2>1, <2>2 DEF ClientInv, Registrations, taskVars
    <3>3. Finished(c)'
      BY <2>2 DEF Finished
    <3> QED
      BY <3>1, <3>2, <3>3
  <2>3. "sleep" \in Labels
    OBVIOUS
  <2> QED
    BY <1>0, <1>2, <1>3, <2>1, <2>2, <2>3
<1>17. CASE Wake(c)
  <2>1. pc[c] = "sleep" /\ Start(c, "unregister") /\ wait[c][1] = "Any"
    BY <1>0, <1>17 DEF Wake, ClientInv, Place
  <2> QED
    BY <2>1, StartKeeps
<1>18. CASE Unregistered(c)
  <2>1. /\ pc[c] = "unregister" /\ ~(at[c] <= Len(list[c])) /\ Start(c, "finished")
        /\ wait[c][1] = "Any"
    BY <1>0, <1>18 DEF Unregistered, Scanned, More, ClientInv, Place
  <2>2. NoCallbacks(c)
    BY <1>0, <2>1 DEF ClientInv, Registrations, NoCallbacks
  <2> QED
    BY <2>1, <2>2, StartKeeps
<1>19. CASE FinishedScanned(c)
  <2>1. /\ pc[c] = "finished" /\ (Start(c, "register") \/ HandOver(c))
        /\ wait[c][1] = "Any"
    BY <1>0, <1>19 DEF FinishedScanned, Scanned, ClientInv, Place
  <2> QED
    BY <1>4, <2>1, HandOverKeeps, StartKeeps
<1> QED
  BY <1>5, <1>6, <1>7, <1>9, <1>10, <1>11, <1>12, <1>13, <1>14, <1>15, <1>16,
     <1>17, <1>18, <1>19 DEF ClientStep

\* Steps of a client that take the lock of a task.
LEMMA LockingStepKeeps ==
  ASSUME ContainerInv, NEW c \in Containers, LockingStep(c)
  PROVE  ContainerInv'
<1> DEFINE t == list[c][at[c]]
<1>0. /\ list[c] \in Seq(Tasks) /\ Len(list[c]) \in Nat /\ at[c] \in Nat /\ at[c] + 1 \in Nat \ {0}
      /\ wait[c] \in Waits /\ at[c] \in Nat \ {0} /\ ret[c] \in Seq(Tasks)
      /\ ClientInv(c) /\ TaskInv
  <2>1. /\ list[c] \in Seq(Tasks) /\ wait[c] \in Waits /\ at[c] \in Nat \ {0}
        /\ ret[c] \in Seq(Tasks) /\ ClientInv(c) /\ TaskInv
    BY DEF ContainerInv, ClientTypes
  <2>2. Len(list[c]) \in Nat /\ at[c] \in Nat /\ at[c] + 1 \in Nat \ {0}
    BY <2>1
  <2> QED
    BY <2>1, <2>2
<1>1. at[c] <= Len(list[c]) => t \in Tasks
  BY <1>0
<1>2. pc[c] \in {"run it", "join"} => at[c] <= Len(list[c])
  BY <1>0 DEF ClientInv, Place
<1>3. ASSUME UNCHANGED <<taskVars, list, wait, ret>>, NEW p \in Labels, Go(c, p),
             NEW a \in Nat \ {0}, at' = [at EXCEPT ![c] = a],
             pc'[c] = p /\ at'[c] = a => Place(c)' /\ Registrations(c)' /\ Finished(c)'
      PROVE  ContainerInv'
  BY <1>3, GoKeeps DEF Go
<1>4. at' = at => at' = [at EXCEPT ![c] = at[c]]
  BY DEF ContainerInv, ClientTypes
<1>5. pc' = pc => pc' = [pc EXCEPT ![c] = pc[c]]
  BY DEF ContainerInv, ClientTypes
<1> HIDE DEF t
\* Loops over the list that leave the client where it is, or go on with an entry.
<1>6. ASSUME UNCHANGED <<taskVars, list, wait, ret>>, pc[c] = "run",
             at[c] <= Len(list[c]),
             \/ Go(c, "run it") /\ UNCHANGED at
             \/ Next1(c) /\ UNCHANGED pc
      PROVE  ContainerInv'
  <2>0. at[c] <= Len(list[c]) + 1 /\ at[c] + 1 <= Len(list[c]) + 1
    <3>1. at[c] \in Nat
      BY <1>0
    <3>2. Len(list[c]) \in Nat
      BY <1>0
    <3>3. at[c] <= Len(list[c])
      BY <1>6
    <3>4. at[c] <= Len(list[c]) + 1
      BY <3>1, <3>2, <3>3
    <3>5. at[c] + 1 <= Len(list[c]) + 1
      BY <3>1, <3>2, <3>3
    <3> QED
      BY <3>4, <3>5
  <2>1. PICK p \in {"run", "run it"}, a \in {at[c], at[c] + 1} :
          /\ Go(c, p) /\ at' = [at EXCEPT ![c] = a]
          /\ p = "run it" => a = at[c]
    BY <1>4, <1>5, <1>6 DEF Go, Next1
  <2>2. p \in Labels /\ a \in Nat \ {0}
    BY <1>0, <2>1
  <2>3. ASSUME pc'[c] = p, at'[c] = a
        PROVE  Place(c)' /\ Registrations(c)' /\ Finished(c)'
    <3>1. at[c] <= Len(list[c]) /\ list'[c] = list[c] /\ at'[c] = a
      BY <1>6, <2>3
    <3>5. at'[c] <= Len(list'[c]) + 1
      <4>1. a <= Len(list[c]) + 1
        BY <2>0, <2>1
      <4> QED
        BY <3>1, <4>1
    <3>6. p = "run it" => at'[c] <= Len(list'[c])
      BY <2>1, <3>1
    <3>2. Place(c)'
      BY <2>1, <2>3, <3>5, <3>6 DEF Place
    <3>3. Registrations(c)'
      BY <1>6, CallbacksHere DEF Registrations, NoCallbacks, taskVars
    <3>4. Finished(c)'
      BY <2>1, <2>3 DEF Finished
    <3> QED
      BY <3>2, <3>3, <3>4
  <2> QED
    BY <1>3, <1>6, <2>1, <2>2, <2>3
<1>7. CASE RunLooks(c)
  BY <1>6, <1>7 DEF RunLooks, More
\* set_state of the task the client has come to, by the client.
<1>8. ASSUME NEW s \in {"Running", "Canceled"}, SetState(t, s, c), t \in Tasks,
             s = "Running" => state[t] = "New", at[c] <= Len(list[c]),
             pc[c] \notin Registering,
             NEW p \in {"fire run", "fire cancel"}, Go(c, p),
             UNCHANGED <<list, wait, at, ret>>
      PROVE  ContainerInv'
  <2>1. TaskInv' /\ Progress /\ UNCHANGED callbacks
    <3>1. c # "worker" /\ s \in {"Running", "Done", "Canceled", "Failed"}
      BY <1>8, TaskContainerAssumption DEF TaskContainerAssumption
    <3> QED
      BY <1>0, <1>8, <3>1, SetStateKeeps
  <2>2. ASSUME pc'[c] = p
        PROVE  ClientInv(c)'
    <3>1. Place(c)'
      BY <1>0, <1>8, <2>2 DEF Place, ClientInv
    <3>2. Registrations(c)'
      BY <1>8, <2>1, CallbacksHere DEF Registrations, NoCallbacks
    <3>3. Finished(c)'
      BY <1>8, <2>2 DEF Finished
    <3> QED
      BY <3>1, <3>2, <3>3 DEF ClientInv
  <2>3. /\ list' = [list EXCEPT ![c] = list[c]] /\ wait' = [wait EXCEPT ![c] = wait[c]]
        /\ at' = [at EXCEPT ![c] = at[c]] /\ ret' = [ret EXCEPT ![c] = ret[c]]
        /\ pc' = [pc EXCEPT ![c] = p]
    BY <1>8 DEF Go, ContainerInv, ClientTypes
  <2>4. p \in Labels
    BY <1>8
  <2>5. \A d \in Containers \ {c}, u \in Tasks, i \in Nat :
          <<d, i>> \in callbacks'[u] => <<d, i>> \in callbacks[u]
    BY <2>1
  <2>6. list'[c] = list[c] /\ pc'[c] = p /\ wait'[c] = wait[c] /\ at'[c] = at[c]
          /\ ret'[c] = ret[c] => ClientInv(c)'
    BY <2>2
  <2> QED
    BY <1>0, <2>1, <2>3, <2>4, <2>5, <2>6, ClientKeeps
<1>9. CASE RunRuns(c)
  <2>1. pc[c] = "run it" /\ at[c] <= Len(list[c]) /\ t \in Tasks
    BY <1>1, <1>2, <1>9 DEF RunRuns
  <2>2. CASE state[t] = "New"
    <3>1. /\ SetState(t, "Running", c) /\ Go(c, "fire run")
          /\ UNCHANGED <<list, wait, at, ret>>
      BY <1>9, <2>2 DEF RunRuns, Here, t
    <3> QED
      BY <1>8, <2>1, <2>2, <3>1
  <2>3. CASE state[t] # "New"
    <3>1. /\ UNCHANGED <<taskVars, list, wait, ret>> /\ Go(c, "threw")
          /\ at' = [at EXCEPT ![c] = 1]
      BY <1>9, <2>3 DEF RunRuns, Here, Leave, t
    <3>2. ASSUME pc'[c] = "threw", at'[c] = 1
          PROVE  Place(c)' /\ Registrations(c)' /\ Finished(c)'
      <4>1. at'[c] <= Len(list'[c]) + 1
        BY <1>0, <3>1, <3>2
      <4>2. Place(c)'
        BY <3>2, <4>1 DEF Place
      <4>3. Registrations(c)'
        BY <2>1, <3>1, CallbacksHere DEF Registrations, NoCallbacks, taskVars
      <4>4. Finished(c)'
        BY <3>2 DEF Finished
      <4> QED
        BY <4>2, <4>3, <4>4
    <3>3. "threw" \in Labels /\ 1 \in Nat \ {0}
      OBVIOUS
    <3> QED
      BY <1>3, <3>1, <3>2, <3>3
  <2> QED
    BY <2>2, <2>3
<1>10. CASE CancelCancels(c)
  <2>1. /\ pc[c] = "cancel" /\ at[c] <= Len(list[c]) /\ SetState(t, "Canceled", c)
        /\ Go(c, "fire cancel") /\ UNCHANGED <<list, wait, at, ret>>
    BY <1>10 DEF CancelCancels, More, Here, t
  <2> QED
    BY <1>1, <1>8, <2>1
<1>11. CASE Look(c)
  BY <1>11, LookKeeps
<1>12. CASE WaitForTask(c)
  <2>1. pc[c] = "all" /\ at[c] <= Len(list[c]) /\ setter[t] = Nobody /\ t \in Tasks
    BY <1>1, <1>12 DEF WaitForTask, More, Here, t
  <2>2. CASE state[t] = "New"
    <3>1. Throw(c)
      BY <1>12, <2>2 DEF WaitForTask, Here, t
    <3> QED
      BY <2>1, <3>1, ThrowKeeps
  <2>3. CASE state[t] = "Running"
    <3>1. Go(c, "join") /\ UNCHANGED <<taskVars, list, wait, at, ret>>
      BY <1>12, <2>3 DEF WaitForTask, Here, t
    <3>2. active[t]
      BY <1>0, <2>1, <2>3 DEF TaskInv
    <3>3. ASSUME pc'[c] = "join", at'[c] = at[c]
          PROVE  Place(c)' /\ Registrations(c)' /\ Finished(c)'
      <4>1. Place(c)'
        BY <1>0, <2>1, <3>1, <3>3 DEF Place, ClientInv
      <4>2. Registrations(c)'
        BY <2>1, <3>1, CallbacksHere DEF Registrations, NoCallbacks, taskVars
      <4>3. Finished(c)'
        BY <1>0, <2>1, <3>1, <3>2, <3>3 DEF Finished, ClientInv, Ended, Here, taskVars, t
      <4> QED
        BY <4>1, <4>2, <4>3
    <3>4. "join" \in Labels
      OBVIOUS
    <3> QED
      BY <1>0, <1>3, <1>4, <3>1, <3>3, <3>4
  <2>4. CASE state[t] \notin {"New", "Running"}
    <3>1. /\ at' = [at EXCEPT ![c] = at[c] + 1]
          /\ UNCHANGED <<taskVars, list, pc, wait, ret>>
      BY <1>12, <2>4 DEF WaitForTask, Here, Next1, t
    <3>2. Ended(t)
      BY <1>0, <2>1, <2>4 DEF TaskInv, Ended
    <3>3. \A i \in 1..Len(list[c]) : i < at[c] + 1 => Ended(list[c][i])
      <4>1. \A i \in 1..Len(list[c]) : i < at[c] => Ended(list[c][i])
        BY <1>0, <2>1 DEF ClientInv, Finished
      <4>2. \A i \in 1..Len(list[c]) : i < at[c] + 1 => i < at[c] \/ i = at[c]
        BY <1>0
      <4> QED
        BY <3>2, <4>1, <4>2 DEF t
    <3>4. ASSUME pc'[c] = "all", at'[c] = at[c] + 1
          PROVE  Place(c)' /\ Registrations(c)' /\ Finished(c)'
      <4>1. at'[c] <= Len(list'[c]) + 1
        BY <1>0, <2>1, <3>1, <3>4
      <4>2. Place(c)'
        BY <3>4, <4>1 DEF Place
      <4>3. Registrations(c)'
        BY <2>1, <3>1, CallbacksHere DEF Registrations, NoCallbacks, taskVars
      <4>4. Finished(c)'
        BY <3>1, <3>3, <3>4 DEF Finished, Ended, taskVars
      <4> QED
        BY <4>2, <4>3, <4>4
    <3>5. "all" \in Labels /\ Go(c, "all") /\ UNCHANGED <<taskVars, list, wait, ret>>
      BY <1>5, <2>1, <3>1 DEF Go
    <3> QED
      BY <1>0, <1>3, <3>1, <3>4, <3>5
  <2> QED
    BY <2>2, <2>3, <2>4
\* Registering and unregistering: one callback of the client, at its entry.
<1>13. ASSUME pc[c] \in {"register", "unregister"}, at[c] <= Len(list[c]),
              setter[t] = Nobody, at' = [at EXCEPT ![c] = at[c] + 1],
              UNCHANGED <<state, active, setter, pending, list, pc, wait, ret>>,
              \/ /\ pc[c] = "register"
                 /\ callbacks' = [callbacks EXCEPT ![t] = @ \cup {<<c, at[c]>>}]
              \/ /\ pc[c] = "unregister"
                 /\ callbacks' = [callbacks EXCEPT ![t] = @ \ {<<c, at[c]>>}]
       PROVE  ContainerInv'
  <2>1. t \in Tasks /\ pending[t] = {} /\ callbacks \in [Tasks -> SUBSET Cookies]
    BY <1>0, <1>1, <1>13 DEF TaskInv
  <2>2. <<c, at[c]>> \in Cookies
    BY <1>0 DEF Cookies
  <2>3. callbacks' \in [Tasks -> SUBSET Cookies]
    BY <1>13, <2>1, <2>2
  <2>4. \A u \in Tasks : u # t => callbacks'[u] = callbacks[u]
    BY <1>13, <2>1
  <2>5. TaskInv' /\ Progress
    BY <1>0, <1>13, <2>1, <2>3, <2>4 DEF TaskInv, Progress, Ended
  <2>6. pc[c] = "register" => callbacks'[t] = callbacks[t] \cup {<<c, at[c]>>}
    BY <1>13, <2>1
  <2>7. pc[c] = "unregister" => callbacks'[t] = callbacks[t] \ {<<c, at[c]>>}
    BY <1>13, <2>1
  <2>8. \A d \in Containers \ {c}, u \in Tasks, i \in Nat :
          <<d, i>> \in callbacks'[u] => <<d, i>> \in callbacks[u]
    BY <1>13, <2>4, <2>6, <2>7
  <2>9. ASSUME at'[c] = at[c] + 1 PROVE ClientInv(c)'
    <3>1. at'[c] <= Len(list'[c]) + 1
      BY <1>0, <1>13, <2>9
    <3>2. Place(c)'
      BY <1>0, <1>13, <3>1 DEF Place, ClientInv
    <3>3. ASSUME NEW u \in Tasks, NEW i \in Nat, <<c, i>> \in callbacks'[u]
          PROVE  /\ i \in 1..Len(list[c]) /\ list[c][i] = u
                 /\ pc[c] = "register" => i < at[c] + 1
                 /\ pc[c] = "unregister" => i >= at[c] + 1
      <4>1. CASE <<c, i>> \in callbacks[u]
        <5>1. /\ i \in 1..Len(list[c]) /\ list[c][i] = u
              /\ pc[c] = "register" => i < at[c]
              /\ pc[c] = "unregister" => i >= at[c]
          BY <1>0, <4>1 DEF ClientInv, Registrations
        <5>2. pc[c] = "unregister" => i # at[c]
          BY <2>7, <3>3, <5>1 DEF t
        <5> QED
          BY <1>0, <5>1, <5>2
      <4>2. CASE <<c, i>> \notin callbacks[u]
        <5>1. u = t /\ pc[c] = "register" /\ i = at[c]
          BY <1>13, <2>4, <2>6, <2>7, <3>3, <4>2
        <5> QED
          BY <1>0, <1>13, <5>1 DEF t
      <4> QED
        BY <4>1, <4>2
    <3>4. Registrations(c)'
      BY <1>13, <2>9, <3>3 DEF Registrations
    <3>5. Finished(c)'
      BY <1>13 DEF Finished
    <3> QED
      BY <3>2, <3>4, <3>5 DEF ClientInv
  <2>10. /\ list' = [list EXCEPT ![c] = list[c]] /\ wait' = [wait EXCEPT ![c] = wait[c]]
         /\ pc' = [pc EXCEPT ![c] = pc[c]] /\ ret' = [ret EXCEPT ![c] = ret[c]]
    BY <1>13 DEF ContainerInv, ClientTypes
  <2>11. pc[c] \in Labels
    BY <1>13
  <2>12. list'[c] = list[c] /\ pc'[c] = pc[c] /\ wait'[c] = wait[c] /\ at'[c] = at[c] + 1
           /\ ret'[c] = ret[c] => ClientInv(c)'
    BY <2>9
  <2> QED
    BY <1>0, <1>13, <2>5, <2>8, <2>10, <2>11, <2>12, ClientKeeps
<1>14. CASE Register(c)
  BY <1>13, <1>14 DEF Register, More, Here, Next1, t
<1>15. CASE Unregister(c)
  BY <1>13, <1>15 DEF Unregister, More, Here, Next1, t
<1> QED
  BY <1>7, <1>9, <1>10, <1>11, <1>12, <1>14, <1>15 DEF LockingStep

----------------------------------------------------------------------------
(* The invariant. *)

\* The invariant holds initially.
LEMMA ContainerInit == ASSUME Init PROVE ContainerInv
<1>1. TaskInv
  <2>1. active \in [Tasks -> BOOLEAN]
    BY DEF Init
  <2>2. callbacks \in [Tasks -> SUBSET Cookies] /\ pending \in [Tasks -> SUBSET Cookies]
    BY DEF Init
  <2>3. /\ state \in [Tasks -> States]
        /\ setter \in [Tasks -> Containers \cup {Nobody, "worker", "application"}]
    BY DEF Init
  <2>4. \A t \in Tasks : /\ state[t] = "New" /\ setter[t] # "worker"
                         /\ pending[t] = {} /\ callbacks[t] = {}
    BY TaskContainerAssumption DEF Init, TaskContainerAssumption
  <2> QED
    BY <2>1, <2>2, <2>3, <2>4 DEF TaskInv
<1>2. ClientTypes
  BY DEF Init, ClientTypes
<1>3. ASSUME NEW c \in Containers PROVE ClientInv(c)
  BY DEF Init, ClientInv, Place, Registrations, Finished
<1> QED
  BY <1>1, <1>2, <1>3 DEF ContainerInv

\* Every step keeps it.
LEMMA ContainerStep == ASSUME ContainerInv, [Next]_vars PROVE ContainerInv'
<1>1. CASE UNCHANGED vars
  <2>1. UNCHANGED <<taskVars, clientVars>> /\ UNCHANGED clientVars
    BY <1>1 DEF vars
  <2>2. TaskInv' /\ Progress /\ ClientTypes'
    BY <2>1, Untouched DEF ContainerInv, ClientTypes, clientVars
  <2>3. ASSUME NEW c \in Containers PROVE ClientInv(c)'
    BY <2>1, <2>2, OthersKeep DEF ContainerInv, clientVars, taskVars
  <2> QED
    BY <2>2, <2>3 DEF ContainerInv
<1>2. CASE Next
  BY <1>2, TasksKeep, CallKeeps, ClientStepKeeps, LockingStepKeeps DEF Next
<1> QED
  BY <1>1, <1>2

\* It holds always: the fact the theorems below rest on.
THEOREM ContainerInvariant == Spec => []ContainerInv
<1>1. Init => ContainerInv
  BY ContainerInit
<1>2. ContainerInv /\ [Next]_vars => ContainerInv'
  BY ContainerStep
<1> QED
  BY <1>1, <1>2, PTL DEF Spec

\* Type correctness.
THEOREM ContainerTypes == Spec => []TypeOK
<1>1. ContainerInv => TypeOK
  BY DEF ContainerInv, TaskInv, ClientTypes, ClientInv, Place, TypeOK
<1> QED
  BY <1>1, ContainerInvariant, PTL

\* wait(All) returns tasks that have ended (wait, task_container.cpp), whatever
\* anybody does to them while it reads their states one by one.
THEOREM AllThatReturnHaveEnded == Spec => []AllReturnsFinished
<1>1. ASSUME ContainerInv, NEW c \in Containers, pc[c] = "returned", wait[c][1] = "All",
             NEW i \in DOMAIN ret[c]
      PROVE  state[ret[c][i]] \in FinalStates
  <2>1. ret[c] \in Seq(Tasks)
    BY <1>1 DEF ContainerInv, ClientTypes
  <2>2. i \in 1..Len(ret[c])
    BY <1>1, <2>1
  <2> QED
    BY <1>1, <2>2 DEF ContainerInv, ClientInv, Finished, Ended
<1>2. ContainerInv => AllReturnsFinished
  BY <1>1 DEF AllReturnsFinished
<1> QED
  BY <1>2, ContainerInvariant, PTL

\* No callback outlives the wait that registered it (handle_map and
\* state_changed, task_container.cpp).
THEOREM NoCallbackIsLeft == Spec => []CallbacksEndWithWait
<1>1. ASSUME ContainerInv, NEW t \in Tasks, NEW cookie \in callbacks[t]
      PROVE  /\ pc[cookie[1]] \in {"register", "sleep", "unregister"}
             /\ list[cookie[1]][cookie[2]] = t
  <2>1. /\ cookie[1] \in Containers /\ cookie[2] \in Nat
        /\ cookie = <<cookie[1], cookie[2]>>
    BY <1>1 DEF ContainerInv, TaskInv, Cookies
  <2> QED
    BY <1>1, <2>1 DEF ContainerInv, ClientInv, Registrations
<1>2. ContainerInv => CallbacksEndWithWait
  BY <1>1 DEF CallbacksEndWithWait
<1> QED
  BY <1>2, ContainerInvariant, PTL

----------------------------------------------------------------------------
(* No task is lost. *)

\* A scan collects no more copies of a task than it has passed.
CollectedInv ==
  \A c \in Containers : pc[c] \in Scans =>
    \A t \in Tasks : Copies(ret[c], t) <= CopiesUpTo(list[c], at[c] - 1, t)

\* The steps of client c.
Step(c) == ClientCall(c) \/ ClientStep(c) \/ LockingStep(c)

\* They leave the other clients alone,
Others(c) ==
  \A d \in Containers \ {c} : /\ list'[d] = list[d] /\ pc'[d] = pc[d]
                              /\ at'[d] = at[d] /\ ret'[d] = ret[d]

\* start a scan or go on with it,
Scanning(c) == pc'[c] \in Scans => Look(c) \/ (at'[c] = 1 /\ ret'[c] = <<>>)

\* and change the list on behalf of the application or when wait returns.
Handing(c) ==
  \/ list'[c] = list[c]
  \/ pc[c] \in Outside
  \/ pc[c] \in Scans /\ HandOver(c)
  \/ pc'[c] = "returned" /\ list'[c] = <<>> /\ ret'[c] = list[c]

\* So does the start of a loop,
LEMMA LoopDoes ==
  ASSUME ClientTypes, NEW c \in Containers, NEW label \in Labels, Loop(c, label),
         UNCHANGED list
  PROVE  Others(c) /\ Scanning(c) /\ Handing(c)
<1>1. Others(c)
  BY DEF ClientTypes, Loop, Go, Others
<1>2. Scanning(c)
  BY DEF ClientTypes, Loop, Go, Scanning
<1> QED
  BY <1>1, <1>2 DEF Handing

\* and the end of one.
LEMMA HandOverDoes ==
  ASSUME ClientTypes, NEW c \in Containers, pc[c] \in Scans, HandOver(c)
  PROVE  Others(c) /\ Scanning(c) /\ Handing(c)
<1>1. Others(c)
  BY DEF ClientTypes, HandOver, Leave, Go, Others
<1>2. Scanning(c)
  BY DEF ClientTypes, HandOver, Leave, Go, Scanning
<1> QED
  BY <1>1, <1>2 DEF Handing

\* All this holds of every step of a client.
LEMMA StepDoes ==
  ASSUME ContainerInv, NEW c \in Containers, Step(c)
  PROVE  Others(c) /\ Scanning(c) /\ Handing(c)
<1>0. ClientTypes
  BY DEF ContainerInv
<1>1. CASE ClientCall(c)
  <2>1. ASSUME NEW t \in Tasks, AddTask(c, t) PROVE Others(c) /\ Scanning(c) /\ Handing(c)
    BY <1>0, <2>1 DEF ClientTypes, AddTask, Go, Others, Scanning, Handing
  <2>2. ASSUME NEW t \in Tasks, RemoveTask(c, t) PROVE Others(c) /\ Scanning(c) /\ Handing(c)
    BY <1>0, <2>2 DEF ClientTypes, RemoveTask, Go, Others, Scanning, Handing
  <2>3. CASE Run(c) \/ Cancel(c) \/ \E w \in Waits : Wait(c, w)
    <3>1. PICK label \in {"run", "cancel", "canceled"} : Loop(c, label) /\ UNCHANGED list
      BY <2>3 DEF Run, Cancel, Wait
    <3>2. label \in Labels
      BY <3>1
    <3> QED
      BY <1>0, <3>1, <3>2, LoopDoes
  <2> QED
    BY <1>1, <2>1, <2>2, <2>3 DEF ClientCall
<1>2. CASE ClientStep(c)
  <2>1. ASSUME NEW label \in {"done", "all", "register", "polled", "timed", "unregister", "finished"},
               Start(c, label)
        PROVE  Others(c) /\ Scanning(c) /\ Handing(c)
    <3>1. label \in Labels
      BY <2>1
    <3> QED
      BY <1>0, <2>1, <3>1, LoopDoes DEF Start
  <2>2. ASSUME pc[c] \in Scans, HandOver(c) PROVE Others(c) /\ Scanning(c) /\ Handing(c)
    BY <1>0, <2>2, HandOverDoes
  <2>3. ASSUME Throw(c) PROVE Others(c) /\ Scanning(c) /\ Handing(c)
    BY <1>0, <2>3 DEF ClientTypes, Throw, Leave, Go, Others, Scanning, Handing
  <2>4. ASSUME Go(c, "clock"), UNCHANGED <<taskVars, list, wait, at, ret>>
        PROVE  Others(c) /\ Scanning(c) /\ Handing(c)
    BY <1>0, <2>4 DEF ClientTypes, Go, Others, Scanning, Handing
  <2>5. CASE Fired(c)
    BY <1>0, <2>5 DEF ClientTypes, Fired, Go, Next1, Others, Scanning, Handing
  <2>6. CASE LoopDone(c)
    BY <1>0, <2>6 DEF ClientTypes, LoopDone, Leave, Go, Others, Scanning, Handing
  <2>7. CASE TimeOut(c)
    BY <1>0, <2>7 DEF ClientTypes, TimeOut, Leave, Go, Others, Scanning, Handing
  <2>8. CASE Joined(c)
    BY <1>0, <2>8 DEF ClientTypes, Joined, Go, Next1, Others, Scanning, Handing
  <2>9. CASE AllWaited(c)
    BY <1>0, <2>9 DEF ClientTypes, AllWaited, Leave, Go, Others, Scanning, Handing
  <2>10. CASE Registered(c)
    BY <1>0, <2>10 DEF ClientTypes, Registered, Go, Others, Scanning, Handing
  <2>11. CASE CanceledScanned(c)
    BY <2>1, <2>3, <2>11 DEF CanceledScanned
  <2>12. CASE DoneScanned(c)
    <3>1. pc[c] = "done"
      BY <2>12 DEF DoneScanned, Scanned
    <3>2. wait[c] \in Modes \X Timeouts
      BY <1>0, TaskContainerAssumption DEF ClientTypes, TaskContainerAssumption
    <3>3. \/ wait[c] = <<"All", "forever">> \/ wait[c] = <<"Any", "forever">>
          \/ wait[c][2] = "timed" \/ wait[c][2] = "poll"
      BY <3>2 DEF Modes, Timeouts
    <3>4. wait[c] = <<"All", "forever">> => HandOver(c) \/ Start(c, "all")
      BY <2>12 DEF DoneScanned
    <3>5. wait[c] = <<"Any", "forever">> => HandOver(c) \/ Start(c, "register")
      BY <2>12 DEF DoneScanned
    <3>6. wait[c][2] = "timed" =>
            HandOver(c) \/ (Go(c, "clock") /\ UNCHANGED <<taskVars, list, wait, at, ret>>)
      BY <2>12 DEF DoneScanned
    <3>7. wait[c][2] = "poll" => HandOver(c) \/ Start(c, "polled")
      BY <2>12 DEF DoneScanned
    <3> QED
      BY <2>1, <2>2, <2>4, <3>1, <3>3, <3>4, <3>5, <3>6, <3>7
  <2>13. CASE PolledScanned(c)
    BY <2>2, <2>13 DEF PolledScanned, Scanned
  <2>14. CASE TimedScanned(c)
    BY <2>2, <2>4, <2>14 DEF TimedScanned, Scanned
  <2>15. CASE Clock(c) \/ Wake(c) \/ Unregistered(c)
    BY <2>1, <2>15 DEF Clock, Wake, Unregistered
  <2>16. CASE FinishedScanned(c)
    BY <2>1, <2>2, <2>16 DEF FinishedScanned, Scanned
  <2> QED
    BY <1>2, <2>5, <2>6, <2>7, <2>8, <2>9, <2>10, <2>11, <2>12, <2>13, <2>14,
       <2>15, <2>16 DEF ClientStep
<1>3. CASE LockingStep(c)
  <2>1. CASE RunLooks(c)
    BY <1>0, <2>1 DEF ClientTypes, RunLooks, Go, Next1, Others, Scanning, Handing
  <2>2. CASE RunRuns(c)
    BY <1>0, <2>2 DEF ClientTypes, RunRuns, Leave, Go, Others, Scanning, Handing
  <2>3. CASE CancelCancels(c)
    BY <1>0, <2>3 DEF ClientTypes, CancelCancels, Go, Others, Scanning, Handing
  <2>4. CASE Look(c)
    <3>1. Others(c)
      BY <1>0, <2>4 DEF ClientTypes, Look, Next1, Others
    <3>2. list' = list
      BY <2>4 DEF Look
    <3> QED
      BY <2>4, <3>1, <3>2 DEF Scanning, Handing
  <2>5. CASE WaitForTask(c)
    <3>1. Others(c)
      BY <1>0, <2>5 DEF ClientTypes, WaitForTask, Throw, Leave, Go, Next1, Others
    <3>2. list' = list
      BY <2>5 DEF WaitForTask, Throw
    <3>3. pc'[c] \in {"threw", "join", "all"}
      BY <1>0, <2>5 DEF ClientTypes, WaitForTask, Throw, Leave, Go
    <3> QED
      BY <3>1, <3>2, <3>3 DEF Scanning, Handing
  <2>6. CASE Register(c)
    BY <1>0, <2>6 DEF ClientTypes, Register, Next1, Others, Scanning, Handing
  <2>7. CASE Unregister(c)
    BY <1>0, <2>7 DEF ClientTypes, Unregister, Next1, Others, Scanning, Handing
  <2> QED
    BY <1>3, <2>1, <2>2, <2>3, <2>4, <2>5, <2>6, <2>7 DEF LockingStep
<1> QED
  BY <1>1, <1>2, <1>3 DEF Step

\* Scans keep to the entries they pass.
LEMMA CollectedStep ==
  ASSUME ContainerInv, CollectedInv, [Next]_vars PROVE CollectedInv'
<1>0. ClientTypes
  BY DEF ContainerInv
<1>1. CASE UNCHANGED <<list, pc, at, ret>>
  BY <1>1 DEF CollectedInv
<1>2. ASSUME NEW c \in Containers, Step(c) PROVE CollectedInv'
  <2>1. Others(c) /\ Scanning(c)
    BY <1>2, StepDoes
  <2>2. ASSUME NEW d \in Containers, d # c, pc'[d] \in Scans, NEW t \in Tasks
        PROVE  Copies(ret'[d], t) <= CopiesUpTo(list'[d], at'[d] - 1, t)
    BY <2>1, <2>2 DEF Others, CollectedInv
  <2>3. ASSUME pc'[c] \in Scans, NEW t \in Tasks
        PROVE  Copies(ret'[c], t) <= CopiesUpTo(list'[c], at'[c] - 1, t)
    <3>1. CASE at'[c] = 1 /\ ret'[c] = <<>>
      <4>1. Copies(<<>>, t) = 0
        <5>1. {i \in DOMAIN <<>> : <<>>[i] = t} = {}
          OBVIOUS
        <5> QED
          BY <5>1, FS_EmptySet DEF Copies
      <4>2. CopiesUpTo(list'[c], 0, t) = 0
        BY CopiesUpToSteps
      <4> QED
        BY <3>1, <4>1, <4>2
    <3>2. CASE Look(c)
      <4> DEFINE n == at[c] - 1
                 e == list[c][at[c]]
      <4>1. /\ n \in Nat /\ at[c] = n + 1 /\ ret[c] \in Seq(Tasks) /\ pc[c] \in Scans
            /\ at[c] <= Len(list[c]) /\ list[c] \in Seq(Tasks) /\ at[c] \in Nat \ {0}
        <5>1. at[c] \in Nat \ {0} /\ ret[c] \in Seq(Tasks) /\ list[c] \in Seq(Tasks)
          BY <1>0 DEF ClientTypes
        <5>2. pc[c] \in Scans /\ at[c] <= Len(list[c])
          BY <3>2 DEF Look, More
        <5>3. n \in Nat /\ at[c] = n + 1
          BY <5>1
        <5> QED
          BY <5>1, <5>2, <5>3
      <4>2. e \in Tasks
        BY <4>1
      <4>3. /\ list'[c] = list[c] /\ at'[c] = at[c] + 1
            /\ ret'[c] = ret[c] \/ ret'[c] = Append(ret[c], e)
        BY <1>0, <3>2 DEF ClientTypes, Look, Next1, Here
      <4>4. Copies(ret[c], t) <= CopiesUpTo(list[c], n, t)
        BY <4>1 DEF CollectedInv
      <4>5. Copies(ret[c], t) \in Nat
        BY <4>1, CopiesOf
      <4>6. Copies(Append(ret[c], e), t) = IF e = t THEN Copies(ret[c], t) + 1 ELSE Copies(ret[c], t)
        BY <4>1, <4>2, CopiesAfterAppend
      <4>7. at'[c] - 1 = n + 1
        BY <4>1, <4>3
      <4>8. e = list[c][n + 1]
        BY <4>1
      <4> HIDE DEF n, e
      <4>9. /\ CopiesUpTo(list[c], n, t) \in Nat
            /\ CopiesUpTo(list[c], n + 1, t) =
                 IF list[c][n + 1] = t THEN CopiesUpTo(list[c], n, t) + 1
                                       ELSE CopiesUpTo(list[c], n, t)
        BY <4>1, CopiesUpToSteps
      <4>10. Copies(ret'[c], t) <= CopiesUpTo(list[c], n + 1, t)
        <5>1. CASE e = t
          <6>1. CopiesUpTo(list[c], n + 1, t) = CopiesUpTo(list[c], n, t) + 1
            BY <4>8, <4>9, <5>1
          <6>2. \/ Copies(ret'[c], t) = Copies(ret[c], t)
                \/ Copies(ret'[c], t) = Copies(ret[c], t) + 1
            BY <4>3, <4>6, <5>1
          <6> QED
            BY <4>4, <4>5, <4>9, <6>1, <6>2
        <5>2. CASE e # t
          <6>1. CopiesUpTo(list[c], n + 1, t) = CopiesUpTo(list[c], n, t)
            BY <4>8, <4>9, <5>2
          <6>2. Copies(ret'[c], t) = Copies(ret[c], t)
            BY <4>3, <4>6, <5>2
          <6> QED
            BY <4>4, <6>1, <6>2
        <5> QED
          BY <5>1, <5>2
      <4> QED
        BY <4>3, <4>7, <4>10
    <3> QED
      BY <2>1, <2>3, <3>1, <3>2 DEF Scanning
  <2> QED
    BY <2>2, <2>3 DEF CollectedInv
<1>3. ASSUME NEW t \in Tasks, RunTask(t) \/ CancelTask(t) \/ WorkerEnds(t) \/ TaskStep(t)
      PROVE  UNCHANGED <<list, pc, at, ret>>
  BY <1>3 DEF RunTask, CancelTask, WorkerEnds, TaskStep, StateChanged, FireEnds, clientVars
<1>4. CASE UNCHANGED vars
  BY <1>1, <1>4 DEF vars, clientVars
<1> QED
  BY <1>1, <1>2, <1>3, <1>4 DEF Next, Step

\* What a step may do to the list of a client that waits.
TakenBack(c) ==
  pc[c] \in Waiting =>
    \/ list'[c] = list[c]
    \/ /\ pc'[c] = "returned"
       /\ \A t \in Tasks :
            Copies(list[c], t) = Copies(list'[c], t) + Copies(ret'[c], t)

\* No step does anything else.
LEMMA EveryStepKeepsTasks ==
  ASSUME ContainerInv, CollectedInv, [Next]_vars, NEW c \in Containers
  PROVE  TakenBack(c)
<1>0. /\ ClientTypes /\ list[c] \in Seq(Tasks) /\ ret[c] \in Seq(Tasks)
      /\ at[c] \in Nat \ {0} /\ at[c] <= Len(list[c]) + 1
  BY DEF ContainerInv, ClientTypes, ClientInv, Place
<1>1. CASE UNCHANGED list
  BY <1>1 DEF TakenBack
<1>2. ASSUME NEW d \in Containers, Step(d), d # c PROVE TakenBack(c)
  BY <1>2, StepDoes DEF Others, TakenBack
<1>3. CASE Step(c)
  <2>1. Handing(c)
    BY <1>3, StepDoes
  <2>2. CASE pc'[c] = "returned" /\ list'[c] = <<>> /\ ret'[c] = list[c]
    <3>1. ASSUME NEW t \in Tasks PROVE Copies(<<>>, t) = 0 /\ Copies(list[c], t) \in Nat
      <4>1. {i \in DOMAIN <<>> : <<>>[i] = t} = {}
        OBVIOUS
      <4> QED
        BY <1>0, <4>1, FS_EmptySet, CopiesOf DEF Copies
    <3>2. \A t \in Tasks : Copies(list[c], t) = Copies(list'[c], t) + Copies(ret'[c], t)
      BY <2>2, <3>1
    <3> QED
      BY <2>2, <3>2 DEF TakenBack
  <2>3. CASE pc[c] \in Scans /\ HandOver(c)
    <3>1. /\ pc'[c] = "returned" /\ list'[c] = Without(list[c], ret[c])
          /\ ret'[c] = ret[c]
      BY <1>0, <2>3 DEF HandOver, Leave, Go, ClientTypes
    <3>2. ASSUME NEW t \in Tasks PROVE Copies(ret[c], t) <= Copies(list[c], t)
      <4>1. Copies(ret[c], t) <= CopiesUpTo(list[c], at[c] - 1, t)
        BY <2>3 DEF CollectedInv
      <4>2. at[c] - 1 \in Nat /\ Len(list[c]) \in Nat /\ at[c] - 1 <= Len(list[c])
        BY <1>0
      <4>3. CopiesUpTo(list[c], at[c] - 1, t) <= CopiesUpTo(list[c], Len(list[c]), t)
        BY <4>2, CopiesUpToGrows
      <4>4. CopiesUpTo(list[c], Len(list[c]), t) = Copies(list[c], t)
        <5>1. DOMAIN list[c] = 1..Len(list[c])
          BY <1>0
        <5> QED
          BY <5>1 DEF Copies, CopiesUpTo
      <4>5. /\ Copies(ret[c], t) \in Nat /\ CopiesUpTo(list[c], at[c] - 1, t) \in Nat
            /\ Copies(list[c], t) \in Nat
        BY <1>0, <4>2, CopiesOf, CopiesUpToSteps
      <4> QED
        BY <4>1, <4>3, <4>4, <4>5
    <3>3. \A t \in Tasks : Copies(list[c], t) = Copies(Without(list[c], ret[c]), t) + Copies(ret[c], t)
      BY <1>0, <3>2, WithoutCounts
    <3> QED
      BY <3>1, <3>3 DEF TakenBack
  <2>4. CASE pc[c] \in Outside \/ list'[c] = list[c]
    BY <2>4 DEF TakenBack
  <2> QED
    BY <2>1, <2>2, <2>3, <2>4 DEF Handing
<1>4. ASSUME NEW t \in Tasks, RunTask(t) \/ CancelTask(t) \/ WorkerEnds(t) \/ TaskStep(t)
      PROVE  UNCHANGED list
  BY <1>4 DEF RunTask, CancelTask, WorkerEnds, TaskStep, StateChanged, FireEnds, clientVars
<1>5. CASE UNCHANGED vars
  BY <1>1, <1>5 DEF vars, clientVars
<1> QED
  BY <1>1, <1>2, <1>3, <1>4, <1>5 DEF Next, Step

\* Tasks leave a container in which its client waits only into the hands of the
\* caller, copy by copy (remove_returned_tasks, task_container.cpp).
THEOREM TasksAreHandedOver == Spec => NoTaskIsLost
<1>1. Init => CollectedInv
  BY DEF Init, CollectedInv
<1>2. ContainerInv /\ CollectedInv /\ [Next]_vars => CollectedInv'
  BY CollectedStep
<1>3. Spec => []CollectedInv
  BY <1>1, <1>2, ContainerInvariant, PTL DEF Spec
<1>4. ASSUME ContainerInv, CollectedInv, [Next]_vars
      PROVE  \A c \in Containers :
               pc[c] \in Waiting =>
                 \/ list'[c] = list[c]
                 \/ /\ pc'[c] = "returned"
                    /\ \A t \in Tasks :
                         Copies(list[c], t) = Copies(list'[c], t) + Copies(ret'[c], t)
  BY <1>4, EveryStepKeepsTasks DEF TakenBack
<1> QED
  BY <1>3, <1>4, ContainerInvariant, PTL DEF Spec, NoTaskIsLost
=============================================================================
