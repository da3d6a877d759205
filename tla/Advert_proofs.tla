--------------------------- MODULE Advert_proofs ---------------------------
(* Proofs about Advert, for any threads, instances, paths and flags.          *)
EXTENDS Advert, WellFoundedInduction, TLAPS

----------------------------------------------------------------------------
(* Walks along a path.  Find and WithPath are folds: functions defined by     *)
(* recursion over sets of positions.                                          *)

\* Induction over the naturals, for a set of them.
LEMMA SetInduction ==
  ASSUME NEW T \in SUBSET Nat, 0 \in T, \A n \in T : n + 1 \in T
  PROVE  \A n \in Nat : n \in T
<1> DEFINE B == Nat \ T
           R == OpToRel(<, Nat)
<1>1. SUFFICES ASSUME B # {} PROVE FALSE
  OBVIOUS
<1>2. IsWellFoundedOn(R, Nat)
  BY NatLessThanWellFounded
<1> HIDE DEF R
<1>3. PICK x \in B : \A y \in B : ~(<<y, x>> \in R)
  BY <1>1, <1>2, WFMin
<1>4. \A y \in B : ~(y < x)
  BY <1>3 DEF OpToRel, R
<1>5. x - 1 \in Nat /\ x - 1 < x
  OBVIOUS
<1> QED
  BY <1>4, <1>5

\* A set of numbers up to n has a largest one.
LEMMA MaxOf ==
  ASSUME NEW n \in Nat, NEW x \in SUBSET (1..n), x # {}
  PROVE  /\ Max(x) \in x
         /\ \A y \in x : y <= Max(x)
<1> DEFINE Bounded(m) == \A z \in SUBSET (1..m) : z # {} => \E i \in z : \A y \in z : i >= y
           T == {m \in Nat : Bounded(m)}
<1>1. 0 \in T
  <2>1. 1..0 = {}
    OBVIOUS
  <2>2. Bounded(0)
    BY <2>1
  <2> QED
    BY <2>2
<1>2. ASSUME NEW m \in T PROVE m + 1 \in T
  <2>1. SUFFICES ASSUME NEW z \in SUBSET (1..(m + 1)), z # {}
                 PROVE  \E i \in z : \A y \in z : i >= y
    BY <1>2
  <2>2. CASE m + 1 \in z
    BY <1>2, <2>2
  <2>3. CASE m + 1 \notin z
    <3>1. z \in SUBSET (1..m)
      BY <1>2, <2>3
    <3> QED
      BY <1>2, <2>1, <3>1
  <2> QED
    BY <2>2, <2>3
<1> HIDE DEF T
<1>3. n \in T
  <2>1. T \in SUBSET Nat
    BY DEF T
  <2> QED
    BY <1>1, <1>2, <2>1, SetInduction
<1>4. \E i \in x : \A y \in x : i >= y
  BY <1>3 DEF T
<1>5. Max(x) \in x /\ \A y \in x : Max(x) >= y
  BY <1>4 DEF Max
<1> QED
  BY <1>5

\* The first k + 1 numbers, and the first k.
LEMMA IntervalMax ==
  ASSUME NEW n \in Nat, NEW k \in 0..(n - 1)
  PROVE  /\ 1..(k + 1) \in SUBSET (1..n)
         /\ 1..(k + 1) # {}
         /\ Max(1..(k + 1)) = k + 1
         /\ (1..(k + 1)) \ {Max(1..(k + 1))} = 1..k
<1>1. 1..(k + 1) \in SUBSET (1..n) /\ 1..(k + 1) # {} /\ k + 1 \in Nat
  <2>1. \A i \in 1..(k + 1) : i \in 1..n
    OBVIOUS
  <2>2. 1 \in 1..(k + 1)
    OBVIOUS
  <2> QED
    BY <2>1, <2>2
<1>2. Max(1..(k + 1)) = k + 1
  <2>1. /\ Max(1..(k + 1)) \in 1..(k + 1)
        /\ \A y \in 1..(k + 1) : y <= Max(1..(k + 1))
    BY <1>1, MaxOf
  <2>2. k + 1 \in 1..(k + 1)
    BY <1>1
  <2> QED
    BY <1>1, <2>1, <2>2
<1>3. (1..(k + 1)) \ {k + 1} = 1..k
  OBVIOUS
<1> QED
  BY <1>1, <1>2, <1>3

\* The recursive definition of a fold over the positions 1..n.
Folds(f, s, g, n) ==
  f = [x \in SUBSET (1..n) |-> IF x = {} THEN s ELSE g[Max(x)][f[x \ {Max(x)}]]]

\* A fold over the positions 1..n whose steps stay in the set A: there is a
\* function as its recursive definition asks for.
LEMMA FoldExists ==
  ASSUME NEW A, NEW s \in A, NEW n \in Nat, NEW g \in [1..n -> [A -> A]]
  PROVE  \E f \in [SUBSET (1..n) -> A] : Folds(f, s, g, n)
<1> DEFINE F(f, m) == f = [x \in SUBSET (1..m) |->
                             IF x = {} THEN s ELSE g[Max(x)][f[x \ {Max(x)}]]]
           T == {m \in Nat : m <= n => \E f \in [SUBSET (1..m) -> A] : F(f, m)}
<1>1. 0 \in T
  <2>1. SUBSET (1..0) = {{}}
    OBVIOUS
  <2> DEFINE h == [x \in SUBSET (1..0) |-> s]
  <2>2. h \in [SUBSET (1..0) -> A]
    OBVIOUS
  <2>3. F(h, 0)
    BY <2>1
  <2> QED
    BY <2>2, <2>3
<1>2. ASSUME NEW m \in T PROVE m + 1 \in T
  <2>1. m \in Nat /\ m + 1 \in Nat
    BY <1>2
  <2>2. SUFFICES ASSUME m + 1 <= n
                 PROVE  \E f \in [SUBSET (1..(m + 1)) -> A] : F(f, m + 1)
    BY <2>1
  <2>3. PICK f \in [SUBSET (1..m) -> A] : F(f, m)
    <3>1. m <= n
      BY <2>1, <2>2
    <3> HIDE DEF F
    <3> QED
      BY <1>2, <3>1
  <2> DEFINE h == [x \in SUBSET (1..(m + 1)) |->
                     IF x = {} THEN s ELSE g[Max(x)][f[x \ {Max(x)}]]]
  <2>4. ASSUME NEW x \in SUBSET (1..m) PROVE h[x] = f[x]
    <3>1. x \in SUBSET (1..(m + 1))
      BY <2>1
    <3>2. h[x] = IF x = {} THEN s ELSE g[Max(x)][f[x \ {Max(x)}]]
      BY <3>1
    <3>3. f[x] = IF x = {} THEN s ELSE g[Max(x)][f[x \ {Max(x)}]]
      BY <2>3
    <3> QED
      BY <3>2, <3>3
  <2>5. ASSUME NEW x \in SUBSET (1..(m + 1)), x # {}
        PROVE  Max(x) \in 1..n /\ x \ {Max(x)} \in SUBSET (1..m)
    <3>1. Max(x) \in x /\ \A y \in x : y <= Max(x)
      BY <2>1, <2>5, MaxOf
    <3>2. Max(x) \in 1..(m + 1)
      BY <3>1
    <3>3. Max(x) \in 1..n
      BY <2>1, <2>2, <3>2
    <3>4. ASSUME NEW y \in x, y # Max(x) PROVE y \in 1..m
      BY <2>1, <3>1, <3>2, <3>4
    <3> QED
      BY <3>3, <3>4
  <2>6. h \in [SUBSET (1..(m + 1)) -> A]
    <3>1. ASSUME NEW x \in SUBSET (1..(m + 1)), x # {}
          PROVE  g[Max(x)][f[x \ {Max(x)}]] \in A
      <4>1. Max(x) \in 1..n /\ f[x \ {Max(x)}] \in A
        BY <2>3, <2>5, <3>1
      <4> QED
        BY <4>1
    <3> QED
      BY <3>1
  <2>7. F(h, m + 1)
    <3>1. ASSUME NEW x \in SUBSET (1..(m + 1)), x # {}
          PROVE  g[Max(x)][f[x \ {Max(x)}]] = g[Max(x)][h[x \ {Max(x)}]]
      BY <2>4, <2>5, <3>1
    <3> DEFINE k == [x \in SUBSET (1..(m + 1)) |->
                       IF x = {} THEN s ELSE g[Max(x)][h[x \ {Max(x)}]]]
    <3>2. ASSUME NEW x \in SUBSET (1..(m + 1)) PROVE h[x] = k[x]
      BY <3>1
    <3>3. h = k
      BY <3>2
    <3> QED
      BY <3>3
  <2> QED
    BY <2>6, <2>7
<1>3. T \in SUBSET Nat
  OBVIOUS
<1>4. n \in T
  <2> HIDE DEF T
  <2> QED
    BY <1>1, <1>2, <1>3, SetInduction
<1>5. PICK f \in [SUBSET (1..n) -> A] : F(f, n)
  <2>1. n <= n
    OBVIOUS
  <2> HIDE DEF F
  <2> QED
    BY <1>4, <2>1
<1>6. Folds(f, s, g, n)
  BY <1>5, Zenon DEF Folds
<1> QED
  BY <1>6

----------------------------------------------------------------------------
(* The tree, and what grows in it. *)

\* The rows; that the name of the root is a string is beyond the provers.
Rows  == [name : STRING \cup {"__root__"}, parent : Nat, dir : BOOLEAN]
Trees == UNION {[S -> Rows] : S \in SUBSET (Nat \ {0})}

\* A tree below the next free id in which no directory has two nodes of one
\* name.
GoodTree(tree, next) ==
  /\ tree \in Trees
  /\ \A id \in DOMAIN tree : id < next /\ tree[id].parent < next
  /\ \A m, n \in DOMAIN tree :
       (tree[m].parent = tree[n].parent /\ tree[m].name = tree[n].name) => m = n

\* The type of a tree, by its nodes.
LEMMA TreesAre ==
  ASSUME NEW tree \in Trees
  PROVE  /\ DOMAIN tree \subseteq Nat \ {0}
         /\ tree \in [DOMAIN tree -> Rows]
<1>1. PICK S \in SUBSET (Nat \ {0}) : tree \in [S -> Rows]
  BY DEF Trees
<1>2. DOMAIN tree = S
  BY <1>1
<1> QED
  BY <1>1, <1>2

\* Child finds a node of that name below the parent, if there is one.
LEMMA ChildIs ==
  ASSUME NEW tree, DOMAIN tree \subseteq Nat \ {0}, NEW parent, NEW name
  PROVE  \/ /\ Child(tree, parent, name) = NoNode
            /\ \A id \in DOMAIN tree : ~(tree[id].parent = parent /\ tree[id].name = name)
         \/ /\ Child(tree, parent, name) \in DOMAIN tree
            /\ Child(tree, parent, name) # NoNode
            /\ tree[Child(tree, parent, name)].parent = parent
            /\ tree[Child(tree, parent, name)].name = name
<1> DEFINE here == {id \in DOMAIN tree : tree[id].parent = parent /\ tree[id].name = name}
<1>1. CASE here = {}
  BY <1>1 DEF Child
<1>2. CASE here # {}
  <2>1. here \in SUBSET Nat
    OBVIOUS
  <2>2. PICK k \in here : \A i \in here : ~(<<i, k>> \in OpToRel(<, Nat))
    <3> HIDE DEF here
    <3> QED
      BY <1>2, <2>1, NatLessThanWellFounded, WFMin
  <2>3. \A i \in here : k =< i
    <3>1. \A i \in here : ~(i < k)
      <4> HIDE DEF here
      <4> QED
        BY <2>1, <2>2 DEF OpToRel
    <3> HIDE DEF here
    <3> QED
      BY <2>1, <3>1
  <2>4. Min(here) \in here
    <3> HIDE DEF here
    <3> QED
      BY <2>3 DEF Min
  <2>5. Child(tree, parent, name) = Min(here)
    BY <1>2 DEF Child
  <2>6. Min(here) # NoNode
    BY <2>4 DEF NoNode
  <2> QED
    BY <2>4, <2>5, <2>6
<1> QED
  BY <1>1, <1>2

\* Child is a number.
LEMMA ChildType ==
  ASSUME NEW tree, DOMAIN tree \subseteq Nat \ {0}, NEW parent, NEW name
  PROVE  Child(tree, parent, name) \in Nat
BY ChildIs DEF NoNode

\* find walks down one child at a time.
LEMMA FindSteps ==
  ASSUME DOMAIN nodes \subseteq Nat \ {0}, NEW path \in Seq(STRING)
  PROVE  \E h : /\ h[0] = Root
                /\ \A k \in 0..(Len(path) - 1) :
                     h[k + 1] = IF h[k] = NoNode THEN NoNode
                                ELSE Child(nodes, h[k], path[k + 1])
                /\ Find(path) = h[Len(path)]
<1> DEFINE n == Len(path)
           g == [i \in 1..n |-> [id \in Nat |->
                   IF id = NoNode THEN NoNode ELSE Child(nodes, id, path[i])]]
           F(f) == f = [x \in SUBSET (1..n) |->
                     IF x = {} THEN Root
                     ELSE IF f[x \ {Max(x)}] = NoNode THEN NoNode
                          ELSE Child(nodes, f[x \ {Max(x)}], path[Max(x)])]
           iter == CHOOSE f : F(f)
<1>1. n \in Nat /\ DOMAIN path = 1..n
  OBVIOUS
<1>2. Root \in Nat
  BY DEF Root
<1>3. g \in [1..n -> [Nat -> Nat]]
  <2>1. ASSUME NEW i \in 1..n, NEW id \in Nat
        PROVE  (IF id = NoNode THEN NoNode ELSE Child(nodes, id, path[i])) \in Nat
    <3>1. Child(nodes, id, path[i]) \in Nat
      BY ChildType
    <3> QED
      BY <3>1 DEF NoNode
  <2> QED
    BY <2>1
<1>4. PICK f1 \in [SUBSET (1..n) -> Nat] : Folds(f1, Root, g, n)
  <2> HIDE DEF g, n
  <2> QED
    BY <1>1, <1>2, <1>3, FoldExists
<1>5. ASSUME NEW x \in SUBSET (1..n), x # {}
      PROVE  Max(x) \in 1..n /\ x \ {Max(x)} \in SUBSET (1..n)
  <2> HIDE DEF n
  <2>1. Max(x) \in x
    BY <1>1, <1>5, MaxOf
  <2> QED
    BY <2>1
<1>6. F(f1)
  <2>1. ASSUME NEW x \in SUBSET (1..n), x # {}
        PROVE  g[Max(x)][f1[x \ {Max(x)}]]
                 = IF f1[x \ {Max(x)}] = NoNode THEN NoNode
                   ELSE Child(nodes, f1[x \ {Max(x)}], path[Max(x)])
    <3>1. Max(x) \in 1..n /\ f1[x \ {Max(x)}] \in Nat
      BY <1>4, <1>5, <2>1
    <3> QED
      BY <3>1
  <2> DEFINE k == [x \in SUBSET (1..n) |->
                     IF x = {} THEN Root
                     ELSE IF f1[x \ {Max(x)}] = NoNode THEN NoNode
                          ELSE Child(nodes, f1[x \ {Max(x)}], path[Max(x)])]
             l == [x \in SUBSET (1..n) |->
                     IF x = {} THEN Root ELSE g[Max(x)][f1[x \ {Max(x)}]]]
  <2>2. l = k
    <3> HIDE DEF g
    <3> QED
      BY <2>1
  <2>3. f1 = l
    BY <1>4, Zenon DEF Folds
  <2>4. f1 = k
    BY <2>2, <2>3, Zenon
  <2> QED
    BY <2>4, Zenon
<1>7. F(iter)
  <2> HIDE DEF F
  <2> QED
    BY <1>6, Zenon
<1>8. Find(path) = iter[1..n]
  BY <1>1 DEF Find, FoldLeft, MapThenFoldSet
<1> HIDE DEF iter
<1> DEFINE h == [k \in 0..n |-> iter[1..k]]
<1>9. h[0] = Root
  <2>1. 0 \in 0..n /\ 1..0 = {} /\ {} \in SUBSET (1..n)
    BY <1>1
  <2>2. iter[{}] = Root
    BY <1>7, <2>1
  <2> QED
    BY <2>1, <2>2
<1>10. ASSUME NEW k \in 0..(n - 1)
       PROVE  h[k + 1] = IF h[k] = NoNode THEN NoNode ELSE Child(nodes, h[k], path[k + 1])
  <2>1. k \in 0..n /\ k + 1 \in 0..n
    BY <1>1
  <2> DEFINE x == 1..(k + 1)
  <2>2. x \in SUBSET (1..n) /\ x # {} /\ Max(x) = k + 1 /\ x \ {Max(x)} = 1..k
    BY <1>1, IntervalMax
  <2>3. iter[x] = IF iter[x \ {Max(x)}] = NoNode THEN NoNode
                  ELSE Child(nodes, iter[x \ {Max(x)}], path[Max(x)])
    <3> HIDE DEF x
    <3> QED
      BY <1>7, <2>2
  <2> QED
    BY <2>1, <2>2, <2>3
<1>11. h[n] = iter[1..n]
  BY <1>1
<1> HIDE DEF h
<1> QED
  BY <1>8, <1>9, <1>10, <1>11

\* What find finds has the last name of the path.
LEMMA FindIs ==
  ASSUME DOMAIN nodes \subseteq Nat \ {0}, NEW path \in Seq(STRING), path # <<>>
  PROVE  \/ Find(path) = NoNode
         \/ Find(path) \in DOMAIN nodes /\ nodes[Find(path)].name = Last(path)
<1> DEFINE n == Len(path)
<1>1. PICK h : /\ \A k \in 0..(n - 1) :
                    h[k + 1] = IF h[k] = NoNode THEN NoNode
                               ELSE Child(nodes, h[k], path[k + 1])
               /\ Find(path) = h[n]
  BY FindSteps
<1>2. n - 1 \in 0..(n - 1) /\ (n - 1) + 1 = n
  OBVIOUS
<1>3. h[n] = IF h[n - 1] = NoNode THEN NoNode ELSE Child(nodes, h[n - 1], path[n])
  <2> HIDE DEF n
  <2> QED
    BY <1>1, <1>2
<1>4. Last(path) = path[n]
  BY DEF Last
<1> HIDE DEF n
<1>5. CASE h[n - 1] = NoNode
  BY <1>1, <1>3, <1>5
<1>6. CASE h[n - 1] # NoNode
  <2>1. Find(path) = Child(nodes, h[n - 1], path[n])
    BY <1>1, <1>3, <1>6
  <2> QED
    BY <1>4, <2>1, ChildIs
<1> QED
  BY <1>5, <1>6

\* Where the walk with create is: a good tree that has grown from nodes.
Walks ==
  {a \in [tree : Trees, id : Nat, next : Nat] :
     /\ GoodTree(a.tree, a.next)
     /\ a.id < a.next
     /\ nextId <= a.next
     /\ \A m \in DOMAIN nodes : m \in DOMAIN a.tree /\ a.tree[m] = nodes[m]
     /\ \A m \in DOMAIN a.tree : m \in DOMAIN nodes \/ m >= nextId}

\* A step of that walk: the part of the path is there.
LEMMA InsertFinds ==
  ASSUME NEW a \in Walks, NEW path \in Seq(STRING), NEW kind, NEW i \in 1..Len(path),
         NEW c, c = Child(a.tree, a.id, path[i]), c # NoNode
  PROVE  /\ Insert(a, path, kind, i) = [tree |-> a.tree, id |-> c, next |-> a.next]
         /\ c \in DOMAIN a.tree
         /\ a.tree[c].parent = a.id
         /\ a.tree[c].name = path[i]
<1>1. a.tree \in Trees /\ a \in [tree : Trees, id : Nat, next : Nat]
  BY DEF Walks
<1>2. DOMAIN a.tree \subseteq Nat \ {0}
  BY <1>1, TreesAre
<1>3. Insert(a, path, kind, i) = [tree |-> a.tree, id |-> c, next |-> a.next]
  BY <1>1 DEF Insert
<1>4. /\ c \in DOMAIN a.tree
      /\ a.tree[c].parent = a.id
      /\ a.tree[c].name = path[i]
  BY <1>2, ChildIs
<1> QED
  BY <1>3, <1>4

\* The row that is appended, and the tree with it.
RowFor(a, path, kind, i) ==
  [name |-> path[i], parent |-> a.id, dir |-> i < Len(path) \/ kind = "dir"]
Appended(tree, next, row) ==
  [m \in DOMAIN tree \cup {next} |-> IF m = next THEN row ELSE tree[m]]

\* A step of that walk: the part of the path is not there.
LEMMA InsertAppends ==
  ASSUME NEW a \in Walks, NEW path \in Seq(STRING), NEW kind, NEW i \in 1..Len(path),
         Child(a.tree, a.id, path[i]) = NoNode
  PROVE  /\ \A m \in DOMAIN a.tree : ~(a.tree[m].parent = a.id /\ a.tree[m].name = path[i])
         /\ Insert(a, path, kind, i)
              = [tree |-> Appended(a.tree, a.next, RowFor(a, path, kind, i)),
                 id |-> a.next, next |-> a.next + 1]
<1>1. a.tree \in Trees
  BY DEF Walks
<1>2. DOMAIN a.tree \subseteq Nat \ {0}
  BY <1>1, TreesAre
<1>3. \A m \in DOMAIN a.tree : ~(a.tree[m].parent = a.id /\ a.tree[m].name = path[i])
  BY <1>2, ChildIs DEF NoNode
<1>4. Insert(a, path, kind, i)
        = [tree |-> Appended(a.tree, a.next, RowFor(a, path, kind, i)),
           id |-> a.next, next |-> a.next + 1]
  BY DEF Insert, Appended, RowFor
<1> QED
  BY <1>3, <1>4

\* A row more under the next free id, where there was none of its name.
LEMMA TreeGrows ==
  ASSUME NEW tree, NEW next \in Nat \ {0}, GoodTree(tree, next),
         NEW row \in Rows, row.parent < next,
         \A m \in DOMAIN tree : ~(tree[m].parent = row.parent /\ tree[m].name = row.name),
         NEW b, b = Appended(tree, next, row)
  PROVE  GoodTree(b, next + 1)
<1> USE DEF Appended
<1>1. DOMAIN tree \subseteq Nat \ {0} /\ tree \in [DOMAIN tree -> Rows]
  BY TreesAre DEF GoodTree
<1>2. DOMAIN b = DOMAIN tree \cup {next} /\ b[next] = row
  OBVIOUS
<1>3. ASSUME NEW m \in DOMAIN tree PROVE m # next /\ b[m] = tree[m]
  <2>1. m \in Nat /\ m < next
    BY <1>1 DEF GoodTree
  <2>2. m # next
    BY <2>1
  <2> QED
    BY <2>2
<1>4. b \in Trees
  <2>1. DOMAIN tree \cup {next} \in SUBSET (Nat \ {0})
    BY <1>1
  <2>2. b \in [DOMAIN tree \cup {next} -> Rows]
    BY <1>1
  <2> QED
    BY <2>1, <2>2 DEF Trees
<1>5. ASSUME NEW m \in DOMAIN b PROVE m < next + 1 /\ b[m].parent < next + 1
  <2>1. CASE m = next
    <3>1. row.parent \in Nat
      BY DEF Rows
    <3> QED
      BY <1>2, <2>1, <3>1
  <2>2. CASE m # next
    <3>1. m \in DOMAIN tree
      BY <1>2, <1>5, <2>2
    <3>2. m \in Nat /\ tree[m].parent \in Nat /\ m < next /\ tree[m].parent < next
      BY <1>1, <3>1 DEF GoodTree, Rows
    <3> QED
      BY <1>3, <3>1, <3>2
  <2> QED
    BY <2>1, <2>2
<1>6. ASSUME NEW m \in DOMAIN b, NEW k \in DOMAIN b,
             b[m].parent = b[k].parent, b[m].name = b[k].name
      PROVE  m = k
  <2>1. CASE m = next /\ k # next
    BY <1>2, <1>3, <1>6, <2>1
  <2>2. CASE m # next /\ k = next
    BY <1>2, <1>3, <1>6, <2>2
  <2>3. CASE m # next /\ k # next
    <3>1. m \in DOMAIN tree /\ k \in DOMAIN tree
      BY <1>2, <1>6, <2>3
    <3>2. tree[m].parent = tree[k].parent /\ tree[m].name = tree[k].name
      BY <1>3, <1>6, <3>1
    <3> QED
      BY <3>1, <3>2 DEF GoodTree
  <2> QED
    BY <2>1, <2>2, <2>3
<1> HIDE DEF Appended
<1> QED
  BY <1>4, <1>5, <1>6 DEF GoodTree

\* The walk stays good.
LEMMA InsertKeeps ==
  ASSUME nextId \in Nat \ {0},
         NEW a \in Walks, NEW path \in Seq(STRING), NEW kind, NEW i \in 1..Len(path)
  PROVE  Insert(a, path, kind, i) \in Walks
<1> DEFINE new == Insert(a, path, kind, i)
           c == Child(a.tree, a.id, path[i])
<1>1. /\ a \in [tree : Trees, id : Nat, next : Nat]
      /\ GoodTree(a.tree, a.next)
      /\ a.id < a.next
      /\ nextId <= a.next
      /\ \A m \in DOMAIN nodes : m \in DOMAIN a.tree /\ a.tree[m] = nodes[m]
      /\ \A m \in DOMAIN a.tree : m \in DOMAIN nodes \/ m >= nextId
  BY DEF Walks
<1>2. CASE c # NoNode
  <2>1. /\ new = [tree |-> a.tree, id |-> c, next |-> a.next]
        /\ c \in DOMAIN a.tree
    <3> HIDE DEF c
    <3>1. c = Child(a.tree, a.id, path[i])
      BY DEF c
    <3> QED
      BY <1>2, <3>1, InsertFinds
  <2>2. c \in Nat /\ c < a.next
    <3>1. DOMAIN a.tree \subseteq Nat \ {0}
      BY <1>1, TreesAre DEF GoodTree
    <3>2. c < a.next
      BY <1>1, <2>1 DEF GoodTree
    <3> QED
      BY <2>1, <3>1, <3>2
  <2> HIDE DEF c
  <2>3. /\ new \in [tree : Trees, id : Nat, next : Nat]
        /\ new.tree = a.tree /\ new.id = c /\ new.next = a.next
    BY <1>1, <2>1, <2>2
  <2> HIDE DEF new
  <2>4. new \in Walks
    BY <1>1, <2>2, <2>3 DEF Walks
  <2> QED
    BY <2>4 DEF new
<1>3. CASE c = NoNode
  <2> DEFINE row == RowFor(a, path, kind, i)
             b == Appended(a.tree, a.next, row)
  <2>1. /\ \A m \in DOMAIN a.tree : ~(a.tree[m].parent = a.id /\ a.tree[m].name = path[i])
        /\ new = [tree |-> b, id |-> a.next, next |-> a.next + 1]
    BY <1>3, InsertAppends
  <2> HIDE DEF b
  <2>0. new.tree = b /\ new.id = a.next /\ new.next = a.next + 1
    BY <2>1
  <2> HIDE DEF new
  <2>2. /\ row \in Rows /\ row.parent = a.id /\ row.name = path[i]
    <3>1. path[i] \in STRING
      OBVIOUS
    <3>2. (i < Len(path) \/ kind = "dir") \in BOOLEAN
      OBVIOUS
    <3> QED
      BY <1>1, <3>1, <3>2 DEF Rows, RowFor
  <2>3. a.next \in Nat \ {0} /\ a.next + 1 \in Nat /\ a.next < a.next + 1
    BY <1>1
  <2> HIDE DEF row
  <2>4. GoodTree(new.tree, a.next + 1)
    <3>1. b = Appended(a.tree, a.next, row)
      BY DEF b
    <3>2. \A m \in DOMAIN a.tree :
            ~(a.tree[m].parent = row.parent /\ a.tree[m].name = row.name)
      BY <2>1, <2>2
    <3>3. GoodTree(b, a.next + 1)
      BY <1>1, <2>2, <2>3, <3>1, <3>2, TreeGrows
    <3> QED
      BY <2>0, <3>3
  <2>5. DOMAIN new.tree = DOMAIN a.tree \cup {a.next}
    BY <2>0 DEF b, Appended
  <2>6. ASSUME NEW m \in DOMAIN nodes PROVE m \in DOMAIN new.tree /\ new.tree[m] = nodes[m]
    <3>1. m \in DOMAIN a.tree /\ a.tree[m] = nodes[m]
      BY <1>1
    <3>2. m < a.next
      BY <1>1, <3>1 DEF GoodTree
    <3>3. m # a.next
      BY <2>3, <3>2
    <3> QED
      BY <2>0, <2>5, <3>1, <3>3 DEF b, Appended
  <2>7. ASSUME NEW m \in DOMAIN new.tree PROVE m \in DOMAIN nodes \/ m >= nextId
    BY <1>1, <2>3, <2>5
  <2>8. new.tree \in Trees
    BY <2>4 DEF GoodTree
  <2>9. new \in [tree : Trees, id : Nat, next : Nat]
    <3>1. new.id \in Nat /\ new.next \in Nat
      BY <1>1, <2>0, <2>3
    <3> QED
      BY <2>0, <2>1, <2>8, <3>1
  <2>10. new.id < new.next /\ nextId <= new.next /\ GoodTree(new.tree, new.next)
    BY <1>1, <2>0, <2>3, <2>4
  <2>11. new \in Walks
    BY <2>6, <2>7, <2>9, <2>10 DEF Walks
  <2> QED
    BY <2>11 DEF new
<1> QED
  BY <1>2, <1>3

\* WithPath walks down one part at a time.
LEMMA WithPathSteps ==
  ASSUME nextId \in Nat \ {0, 1}, GoodTree(nodes, nextId),
         NEW path \in Seq(STRING), NEW kind
  PROVE  \E w : /\ w[0] = [tree |-> nodes, id |-> Root, next |-> nextId]
                /\ \A k \in 0..(Len(path) - 1) :
                     w[k + 1] = Insert(w[k], path, kind, k + 1)
                /\ \A k \in 0..Len(path) : w[k] \in Walks
                /\ WithPath(path, kind) = w[Len(path)]
<1> DEFINE n == Len(path)
           s == [tree |-> nodes, id |-> Root, next |-> nextId]
           g == [i \in 1..n |-> [a \in Walks |-> Insert(a, path, kind, i)]]
           F(f) == f = [x \in SUBSET (1..n) |->
                     IF x = {} THEN s ELSE Insert(f[x \ {Max(x)}], path, kind, Max(x))]
           iter == CHOOSE f : F(f)
<1>1. n \in Nat /\ DOMAIN path = 1..n
  OBVIOUS
<1>2. s \in Walks
  <2>1. nodes \in Trees
    BY DEF GoodTree
  <2>2. s \in [tree : Trees, id : Nat, next : Nat]
    BY <2>1 DEF Root
  <2>3. s.tree = nodes /\ s.id = Root /\ s.next = nextId
    OBVIOUS
  <2> HIDE DEF s
  <2> QED
    BY <2>2, <2>3 DEF Walks, Root
<1>3. g \in [1..n -> [Walks -> Walks]]
  <2>1. ASSUME NEW i \in 1..n, NEW a \in Walks PROVE Insert(a, path, kind, i) \in Walks
    BY InsertKeeps
  <2> QED
    BY <2>1
<1>4. PICK f1 \in [SUBSET (1..n) -> Walks] : Folds(f1, s, g, n)
  <2> HIDE DEF g, n, s
  <2> QED
    BY <1>1, <1>2, <1>3, FoldExists
<1>5. ASSUME NEW x \in SUBSET (1..n), x # {}
      PROVE  Max(x) \in 1..n /\ x \ {Max(x)} \in SUBSET (1..n)
  <2> HIDE DEF n
  <2>1. Max(x) \in x
    BY <1>1, <1>5, MaxOf
  <2> QED
    BY <2>1
<1>6. F(f1)
  <2>1. ASSUME NEW x \in SUBSET (1..n), x # {}
        PROVE  g[Max(x)][f1[x \ {Max(x)}]] = Insert(f1[x \ {Max(x)}], path, kind, Max(x))
    <3>1. Max(x) \in 1..n /\ f1[x \ {Max(x)}] \in Walks
      BY <1>4, <1>5, <2>1
    <3> QED
      BY <3>1
  <2> DEFINE k == [x \in SUBSET (1..n) |->
                     IF x = {} THEN s ELSE Insert(f1[x \ {Max(x)}], path, kind, Max(x))]
             l == [x \in SUBSET (1..n) |->
                     IF x = {} THEN s ELSE g[Max(x)][f1[x \ {Max(x)}]]]
  <2>2. l = k
    <3> HIDE DEF g, s
    <3> QED
      BY <2>1
  <2>3. f1 = l
    BY <1>4, Zenon DEF Folds
  <2>4. f1 = k
    BY <2>2, <2>3, Zenon
  <2> QED
    BY <2>4, Zenon
<1>7. F(iter)
  <2> HIDE DEF F
  <2> QED
    BY <1>6, Zenon
<1>8. WithPath(path, kind) = iter[1..n]
  <2> DEFINE q == [i \in DOMAIN path |-> i]
             H(f) == f = [x \in SUBSET (1..n) |->
                       IF x = {} THEN s ELSE Insert(f[x \ {Max(x)}], path, kind, q[Max(x)])]
  <2>1. WithPath(path, kind) = (CHOOSE f : H(f))[1..n]
    BY <1>1 DEF WithPath, FoldLeftDomain, FoldLeft, MapThenFoldSet
  <2>2. ASSUME NEW f PROVE H(f) <=> F(f)
    <3>1. ASSUME NEW x \in SUBSET (1..n), x # {} PROVE q[Max(x)] = Max(x)
      BY <1>1, <1>5, <3>1
    <3> DEFINE k == [x \in SUBSET (1..n) |->
                       IF x = {} THEN s ELSE Insert(f[x \ {Max(x)}], path, kind, Max(x))]
               l == [x \in SUBSET (1..n) |->
                       IF x = {} THEN s ELSE Insert(f[x \ {Max(x)}], path, kind, q[Max(x)])]
    <3>2. l = k
      <4> HIDE DEF q, s
      <4> QED
        BY <3>1
    <3>3. H(f) <=> f = l
      BY Zenon
    <3>4. F(f) <=> f = k
      BY Zenon
    <3> QED
      BY <3>2, <3>3, <3>4, Zenon
  <2>3. (CHOOSE f : H(f)) = CHOOSE f : F(f)
    <3> HIDE DEF H, F
    <3> QED
      BY <2>2
  <2> QED
    BY <2>1, <2>3, Zenon
<1> HIDE DEF iter
<1> DEFINE w == [k \in 0..n |-> iter[1..k]]
<1>9. w[0] = s
  <2>1. 0 \in 0..n /\ 1..0 = {} /\ {} \in SUBSET (1..n)
    BY <1>1
  <2> HIDE DEF s
  <2>2. iter[{}] = s
    BY <1>7, <2>1
  <2> QED
    BY <2>1, <2>2
<1>10. ASSUME NEW k \in 0..(n - 1) PROVE w[k + 1] = Insert(w[k], path, kind, k + 1)
  <2>1. k \in 0..n /\ k + 1 \in 0..n
    BY <1>1
  <2> DEFINE x == 1..(k + 1)
  <2>2. x \in SUBSET (1..n) /\ x # {} /\ Max(x) = k + 1 /\ x \ {Max(x)} = 1..k
    BY <1>1, IntervalMax
  <2>3. iter[x] = Insert(iter[x \ {Max(x)}], path, kind, Max(x))
    <3> HIDE DEF x, s
    <3> QED
      BY <1>7, <2>2
  <2> QED
    BY <2>1, <2>2, <2>3
<1>11. w[n] = iter[1..n]
  BY <1>1
<1>12. ASSUME NEW k \in 0..n PROVE w[k] \in Walks
  <2> HIDE DEF w, s, F
  <2> DEFINE T == {m \in Nat : m <= n => w[m] \in Walks}
  <2>1. 0 \in T
    BY <1>2, <1>9
  <2>2. ASSUME NEW m \in T PROVE m + 1 \in T
    <3>1. m \in Nat /\ (m <= n => w[m] \in Walks)
      BY <2>2, Zenon
    <3>2. m + 1 \in Nat
      <4>1. m \in Nat
        BY <3>1, Zenon
      <4> QED
        BY <4>1
    <3>3. ASSUME m + 1 <= n PROVE w[m + 1] \in Walks
      <4>1. m \in 0..(n - 1) /\ m + 1 \in 1..n /\ m <= n
        <5>1. m \in Nat
          BY <3>1, Zenon
        <5> QED
          BY <1>1, <3>3, <5>1
      <4>2. w[m] \in Walks
        BY <3>1, <4>1, Zenon
      <4>3. Insert(w[m], path, kind, m + 1) \in Walks
        BY <4>1, <4>2, InsertKeeps
      <4> QED
        BY <1>10, <4>1, <4>3
    <3> QED
      BY <3>2, <3>3
  <2>3. T \in SUBSET Nat /\ k \in Nat /\ k <= n
    BY <1>12
  <2>4. k \in T
    <3> HIDE DEF T
    <3> QED
      BY <2>1, <2>2, <2>3, SetInduction
  <2> QED
    BY <2>3, <2>4
<1> HIDE DEF w
<1> QED
  BY <1>8, <1>9, <1>10, <1>11, <1>12

\* The walk with create is at a node without children.
Childless(a) == \A m \in DOMAIN a.tree : a.tree[m].parent # a.id

\* Nothing is found below such a node.
LEMMA NothingFound ==
  ASSUME NEW a \in Walks, Childless(a), NEW name
  PROVE  Child(a.tree, a.id, name) = NoNode
<1>1. DOMAIN a.tree \subseteq Nat \ {0}
  BY TreesAre DEF Walks
<1> QED
  BY <1>1, ChildIs DEF Childless

\* A node that was appended has no children.
LEMMA AppendedIsChildless ==
  ASSUME nextId \in Nat \ {0},
         NEW a \in Walks, NEW path \in Seq(STRING), NEW kind, NEW i \in 1..Len(path),
         Child(a.tree, a.id, path[i]) = NoNode,
         NEW b, b = Insert(a, path, kind, i)
  PROVE  /\ Childless(b)
         /\ b.id \in DOMAIN b.tree
         /\ b.tree[b.id] = RowFor(a, path, kind, i)
<1> DEFINE row == RowFor(a, path, kind, i)
<1>1. b.tree = Appended(a.tree, a.next, row) /\ b.id = a.next
  <2>1. b = [tree |-> Appended(a.tree, a.next, row), id |-> a.next, next |-> a.next + 1]
    BY InsertAppends
  <2> HIDE DEF row
  <2> QED
    BY <2>1
<1>2. row.parent = a.id
  BY DEF RowFor
<1>3. /\ a.next \in Nat /\ a.id \in Nat /\ a.id < a.next
      /\ GoodTree(a.tree, a.next)
  BY DEF Walks
<1> HIDE DEF row
<1>4. ASSUME NEW m \in DOMAIN b.tree PROVE b.tree[m].parent # b.id
  <2>1. CASE m = a.next
    BY <1>1, <1>2, <1>3, <2>1 DEF Appended
  <2>2. CASE m # a.next
    <3>1. m \in DOMAIN a.tree /\ b.tree[m] = a.tree[m]
      BY <1>1, <1>4, <2>2 DEF Appended
    <3>2. a.tree[m].parent < a.next /\ a.tree[m].parent \in Nat
      BY <1>3, <3>1, TreesAre DEF GoodTree, Rows
    <3>3. a.tree[m].parent # a.next
      BY <1>3, <3>2
    <3> QED
      BY <1>1, <3>1, <3>3
  <2> QED
    BY <2>1, <2>2
<1>5. b.id \in DOMAIN b.tree /\ b.tree[b.id] = row
  BY <1>1 DEF Appended
<1> QED
  BY <1>4, <1>5 DEF Childless, row

\* Until something is missing, the walk with create goes where find goes.
LEMMA WalksTogether ==
  ASSUME nextId \in Nat \ {0}, NEW path \in Seq(STRING), NEW kind, NEW w, NEW h,
         w[0] = [tree |-> nodes, id |-> Root, next |-> nextId],
         h[0] = Root,
         \A k \in 0..(Len(path) - 1) : w[k + 1] = Insert(w[k], path, kind, k + 1),
         \A k \in 0..(Len(path) - 1) : h[k + 1] = IF h[k] = NoNode THEN NoNode
                                                  ELSE Child(nodes, h[k], path[k + 1]),
         \A k \in 0..Len(path) : w[k] \in Walks
  PROVE  \A k \in 0..Len(path) :
           \/ w[k].tree = nodes /\ w[k].id = h[k] /\ h[k] # NoNode
           \/ Childless(w[k])
<1> DEFINE n == Len(path)
           P(k) == \/ w[k].tree = nodes /\ w[k].id = h[k] /\ h[k] # NoNode
                   \/ Childless(w[k])
           T == {m \in Nat : m <= n => P(m)}
<1>1. 0 \in T
  <2>1. w[0].tree = nodes /\ w[0].id = Root
    OBVIOUS
  <2>2. P(0)
    BY <2>1 DEF Root, NoNode
  <2> HIDE DEF P
  <2> QED
    BY <2>2
<1>2. ASSUME NEW m \in Nat, m + 1 <= n, P(m) PROVE P(m + 1)
  <2>1. m \in 0..(n - 1) /\ m \in 0..n /\ m + 1 \in 1..n
    BY <1>2
  <2>2. /\ w[m + 1] = Insert(w[m], path, kind, m + 1)
        /\ h[m + 1] = IF h[m] = NoNode THEN NoNode ELSE Child(nodes, h[m], path[m + 1])
        /\ w[m] \in Walks
    BY <2>1
  <2> DEFINE c == Child(w[m].tree, w[m].id, path[m + 1])
  <2>3. CASE c = NoNode
    <3>1. Childless(w[m + 1])
      BY <2>1, <2>2, <2>3, AppendedIsChildless
    <3> QED
      BY <3>1
  <2>4. CASE c # NoNode
    <3>1. ~Childless(w[m])
      BY <2>2, <2>4, NothingFound
    <3>2. w[m].tree = nodes /\ w[m].id = h[m] /\ h[m] # NoNode
      BY <1>2, <3>1
    <3>3. h[m + 1] = c
      BY <2>2, <3>2
    <3>4. w[m + 1] = [tree |-> w[m].tree, id |-> c, next |-> w[m].next]
      <4> HIDE DEF c
      <4>1. c = Child(w[m].tree, w[m].id, path[m + 1])
        BY DEF c
      <4> QED
        BY <2>1, <2>2, <2>4, <4>1, InsertFinds
    <3> HIDE DEF c
    <3>5. w[m + 1].tree = nodes /\ w[m + 1].id = h[m + 1] /\ h[m + 1] # NoNode
      BY <2>4, <3>2, <3>3, <3>4
    <3> QED
      BY <3>5
  <2> QED
    BY <2>3, <2>4
<1> HIDE DEF P
<1>3. ASSUME NEW m \in T PROVE m + 1 \in T
  <2>1. m \in Nat /\ (m <= n => P(m))
    BY <1>3, Zenon
  <2>2. m + 1 \in Nat /\ (m + 1 <= n => m <= n)
    <3>1. m \in Nat
      BY <2>1, Zenon
    <3> QED
      BY <3>1
  <2>3. m + 1 <= n => P(m + 1)
    BY <1>2, <2>1, <2>2, Zenon
  <2> QED
    BY <2>2, <2>3, Zenon
<1>4. T \in SUBSET Nat
  OBVIOUS
<1>5. ASSUME NEW k \in 0..n PROVE P(k)
  <2>1. k \in Nat /\ k <= n
    BY <1>5
  <2>2. k \in T
    <3> HIDE DEF T
    <3> QED
      BY <1>1, <1>3, <1>4, <2>1, SetInduction
  <2> QED
    BY <2>1, <2>2
<1> QED
  BY <1>5 DEF P

\* The path is in the tree that WithPath returns, its last part under the id
\* that it returns and of the kind that was asked for.
LEMMA WithPathIs ==
  ASSUME nextId \in Nat \ {0, 1}, GoodTree(nodes, nextId),
         NEW path \in Seq(STRING), path # <<>>, NEW kind \in Kinds
  PROVE  /\ WithPath(path, kind) \in Walks
         /\ WithPath(path, kind).id \in DOMAIN WithPath(path, kind).tree
         /\ WithPath(path, kind).tree[WithPath(path, kind).id].name = Last(path)
         /\ ~OtherKind(path, kind)
              => KindOf(WithPath(path, kind).tree, WithPath(path, kind).id) = kind
<1> DEFINE n == Len(path)
           last == WithPath(path, kind)
<1>1. DOMAIN nodes \subseteq Nat \ {0}
  BY TreesAre DEF GoodTree
<1>2. PICK w : /\ w[0] = [tree |-> nodes, id |-> Root, next |-> nextId]
               /\ \A k \in 0..(n - 1) : w[k + 1] = Insert(w[k], path, kind, k + 1)
               /\ \A k \in 0..n : w[k] \in Walks
               /\ last = w[n]
  BY WithPathSteps
<1>3. PICK h : /\ h[0] = Root
               /\ \A k \in 0..(n - 1) :
                    h[k + 1] = IF h[k] = NoNode THEN NoNode
                               ELSE Child(nodes, h[k], path[k + 1])
               /\ Find(path) = h[n]
  BY <1>1, FindSteps
<1>4. n - 1 \in 0..(n - 1) /\ n - 1 \in 0..n /\ n \in 0..n /\ (n - 1) + 1 = n /\ n \in 1..n
  OBVIOUS
<1> DEFINE a == w[n - 1]
           c == Child(a.tree, a.id, path[n])
<1>5. /\ last = Insert(a, path, kind, n)
      /\ h[n] = IF h[n - 1] = NoNode THEN NoNode ELSE Child(nodes, h[n - 1], path[n])
      /\ a \in Walks /\ last \in Walks
  <2> HIDE DEF n
  <2>1. w[(n - 1) + 1] = Insert(a, path, kind, (n - 1) + 1)
    BY <1>2, <1>4
  <2>2. h[(n - 1) + 1] = IF h[n - 1] = NoNode THEN NoNode
                         ELSE Child(nodes, h[n - 1], path[(n - 1) + 1])
    BY <1>3, <1>4
  <2> QED
    <3>1. last = w[(n - 1) + 1] /\ h[n] = h[(n - 1) + 1]
      BY <1>2, <1>4
    <3>2. a \in Walks /\ last \in Walks
      BY <1>2, <1>4
    <3> HIDE DEF a
    <3> QED
      BY <1>4, <2>1, <2>2, <3>1, <3>2
<1>6. \/ a.tree = nodes /\ a.id = h[n - 1] /\ h[n - 1] # NoNode
      \/ Childless(a)
  BY <1>2, <1>3, <1>4, WalksTogether, ZenonT(30)
<1>7. Last(path) = path[n]
  BY DEF Last
<1> HIDE DEF last, a
<1>8. CASE c = NoNode
  <2>1. last.id \in DOMAIN last.tree /\ last.tree[last.id] = RowFor(a, path, kind, n)
    BY <1>4, <1>5, <1>8, AppendedIsChildless
  <2>2. last.tree[last.id].name = Last(path)
    BY <1>7, <2>1 DEF RowFor
  <2>3. last.tree[last.id].dir <=> kind = "dir"
    <3> DEFINE d == n < Len(path) \/ kind = "dir"
    <3>1. ~(n < Len(path))
      OBVIOUS
    <3>2. d <=> kind = "dir"
      BY <3>1, Zenon
    <3>3. RowFor(a, path, kind, n).dir = d
      <4>1. RowFor(a, path, kind, n) = [name |-> path[n], parent |-> a.id, dir |-> d]
        BY Zenon DEF RowFor
      <4> HIDE DEF d
      <4> QED
        BY <4>1
    <3> QED
      BY <2>1, <3>2, <3>3, Zenon
  <2>4. KindOf(last.tree, last.id) = kind
    BY <2>3 DEF KindOf, Kinds
  <2> QED
    BY <1>5, <2>1, <2>2, <2>4 DEF last
<1>9. CASE c # NoNode
  <2>1. ~Childless(a)
    BY <1>5, <1>9, NothingFound
  <2>2. a.tree = nodes /\ a.id = h[n - 1] /\ h[n - 1] # NoNode
    BY <1>6, <2>1
  <2>3. Find(path) = c
    BY <1>3, <1>5, <2>2
  <2>4. /\ last = [tree |-> a.tree, id |-> c, next |-> a.next]
        /\ c \in DOMAIN a.tree
        /\ a.tree[c].name = path[n]
    <3> HIDE DEF c
    <3>1. c = Child(a.tree, a.id, path[n])
      BY DEF c
    <3> QED
      BY <1>4, <1>5, <1>9, <3>1, InsertFinds
  <2> HIDE DEF c
  <2>5. last.tree = nodes /\ last.id = c
    BY <2>2, <2>4
  <2>6. last.id \in DOMAIN last.tree /\ last.tree[last.id].name = Last(path)
    BY <1>7, <2>2, <2>4, <2>5
  <2>7. ASSUME ~OtherKind(path, kind) PROVE KindOf(last.tree, last.id) = kind
    <3>1. FindKind(path, kind) # NoNode
      BY <1>9, <2>3, <2>7 DEF OtherKind
    <3> QED
      BY <2>3, <2>5, <3>1 DEF FindKind
  <2> QED
    BY <1>5, <2>6, <2>7 DEF last
<1> QED
  BY <1>8, <1>9

----------------------------------------------------------------------------
(* The invariant. *)

Instances == [kind : Kinds, path : Paths, node : Ids \cup {NoNode}, open : BOOLEAN]
Calls     == [pc : Places, obj : Objects \cup {None}, path : Paths \cup {<<>>},
              flags : SUBSET (CreationFlags \cup {"Recursive"}), kind : Kinds,
              node : Ids \cup {NoNode}]

\* The tables: what is stored belongs to a node of a good tree.
TablesInv ==
  /\ nextId \in (Root + 1)..(MaxNodes + 1)
  /\ GoodTree(nodes, nextId)
  /\ data \subseteq DOMAIN nodes
  /\ metadata \subseteq Ids

\* The id an instance of an entry caches was given to a node of its name, and
\* no other node has got it since.
OwnNode(obj) ==
  obj.node # NoNode =>
    /\ obj.node < nextId
    /\ obj.node \in DOMAIN nodes =>
         nodes[obj.node].name = Last(obj.path) /\ ~nodes[obj.node].dir

Constructors == {"init_exists", "init_create", "init_open"}

\* A thread works on an instance, alone as long as it constructs it.
CallInv(t) ==
  LET o == thr[t].obj IN
  /\ thr[t].pc = "idle" => o = None
  /\ thr[t].pc # "idle" => o \in Objects /\ objs[o] # None /\ thr[t].path \in Paths
  /\ thr[t].pc \in Constructors =>
       /\ ~objs[o].open
       /\ objs[o].path = thr[t].path
       /\ objs[o].kind = thr[t].kind
       /\ \A u \in Threads : u # t => thr[u].obj # o
  /\ thr[t].pc = "change_dir" => objs[o].kind = "dir"

\* An entry has its own node once it is open or about to be; while it is
\* created it may have any.
HandleInv(o) ==
  (objs[o] # None /\ objs[o].kind = "entry") =>
    /\ objs[o].open => objs[o].node # NoNode /\ OwnNode(objs[o])
    /\ \A t \in Threads :
         (thr[t].obj = o /\ thr[t].pc = "init_open") => OwnNode(objs[o])

AdvertInv ==
  /\ TablesInv
  /\ objs \in [Objects -> {None} \cup Instances]
  /\ mtx \in [Objects -> Threads \cup {None}]
  /\ thr \in [Threads -> Calls]
  /\ \A t \in Threads : CallInv(t)
  /\ \A o \in Objects : HandleInv(o)

----------------------------------------------------------------------------
(* Transactions. *)

\* What a transaction may do to the nodes: remove some, and add some with new
\* ids.
Later ==
  /\ nextId <= nextId'
  /\ \A id \in DOMAIN nodes' :
       \/ id \in DOMAIN nodes /\ nodes'[id] = nodes[id]
       \/ id >= nextId

\* The ids of a good tree.
LEMMA IdsAre ==
  ASSUME TablesInv
  PROVE  /\ nextId \in Nat \ {0, 1} /\ nextId <= MaxNodes + 1 /\ MaxNodes \in Nat
         /\ DOMAIN nodes \subseteq Ids
         /\ DOMAIN nodes \subseteq Nat \ {0}
         /\ nodes \in [DOMAIN nodes -> Rows]
<1>1. nextId \in Nat \ {0, 1} /\ nextId <= MaxNodes + 1 /\ MaxNodes \in Nat
  BY AdvertAssumption DEF TablesInv, Root
<1>2. DOMAIN nodes \subseteq Nat \ {0} /\ nodes \in [DOMAIN nodes -> Rows]
  BY TreesAre DEF TablesInv, GoodTree
<1>3. ASSUME NEW id \in DOMAIN nodes PROVE id \in Ids
  <2>1. id \in Nat \ {0} /\ id < nextId
    BY <1>2, <1>3 DEF TablesInv, GoodTree
  <2> QED
    BY <1>1, <2>1 DEF Ids, Root
<1> QED
  BY <1>1, <1>2, <1>3

\* What find and its variants return is an id.
LEMMA FindTypes ==
  ASSUME TablesInv, NEW path \in Paths, NEW kind
  PROVE  /\ Find(path) \in Ids \cup {NoNode}
         /\ FindKind(path, kind) \in Ids \cup {NoNode}
         /\ FindKind(path, kind) # NoNode =>
              /\ FindKind(path, kind) \in DOMAIN nodes
              /\ nodes[FindKind(path, kind)].name = Last(path)
              /\ KindOf(nodes, FindKind(path, kind)) = kind
<1>1. path \in Seq(STRING) /\ path # <<>>
  BY AdvertAssumption
<1>2. \/ Find(path) = NoNode
      \/ Find(path) \in DOMAIN nodes /\ nodes[Find(path)].name = Last(path)
  BY <1>1, IdsAre, FindIs
<1>3. Find(path) \in Ids \cup {NoNode}
  BY <1>2, IdsAre
<1>4. FindKind(path, kind) # NoNode =>
        FindKind(path, kind) = Find(path) /\ KindOf(nodes, Find(path)) = kind
  BY DEF FindKind
<1> QED
  BY <1>2, <1>3, <1>4

\* A transaction that creates a path.
LEMMA CreateKeeps ==
  ASSUME TablesInv, NEW path \in Paths, NEW kind \in Kinds, NEW flags,
         Creatable(path, kind, flags), Create(path, kind)
  PROVE  TablesInv' /\ Later
<1> DEFINE new == WithPath(path, kind)
<1>1. path \in Seq(STRING) /\ path # <<>>
  BY AdvertAssumption
<1>2. new \in Walks
  BY <1>1, IdsAre, WithPathIs DEF TablesInv
<1>3. nodes' = new.tree /\ nextId' = new.next /\ data' = data /\ metadata' = metadata
  BY DEF Create
<1>4. new.next <= MaxNodes + 1
  BY DEF Creatable
<1> HIDE DEF new
<1>5. /\ GoodTree(nodes', nextId')
      /\ nextId' \in Nat /\ nextId <= nextId' /\ nextId' <= MaxNodes + 1
      /\ \A m \in DOMAIN nodes : m \in DOMAIN nodes' /\ nodes'[m] = nodes[m]
      /\ \A m \in DOMAIN nodes' : m \in DOMAIN nodes \/ m >= nextId
  BY <1>2, <1>3, <1>4 DEF Walks
<1>6. nextId' \in (Root + 1)..(MaxNodes + 1)
  BY <1>5, IdsAre DEF Root
<1>7. data' \subseteq DOMAIN nodes'
  BY <1>3, <1>5 DEF TablesInv
<1>8. metadata' \subseteq Ids
  BY <1>3 DEF TablesInv
<1>9. Later
  BY <1>5 DEF Later
<1> QED
  BY <1>5, <1>6, <1>7, <1>8, <1>9 DEF TablesInv

\* A transaction that removes a node.
LEMMA RemoveKeeps ==
  ASSUME TablesInv, NEW id, RemoveNode(id)
  PROVE  TablesInv' /\ Later
<1> DEFINE gone == Removed(id)
<1>1. /\ nodes' = [n \in DOMAIN nodes \ gone |-> nodes[n]]
      /\ data' = data \ gone /\ metadata' = metadata \ gone /\ nextId' = nextId
  BY DEF RemoveNode
<1> HIDE DEF gone
<1>2. /\ DOMAIN nodes' = DOMAIN nodes \ gone
      /\ \A n \in DOMAIN nodes' : n \in DOMAIN nodes /\ nodes'[n] = nodes[n]
  BY <1>1
<1>3. nodes' \in Trees
  <2>1. DOMAIN nodes' \in SUBSET (Nat \ {0})
    BY <1>2, IdsAre
  <2>2. nodes' \in [DOMAIN nodes' -> Rows]
    <3>1. ASSUME NEW n \in DOMAIN nodes \ gone PROVE nodes[n] \in Rows
      BY IdsAre
    <3> QED
      BY <1>1, <1>2, <3>1
  <2> QED
    BY <2>1, <2>2 DEF Trees
<1>4. GoodTree(nodes', nextId')
  <2>1. \A n \in DOMAIN nodes' : n < nextId' /\ nodes'[n].parent < nextId'
    BY <1>1, <1>2 DEF TablesInv, GoodTree
  <2>2. \A m, n \in DOMAIN nodes' :
          (nodes'[m].parent = nodes'[n].parent /\ nodes'[m].name = nodes'[n].name) => m = n
    BY <1>2 DEF TablesInv, GoodTree
  <2> QED
    BY <1>3, <2>1, <2>2 DEF GoodTree
<1>5. nextId' \in (Root + 1)..(MaxNodes + 1)
  BY <1>1 DEF TablesInv
<1>6. data' \subseteq DOMAIN nodes' /\ metadata' \subseteq Ids
  BY <1>1, <1>2 DEF TablesInv
<1>7. Later
  <2>1. nextId <= nextId'
    BY <1>1, IdsAre
  <2> QED
    BY <1>2, <2>1 DEF Later
<1> QED
  BY <1>4, <1>5, <1>6, <1>7 DEF TablesInv

\* A step that leaves the nodes as they are.
LEMMA SameNodes ==
  ASSUME TablesInv, nodes' = nodes, nextId' = nextId,
         data' \subseteq DOMAIN nodes, metadata' \subseteq Ids
  PROVE  TablesInv' /\ Later
<1>1. TablesInv'
  BY DEF TablesInv
<1>2. nextId <= nextId'
  BY IdsAre
<1>3. Later
  BY <1>2 DEF Later
<1> QED
  BY <1>1, <1>3

\* A step that leaves the tables as they are.
LEMMA SameTables ==
  ASSUME TablesInv, UNCHANGED tables
  PROVE  TablesInv' /\ Later
BY SameNodes DEF tables, TablesInv

\* What an instance of an entry knows of its node stays true.
LEMMA OwnNodeStays ==
  ASSUME TablesInv, TablesInv', Later, NEW obj, obj.node \in Ids \cup {NoNode}, OwnNode(obj)
  PROVE  OwnNode(obj)'
<1>1. SUFFICES ASSUME obj.node # NoNode
               PROVE  /\ obj.node < nextId'
                      /\ obj.node \in DOMAIN nodes' =>
                           nodes'[obj.node].name = Last(obj.path) /\ ~nodes'[obj.node].dir
  BY DEF OwnNode
<1>2. obj.node \in Nat /\ obj.node < nextId /\ nextId \in Nat /\ nextId' \in Nat /\ nextId <= nextId'
  <2>1. nextId' \in Nat
    BY AdvertAssumption DEF TablesInv, Root
  <2> QED
    BY <1>1, <2>1, IdsAre DEF OwnNode, Later, Ids, Root
<1>3. obj.node < nextId'
  BY <1>2
<1>4. ASSUME obj.node \in DOMAIN nodes'
      PROVE  nodes'[obj.node].name = Last(obj.path) /\ ~nodes'[obj.node].dir
  <2>1. ~(obj.node >= nextId)
    BY <1>2
  <2>2. obj.node \in DOMAIN nodes /\ nodes'[obj.node] = nodes[obj.node]
    BY <1>4, <2>1 DEF Later
  <2> QED
    BY <1>1, <2>2 DEF OwnNode
<1> QED
  BY <1>3, <1>4

\* An entry that was found by its path is the own node of an instance.
LEMMA FoundIsOwn ==
  ASSUME TablesInv, NEW obj, obj.path \in Paths,
         obj.node = FindKind(obj.path, "entry")
  PROVE  OwnNode(obj)
<1>1. ASSUME obj.node # NoNode
      PROVE  /\ obj.node \in DOMAIN nodes
             /\ nodes[obj.node].name = Last(obj.path)
             /\ KindOf(nodes, obj.node) = "entry"
  BY <1>1, FindTypes
<1>2. ASSUME obj.node # NoNode PROVE obj.node < nextId
  BY <1>1, <1>2 DEF TablesInv, GoodTree
<1> QED
  BY <1>1, <1>2 DEF OwnNode, KindOf

\* So is an entry that was created.
LEMMA CreatedIsOwn ==
  ASSUME TablesInv, NEW path \in Paths, NEW flags,
         Creatable(path, "entry", flags), Create(path, "entry"),
         NEW obj, obj.path = path, obj.node = WithPath(path, "entry").id
  PROVE  OwnNode(obj)'
<1> DEFINE new == WithPath(path, "entry")
<1>1. path \in Seq(STRING) /\ path # <<>> /\ "entry" \in Kinds
  BY AdvertAssumption DEF Kinds
<1>2. /\ new \in Walks
      /\ new.id \in DOMAIN new.tree
      /\ new.tree[new.id].name = Last(path)
      /\ ~OtherKind(path, "entry") => KindOf(new.tree, new.id) = "entry"
  BY <1>1, IdsAre, WithPathIs DEF TablesInv
<1>3. ~OtherKind(path, "entry")
  BY DEF Creatable
<1>4. nodes' = new.tree /\ nextId' = new.next /\ obj.node = new.id
  BY DEF Create
<1> HIDE DEF new
<1>5. ~new.tree[new.id].dir
  BY <1>2, <1>3 DEF KindOf
<1>6. new.id < new.next
  BY <1>2 DEF Walks
<1>7. /\ obj.node < nextId'
      /\ nodes'[obj.node].name = Last(obj.path) /\ ~nodes'[obj.node].dir
  BY <1>2, <1>4, <1>5, <1>6
<1> QED
  BY <1>7 DEF OwnNode

\* The id a creation returns fits the data base.
LEMMA CreatedId ==
  ASSUME TablesInv, NEW path \in Paths, NEW kind \in Kinds, NEW flags,
         Creatable(path, kind, flags)
  PROVE  WithPath(path, kind).id \in Ids
<1> DEFINE new == WithPath(path, kind)
<1>1. path \in Seq(STRING) /\ path # <<>>
  BY AdvertAssumption
<1>2. new \in Walks /\ new.id \in DOMAIN new.tree
  BY <1>1, IdsAre, WithPathIs DEF TablesInv
<1>3. new.next <= MaxNodes + 1
  BY DEF Creatable
<1> HIDE DEF new
<1>4. new.id \in Nat /\ new.next \in Nat /\ new.id < new.next /\ GoodTree(new.tree, new.next)
  BY <1>2 DEF Walks
<1>5. new.id # 0
  BY <1>2, <1>4, TreesAre DEF GoodTree
<1> QED
  BY <1>3, <1>4, <1>5, IdsAre DEF new, Ids, Root

----------------------------------------------------------------------------
(* Instances and the threads that work on them. *)

ObjectsInv ==
  /\ objs \in [Objects -> {None} \cup Instances]
  /\ thr \in [Threads -> Calls]
  /\ \A t \in Threads : CallInv(t)
  /\ \A o \in Objects : HandleInv(o)

\* None is no instance.
LEMMA NoneIsNoInstance == None \notin Instances
<1>1. Instances \subseteq [kind : {"entry", "dir"}, path : Paths, node : Nat, open : BOOLEAN]
  <2>1. Ids \cup {NoNode} \subseteq Nat
    BY AdvertAssumption DEF Ids, Root, NoNode
  <2> QED
    BY <2>1 DEF Instances, Kinds
<1> QED
  BY <1>1, AdvertAssumption

\* The type of Idle.
LEMMA IdleType == Idle \in Calls /\ Idle.pc = "idle" /\ Idle.obj = None
BY DEF Idle, Calls, Places, Kinds

\* What every thread that works has.
LEMMA WorkOn ==
  ASSUME ObjectsInv, NEW t \in Threads, thr[t].pc # "idle"
  PROVE  /\ thr[t] \in Calls
         /\ thr[t].obj \in Objects
         /\ objs[thr[t].obj] \in Instances
         /\ thr[t].path \in Paths
<1>1. thr[t] \in Calls /\ CallInv(t)
  BY DEF ObjectsInv
<1>2. thr[t].obj \in Objects /\ objs[thr[t].obj] # None /\ thr[t].path \in Paths
  BY <1>1 DEF CallInv
<1>3. objs[thr[t].obj] \in Instances
  BY <1>2 DEF ObjectsInv
<1> QED
  BY <1>1, <1>2, <1>3

\* An instance no step touches keeps what its invariant says.
LEMMA HandleStays ==
  ASSUME TablesInv, TablesInv', Later, ObjectsInv, NEW o \in Objects, objs'[o] = objs[o],
         \A u \in Threads : (thr'[u].obj = o /\ thr'[u].pc = "init_open") =>
                              thr[u].obj = o /\ thr[u].pc = "init_open"
  PROVE  HandleInv(o)'
<1>1. PICK b : b = objs[o]
  OBVIOUS
<1>2. SUFFICES ASSUME b # None, b.kind = "entry"
               PROVE  /\ b.open => b.node # NoNode /\ OwnNode(b)'
                      /\ \A u \in Threads :
                           (thr'[u].obj = o /\ thr'[u].pc = "init_open") => OwnNode(b)'
  BY <1>1 DEF HandleInv, OwnNode
<1>3. b \in Instances /\ HandleInv(o)
  BY <1>1, <1>2 DEF ObjectsInv
<1>4. b.node \in Ids \cup {NoNode}
  BY <1>3 DEF Instances
<1>5. OwnNode(b) => OwnNode(b)'
  BY <1>4, OwnNodeStays
<1>6. /\ b.open => b.node # NoNode /\ OwnNode(b)
      /\ \A u \in Threads : (thr[u].obj = o /\ thr[u].pc = "init_open") => OwnNode(b)
  BY <1>1, <1>2, <1>3 DEF HandleInv
<1> QED
  BY <1>5, <1>6

\* The call of another thread goes on as it was.
LEMMA OthersStay ==
  ASSUME ObjectsInv, NEW t, NEW u \in Threads, u # t, NEW o,
         \A v \in Threads : v # t => thr'[v] = thr[v],
         \A p \in Objects : p # o => objs'[p] = objs[p],
         thr[u].obj = o /\ o \in Objects
           => objs'[o] # None /\ objs'[o].kind = objs[o].kind,
         thr[u].pc \in Constructors => thr[u].obj # o /\ thr'[t].obj # thr[u].obj
  PROVE  CallInv(u)'
<1> DEFINE p == thr[u].obj
<1>1. thr'[u] = thr[u] /\ CallInv(u)
  BY DEF ObjectsInv
<1>2. thr[u].pc = "idle" => p = None
  BY <1>1 DEF CallInv
<1>3. ASSUME thr[u].pc # "idle"
      PROVE  /\ p \in Objects /\ objs'[p] # None /\ thr[u].path \in Paths
             /\ objs'[p].kind = objs[p].kind
  <2>1. p \in Objects /\ objs[p] # None /\ thr[u].path \in Paths
    BY <1>1, <1>3 DEF CallInv
  <2>2. CASE p = o
    BY <2>1, <2>2
  <2>3. CASE p # o
    BY <2>1, <2>3
  <2> QED
    BY <2>1, <2>2, <2>3
<1>4. ASSUME thr[u].pc \in Constructors
      PROVE  /\ ~objs'[p].open
             /\ objs'[p].path = thr[u].path
             /\ objs'[p].kind = thr[u].kind
             /\ \A v \in Threads : v # u => thr'[v].obj # p
  <2>1. thr[u].pc # "idle"
    BY <1>4 DEF Constructors
  <2>2. p \in Objects /\ p # o /\ objs'[p] = objs[p]
    BY <1>3, <1>4, <2>1
  <2>3. /\ ~objs[p].open /\ objs[p].path = thr[u].path /\ objs[p].kind = thr[u].kind
        /\ \A v \in Threads : v # u => thr[v].obj # p
    BY <1>1, <1>4 DEF CallInv
  <2>4. ASSUME NEW v \in Threads, v # u PROVE thr'[v].obj # p
    <3>1. CASE v = t
      BY <1>4, <3>1
    <3>2. CASE v # t
      BY <2>3, <2>4, <3>2
    <3> QED
      BY <3>1, <3>2
  <2> QED
    BY <2>2, <2>3, <2>4
<1>5. ASSUME thr[u].pc = "change_dir" PROVE objs'[p].kind = "dir"
  BY <1>1, <1>3, <1>5 DEF CallInv
<1> QED
  BY <1>1, <1>2, <1>3, <1>4, <1>5 DEF CallInv

\* A step of a thread that works on its instance: b is the instance after it,
\* call what the thread does next.
LEMMA WorkKeeps ==
  ASSUME TablesInv, TablesInv', Later, ObjectsInv,
         NEW t \in Threads, thr[t].pc # "idle",
         NEW b \in Instances, objs' = [objs EXCEPT ![thr[t].obj] = b],
         b.kind = objs[thr[t].obj].kind,
         NEW call \in Calls, thr' = [thr EXCEPT ![t] = call],
         \/ call = Idle
         \/ /\ call.pc # "idle" /\ call.obj = thr[t].obj /\ call.path = thr[t].path
            /\ call.pc \in Constructors =>
                 /\ thr[t].pc \in Constructors
                 /\ call.kind = thr[t].kind
                 /\ ~b.open
                 /\ b.path = objs[thr[t].obj].path
            /\ call.pc = "change_dir" => b.kind = "dir",
         b.kind = "entry" /\ b.open => b.node # NoNode,
         b.kind = "entry" /\ (b.open \/ call.pc = "init_open") => OwnNode(b)'
  PROVE  ObjectsInv'
<1> DEFINE o == thr[t].obj
<1>1. /\ thr[t] \in Calls /\ o \in Objects /\ thr[t].path \in Paths /\ CallInv(t)
      /\ objs \in [Objects -> {None} \cup Instances] /\ thr \in [Threads -> Calls]
  BY WorkOn DEF ObjectsInv
<1>2. b # None
  BY NoneIsNoInstance
<1>3. /\ objs'[o] = b /\ thr'[t] = call
      /\ \A p \in Objects : p # o => objs'[p] = objs[p]
      /\ \A v \in Threads : v # t => thr'[v] = thr[v]
  BY <1>1
<1>4. objs' \in [Objects -> {None} \cup Instances] /\ thr' \in [Threads -> Calls]
  BY <1>1
<1>5. call.obj \in {None, o} /\ (call = Idle => call.pc = "idle" /\ call.obj = None)
  BY IdleType
<1>6. ASSUME NEW u \in Threads, u # t, thr[u].pc \in Constructors
      PROVE  thr[u].obj # o /\ thr'[t].obj # thr[u].obj
  <2>1. thr[u].pc # "idle"
    BY <1>6 DEF Constructors
  <2>2. CallInv(u)
    BY DEF ObjectsInv
  <2>3. thr[u].obj \in Objects /\ (\A v \in Threads : v # u => thr[v].obj # thr[u].obj)
    BY <1>6, <2>1, <2>2 DEF CallInv
  <2>4. thr[u].obj # None
    BY <2>3, AdvertAssumption
  <2> QED
    BY <1>3, <1>5, <1>6, <2>3, <2>4
<1> HIDE DEF o
<1>7. ASSUME NEW u \in Threads PROVE CallInv(u)'
  <2>1. CASE u # t
    <3>1. b.kind = objs[o].kind
      BY DEF o
    <3> QED
      BY <1>2, <1>3, <1>6, <2>1, <3>1, OthersStay
  <2>2. CASE u = t /\ call = Idle
    BY <1>3, <1>5, <2>2 DEF CallInv, Constructors
  <2>3. CASE u = t /\ call # Idle
    <3>1. /\ call.pc # "idle" /\ call.obj = o /\ call.path = thr[t].path
          /\ call.pc \in Constructors =>
               /\ thr[t].pc \in Constructors
               /\ call.kind = thr[t].kind
               /\ ~b.open
               /\ b.path = objs[o].path
          /\ call.pc = "change_dir" => b.kind = "dir"
          /\ b.kind = objs[o].kind
      BY <2>3 DEF o
    <3>2. ASSUME call.pc \in Constructors
          PROVE  /\ ~b.open /\ b.path = call.path /\ b.kind = call.kind
                 /\ \A v \in Threads : v # t => thr'[v].obj # o
      <4>1. /\ objs[o].path = thr[t].path /\ objs[o].kind = thr[t].kind
            /\ \A v \in Threads : v # t => thr[v].obj # o
        BY <1>1, <3>1, <3>2 DEF CallInv, o
      <4> QED
        BY <1>3, <3>1, <3>2, <4>1
    <3> QED
      BY <1>1, <1>2, <1>3, <2>3, <3>1, <3>2 DEF CallInv
  <2> QED
    BY <2>1, <2>2, <2>3
<1>8. ASSUME NEW p \in Objects PROVE HandleInv(p)'
  <2>1. CASE p # o
    <3>1. objs'[p] = objs[p]
      BY <1>3, <2>1
    <3>2. ASSUME NEW u \in Threads, thr'[u].obj = p, thr'[u].pc = "init_open"
          PROVE  thr[u].obj = p /\ thr[u].pc = "init_open"
      <4>1. u # t
        <5>1. p # None
          BY AdvertAssumption
        <5> QED
          BY <1>3, <1>5, <2>1, <3>2, <5>1
      <4> QED
        BY <1>3, <3>2, <4>1
    <3> QED
      BY <3>1, <3>2, HandleStays
  <2>2. CASE p = o
    <3>1. ASSUME b.kind = "entry"
          PROVE  /\ b.open => b.node # NoNode /\ OwnNode(b)'
                 /\ \A u \in Threads :
                      (thr'[u].obj = o /\ thr'[u].pc = "init_open") => OwnNode(b)'
      <4>1. ASSUME NEW u \in Threads, thr'[u].obj = o, thr'[u].pc = "init_open"
            PROVE  call.pc = "init_open"
        <5>1. CASE u = t
          BY <1>3, <4>1, <5>1
        <5>2. CASE u # t
          <6>1. thr[u].obj = o /\ thr[u].pc \in Constructors
            BY <1>3, <4>1, <5>2 DEF Constructors
          <6> QED
            BY <1>6, <5>2, <6>1
        <5> QED
          BY <5>1, <5>2
      <4> QED
        BY <3>1, <4>1
    <3> QED
      BY <1>3, <2>2, <3>1 DEF HandleInv, OwnNode
  <2> QED
    BY <2>1, <2>2
<1> QED
  BY <1>4, <1>7, <1>8 DEF ObjectsInv

\* A constructor that throws leaves no instance; no other thread had it.
LEMMA AbandonKeeps ==
  ASSUME TablesInv, TablesInv', Later, ObjectsInv,
         NEW t \in Threads, thr[t].pc \in Constructors, Abandon(t)
  PROVE  ObjectsInv'
<1> DEFINE o == thr[t].obj
<1>1. thr[t].pc # "idle"
  BY DEF Constructors
<1>2. /\ o \in Objects /\ CallInv(t)
      /\ objs \in [Objects -> {None} \cup Instances] /\ thr \in [Threads -> Calls]
  BY <1>1, WorkOn DEF ObjectsInv
<1>3. objs' = [objs EXCEPT ![o] = None] /\ thr' = [thr EXCEPT ![t] = Idle]
  BY DEF Abandon, Return
<1>4. \A v \in Threads : v # t => thr[v].obj # o
  BY <1>2 DEF CallInv
<1> HIDE DEF o
<1>5. /\ objs'[o] = None /\ thr'[t] = Idle
      /\ \A p \in Objects : p # o => objs'[p] = objs[p]
      /\ \A v \in Threads : v # t => thr'[v] = thr[v]
  BY <1>2, <1>3
<1>6. objs' \in [Objects -> {None} \cup Instances] /\ thr' \in [Threads -> Calls]
  BY <1>2, <1>3, IdleType
<1>7. ASSUME NEW u \in Threads PROVE CallInv(u)'
  <2>1. CASE u # t
    <3>1. thr[u].pc \in Constructors => thr[u].obj # o /\ thr'[t].obj # thr[u].obj
      <4>1. ASSUME thr[u].pc \in Constructors PROVE thr[u].obj # None
        <5>1. thr[u].pc # "idle"
          BY <4>1 DEF Constructors
        <5> QED
          BY <5>1, WorkOn, AdvertAssumption
      <4> QED
        BY <1>4, <1>5, <2>1, <4>1, IdleType
    <3> QED
      BY <1>4, <1>5, <2>1, <3>1, OthersStay
  <2>2. CASE u = t
    BY <1>5, <2>2, IdleType DEF CallInv, Constructors
  <2> QED
    BY <2>1, <2>2
<1>8. ASSUME NEW p \in Objects PROVE HandleInv(p)'
  <2>1. CASE p = o
    BY <1>5, <2>1 DEF HandleInv
  <2>2. CASE p # o
    <3>1. ASSUME NEW u \in Threads, thr'[u].obj = p, thr'[u].pc = "init_open"
          PROVE  thr[u].obj = p /\ thr[u].pc = "init_open"
      BY <1>5, <3>1, IdleType
    <3> QED
      BY <1>5, <2>2, <3>1, HandleStays
  <2> QED
    BY <2>1, <2>2
<1> QED
  BY <1>6, <1>7, <1>8 DEF ObjectsInv

\* An idle thread begins a call on an instance that is there, or constructs
\* one that is not: objs does not change but for that instance.
LEMMA BeginKeeps ==
  ASSUME TablesInv, TablesInv', Later, ObjectsInv,
         NEW t \in Threads, thr[t].pc = "idle", NEW o \in Objects,
         NEW b \in Instances, objs' = [objs EXCEPT ![o] = b],
         NEW call \in Calls, thr' = [thr EXCEPT ![t] = call],
         call.obj = o, call.pc # "idle", call.path \in Paths,
         \/ b = objs[o] /\ call.pc \notin Constructors
         \/ /\ objs[o] = None /\ b.node = NoNode /\ ~b.open
            /\ b.path = call.path /\ b.kind = call.kind,
         call.pc = "change_dir" => b.kind = "dir",
         \A u \in Threads : thr[u].obj = o => thr[u].pc \notin Constructors
  PROVE  ObjectsInv'
<1>1. objs \in [Objects -> {None} \cup Instances] /\ thr \in [Threads -> Calls]
  BY DEF ObjectsInv
<1>2. /\ objs'[o] = b /\ thr'[t] = call
      /\ \A p \in Objects : p # o => objs'[p] = objs[p]
      /\ \A v \in Threads : v # t => thr'[v] = thr[v]
  BY <1>1
<1>3. objs' \in [Objects -> {None} \cup Instances] /\ thr' \in [Threads -> Calls]
  BY <1>1
<1>4. b # None /\ o # None
  BY NoneIsNoInstance, AdvertAssumption
<1>5. ASSUME NEW u \in Threads, thr[u].obj = o PROVE b = objs[o] /\ thr[u].pc \notin Constructors
  <2>1. thr[u].pc # "idle"
    BY <1>4, <1>5 DEF ObjectsInv, CallInv
  <2>2. objs[o] # None
    BY <1>5, <2>1 DEF ObjectsInv, CallInv
  <2> QED
    BY <1>5, <2>2
<1>6. ASSUME NEW u \in Threads PROVE CallInv(u)'
  <2>1. CASE u # t
    <3>1. thr[u].obj = o => objs'[o] # None /\ objs'[o].kind = objs[o].kind
      BY <1>2, <1>4, <1>5
    <3>2. thr[u].pc \in Constructors => thr[u].obj # o /\ thr'[t].obj # thr[u].obj
      BY <1>2, <1>5
    <3> QED
      BY <1>2, <2>1, <3>1, <3>2, OthersStay
  <2>2. CASE u = t
    <3>1. ASSUME call.pc \in Constructors
          PROVE  /\ ~b.open /\ b.path = call.path /\ b.kind = call.kind
                 /\ \A v \in Threads : v # t => thr'[v].obj # o
      <4>1. objs[o] = None /\ ~b.open /\ b.path = call.path /\ b.kind = call.kind
        BY <3>1
      <4>2. \A v \in Threads : thr[v].obj # o
        BY <1>4, <1>5, <4>1
      <4> QED
        BY <1>2, <4>1, <4>2
    <3> QED
      BY <1>2, <1>4, <2>2, <3>1 DEF CallInv
  <2> QED
    BY <2>1, <2>2
<1>7. ASSUME NEW p \in Objects PROVE HandleInv(p)'
  <2>1. CASE p # o
    <3>1. ASSUME NEW u \in Threads, thr'[u].obj = p, thr'[u].pc = "init_open"
          PROVE  thr[u].obj = p /\ thr[u].pc = "init_open"
      BY <1>2, <2>1, <3>1
    <3> QED
      BY <1>2, <2>1, <3>1, HandleStays
  <2>2. CASE p = o /\ b = objs[o] /\ call.pc \notin Constructors
    <3>1. ASSUME NEW u \in Threads, thr'[u].obj = p, thr'[u].pc = "init_open"
          PROVE  thr[u].obj = p /\ thr[u].pc = "init_open"
      BY <1>2, <2>2, <3>1 DEF Constructors
    <3> QED
      BY <1>2, <2>2, <3>1, HandleStays
  <2>3. CASE p = o /\ b.node = NoNode /\ ~b.open
    BY <1>2, <2>3 DEF HandleInv, OwnNode
  <2> QED
    BY <2>1, <2>2, <2>3
<1> QED
  BY <1>3, <1>6, <1>7 DEF ObjectsInv

\* An instance no thread works on is dropped.
LEMMA DropKeeps ==
  ASSUME TablesInv, TablesInv', Later, ObjectsInv, NEW o \in Objects, Drop(o)
  PROVE  ObjectsInv'
<1>1. objs \in [Objects -> {None} \cup Instances] /\ thr \in [Threads -> Calls]
  BY DEF ObjectsInv
<1>2. /\ objs' = [objs EXCEPT ![o] = None] /\ thr' = thr
      /\ \A t \in Threads : thr[t].obj # o
  BY DEF Drop
<1>3. objs'[o] = None /\ \A p \in Objects : p # o => objs'[p] = objs[p]
  BY <1>1, <1>2
<1>4. ASSUME NEW u \in Threads PROVE CallInv(u)'
  BY <1>2, <1>3 DEF ObjectsInv, CallInv, Constructors
<1>5. ASSUME NEW p \in Objects PROVE HandleInv(p)'
  <2>1. CASE p = o
    BY <1>3, <2>1 DEF HandleInv
  <2>2. CASE p # o
    BY <1>2, <1>3, <2>2, HandleStays
  <2> QED
    BY <2>1, <2>2
<1>6. objs' \in [Objects -> {None} \cup Instances] /\ thr' \in [Threads -> Calls]
  BY <1>1, <1>2
<1> QED
  BY <1>4, <1>5, <1>6 DEF ObjectsInv

----------------------------------------------------------------------------
(* What the steps do to an instance and to a call. *)

\* The call of a thread after Goto.
LEMMA GotoIs ==
  ASSUME thr \in [Threads -> Calls], NEW t \in Threads, NEW place \in Places, Goto(t, place)
  PROVE  \E call \in Calls :
           /\ thr' = [thr EXCEPT ![t] = call]
           /\ call.pc = place /\ call.obj = thr[t].obj /\ call.path = thr[t].path
           /\ call.kind = thr[t].kind
<1> DEFINE call == [thr[t] EXCEPT !.pc = place]
<1>1. thr[t] \in Calls
  OBVIOUS
<1>2. /\ call \in Calls
      /\ call.pc = place /\ call.obj = thr[t].obj /\ call.path = thr[t].path
      /\ call.kind = thr[t].kind
  BY <1>1 DEF Calls
<1>3. thr' = [thr EXCEPT ![t] = call]
  BY DEF Goto
<1> HIDE DEF call
<1> QED
  BY <1>2, <1>3

\* An instance with another id.
LEMMA NodeIs ==
  ASSUME NEW a \in Instances, NEW id \in Ids \cup {NoNode}
  PROVE  /\ [a EXCEPT !.node = id] \in Instances
         /\ [a EXCEPT !.node = id].node = id
         /\ [a EXCEPT !.node = id].kind = a.kind
         /\ [a EXCEPT !.node = id].path = a.path
         /\ [a EXCEPT !.node = id].open = a.open
         /\ a.node = id => [a EXCEPT !.node = id] = a
<1>1. /\ [a EXCEPT !.node = id] \in Instances
      /\ [a EXCEPT !.node = id].node = id
      /\ [a EXCEPT !.node = id].kind = a.kind
      /\ [a EXCEPT !.node = id].path = a.path
  BY DEF Instances
<1>2. [a EXCEPT !.node = id].open = a.open
  BY Zenon DEF Instances
<1>3. a.node = id => [a EXCEPT !.node = id] = a
  BY DEF Instances
<1> QED
  BY <1>1, <1>2, <1>3

\* A step that leaves the instances alone, of a call that goes on or ends.
LEMMA SameObjects ==
  ASSUME TablesInv, TablesInv', Later, ObjectsInv, UNCHANGED objs,
         NEW t \in Threads, thr[t].pc # "idle", thr[t].pc \notin Constructors,
         NEW call \in Calls, thr' = [thr EXCEPT ![t] = call],
         \/ call = Idle
         \/ /\ call.pc # "idle" /\ call.obj = thr[t].obj /\ call.path = thr[t].path
            /\ call.pc \notin Constructors /\ call.pc # "change_dir"
  PROVE  ObjectsInv'
<1> DEFINE o == thr[t].obj
<1>1. PICK b : b = objs[o]
  OBVIOUS
<1>2. o \in Objects /\ b \in Instances
  BY <1>1, WorkOn
<1>3. objs' = [objs EXCEPT ![o] = b] /\ b.kind = objs[o].kind
  BY <1>1 DEF ObjectsInv
<1>4. b.kind = "entry" /\ b.open => b.node # NoNode /\ OwnNode(b)
  <2>1. HandleInv(o) /\ b # None
    BY <1>2, NoneIsNoInstance DEF ObjectsInv
  <2> QED
    BY <1>1, <2>1 DEF HandleInv
<1>5. b.node \in Ids \cup {NoNode}
  BY <1>2 DEF Instances
<1>6. b.kind = "entry" /\ b.open => OwnNode(b)'
  BY <1>4, <1>5, OwnNodeStays
<1>7. call.pc # "init_open"
  BY IdleType DEF Constructors
<1> HIDE DEF o
<1>8. b.kind = "entry" /\ b.open => b.node # NoNode
  BY <1>4
<1> QED
  BY <1>2, <1>3, <1>6, <1>7, <1>8, WorkKeeps DEF o

\* The id a call works on.
LEMMA IdType ==
  ASSUME TablesInv, ObjectsInv, NEW t \in Threads, thr[t].pc # "idle"
  PROVE  Id(t) \in Ids \cup {NoNode} /\ OtherId(t) \in Ids \cup {NoNode}
<1>1. /\ thr[t] \in Calls /\ objs[thr[t].obj] \in Instances /\ thr[t].path \in Paths
  BY WorkOn
<1>2. /\ objs[thr[t].obj].node \in Ids \cup {NoNode} /\ thr[t].node \in Ids \cup {NoNode}
  BY <1>1 DEF Instances, Calls
<1>3. /\ Find(thr[t].path) \in Ids \cup {NoNode}
      /\ FindKind(thr[t].path, thr[t].kind) \in Ids \cup {NoNode}
  BY <1>1, FindTypes
<1> QED
  BY <1>2, <1>3 DEF Id, OtherId, Mine

\* A step that stores the id it worked on, of a call that goes on or ends: an
\* instance that is open has had that id before.
LEMMA StoredId ==
  ASSUME TablesInv, TablesInv', Later, ObjectsInv,
         NEW t \in Threads, thr[t].pc # "idle", thr[t].pc \notin Constructors,
         thr[t].pc # "change_dir",
         objs' = [objs EXCEPT ![thr[t].obj].node = Id(t)],
         thr' = [thr EXCEPT ![t] = Idle] \/ thr' = thr
  PROVE  ObjectsInv'
<1> DEFINE o == thr[t].obj
<1>1. o \in Objects /\ objs[o] \in Instances /\ thr[t] \in Calls /\ Id(t) \in Ids \cup {NoNode}
  BY WorkOn, IdType
<1>2. PICK b : b = [objs[o] EXCEPT !.node = Id(t)]
  OBVIOUS
<1>3. /\ b \in Instances /\ b.node = Id(t) /\ b.kind = objs[o].kind
      /\ b.path = objs[o].path
      /\ objs[o].node = Id(t) => b = objs[o]
  BY <1>1, <1>2, NodeIs
<1>4. b.open = objs[o].open
  BY <1>1, <1>2, NodeIs, Zenon
<1>5. objs' = [objs EXCEPT ![o] = b]
  BY <1>2
<1>6. ASSUME b.kind = "entry", b.open PROVE b.node # NoNode /\ OwnNode(b)
  <2>1. HandleInv(o) /\ objs[o] # None
    BY <1>1, NoneIsNoInstance DEF ObjectsInv
  <2>2. objs[o].open /\ objs[o].kind = "entry"
    BY <1>3, <1>4, <1>6, Zenon
  <2>3. objs[o].node # NoNode /\ OwnNode(objs[o])
    BY <2>1, <2>2 DEF HandleInv
  <2>4. b = objs[o]
    BY <1>3, <2>3 DEF Id, Mine
  <2> QED
    BY <2>3, <2>4
<1>7. b.node \in Ids \cup {NoNode}
  BY <1>3 DEF Instances
<1>8. b.kind = "entry" /\ b.open => OwnNode(b)'
  BY <1>6, <1>7, OwnNodeStays
<1>9. b.kind = "entry" /\ b.open => b.node # NoNode
  BY <1>6
<1> HIDE DEF o
<1>10. CASE thr' = [thr EXCEPT ![t] = Idle]
  BY <1>3, <1>5, <1>8, <1>9, <1>10, IdleType, WorkKeeps DEF o
<1>11. CASE thr' = thr
  <2>1. PICK call : call = thr[t]
    OBVIOUS
  <2>2. thr' = [thr EXCEPT ![t] = call]
    BY <1>11, <2>1 DEF ObjectsInv
  <2>3. /\ call \in Calls /\ call.pc # "idle" /\ call.obj = o /\ call.path = thr[t].path
        /\ call.pc \notin Constructors /\ call.pc # "change_dir" /\ call.pc # "init_open"
    BY <1>1, <2>1 DEF o, Constructors
  <2> QED
    BY <1>3, <1>5, <1>8, <1>9, <2>2, <2>3, WorkKeeps DEF o
<1> QED
  BY <1>10, <1>11

\* A step that closes the instance.
LEMMA ClosedKeeps ==
  ASSUME TablesInv, TablesInv', Later, ObjectsInv,
         NEW t \in Threads, thr[t].pc # "idle",
         objs' = [objs EXCEPT ![thr[t].obj].node = NoNode, ![thr[t].obj].open = FALSE],
         thr' = [thr EXCEPT ![t] = Idle]
  PROVE  ObjectsInv'
<1> DEFINE o == thr[t].obj
<1>1. o \in Objects /\ objs[o] \in Instances
  BY WorkOn
<1>2. PICK b : b = [objs[o] EXCEPT !.node = NoNode, !.open = FALSE]
  OBVIOUS
<1>3. b \in Instances /\ b.kind = objs[o].kind /\ ~b.open
  BY <1>1, <1>2 DEF Instances
<1>4. objs' = [objs EXCEPT ![o] = b]
  BY <1>1, <1>2 DEF ObjectsInv
<1> HIDE DEF o
<1>5. Idle.pc # "init_open"
  BY IdleType
<1> QED
  BY <1>3, <1>4, <1>5, IdleType, WorkKeeps DEF o

----------------------------------------------------------------------------
(* The constructors. *)

\* What a constructor knows of its instance.
LEMMA ConstructOn ==
  ASSUME ObjectsInv, NEW t \in Threads, thr[t].pc \in Constructors
  PROVE  /\ thr[t].pc # "idle"
         /\ thr[t].obj \in Objects /\ objs[thr[t].obj] \in Instances
         /\ thr[t] \in Calls /\ thr[t].path \in Paths /\ thr[t].kind \in Kinds
         /\ ~objs[thr[t].obj].open
         /\ objs[thr[t].obj].path = thr[t].path
         /\ objs[thr[t].obj].kind = thr[t].kind
<1>1. thr[t].pc # "idle"
  BY DEF Constructors
<1>2. /\ thr[t].obj \in Objects /\ objs[thr[t].obj] \in Instances
      /\ thr[t] \in Calls /\ thr[t].path \in Paths
  BY <1>1, WorkOn
<1>3. thr[t].kind \in Kinds
  BY <1>2 DEF Calls
<1>4. CallInv(t)
  BY DEF ObjectsInv
<1> QED
  BY <1>1, <1>2, <1>3, <1>4 DEF CallInv

\* A step of a constructor that goes on to another access, with the instance b.
LEMMA ConstructKeeps ==
  ASSUME TablesInv, TablesInv', Later, ObjectsInv,
         NEW t \in Threads, thr[t].pc \in Constructors,
         NEW id \in Ids \cup {NoNode}, objs' = [objs EXCEPT ![thr[t].obj].node = id],
         NEW place \in Constructors, thr' = [thr EXCEPT ![t].pc = place],
         \A b \in Instances :
           /\ b.node = id
           /\ b.path = thr[t].path
           /\ thr[t].kind = "entry"
           /\ place = "init_open"
           => OwnNode(b)'
  PROVE  ObjectsInv'
<1> DEFINE o == thr[t].obj
<1>1. /\ thr[t].pc # "idle" /\ o \in Objects /\ objs[o] \in Instances /\ thr[t] \in Calls
      /\ ~objs[o].open /\ objs[o].path = thr[t].path /\ objs[o].kind = thr[t].kind
  BY ConstructOn
<1>2. PICK b : b = [objs[o] EXCEPT !.node = id]
  OBVIOUS
<1>3. b \in Instances /\ b.node = id /\ b.kind = objs[o].kind /\ b.path = objs[o].path
  BY <1>1, <1>2, NodeIs
<1>4. ~b.open
  <2>1. b.open = objs[o].open
    BY <1>1, <1>2, NodeIs, Zenon
  <2> QED
    BY <1>1, <2>1
<1>5. objs' = [objs EXCEPT ![o] = b]
  BY <1>2
<1>6. place \in Places /\ place # "idle" /\ place # "change_dir"
  BY DEF Constructors, Places, Creating
<1>7. PICK call \in Calls :
        /\ thr' = [thr EXCEPT ![t] = call]
        /\ call.pc = place /\ call.obj = o /\ call.path = thr[t].path /\ call.kind = thr[t].kind
  BY <1>6, GotoIs DEF Goto, ObjectsInv
<1>8. b.kind = "entry" /\ (b.open \/ call.pc = "init_open") => OwnNode(b)'
  BY <1>1, <1>3, <1>4, <1>7
<1> HIDE DEF o
<1> QED
  BY <1>1, <1>3, <1>4, <1>5, <1>6, <1>7, <1>8, WorkKeeps DEF o

\* The test for Exclusive.
LEMMA InitExistsKeeps ==
  ASSUME TablesInv, TablesInv', Later, ObjectsInv, NEW t \in Threads, InitExists(t)
  PROVE  ObjectsInv'
<1>1. thr[t].pc = "init_exists" /\ thr[t].pc \in Constructors
  BY DEF InitExists, At, Constructors
<1>2. CASE Find(thr[t].path) = NoNode
  <2> DEFINE o == thr[t].obj
  <2>1. o \in Objects /\ objs[o] \in Instances
    BY <1>1, ConstructOn
  <2>2. PICK id \in Ids \cup {NoNode} : id = objs[o].node
    BY <2>1 DEF Instances
  <2>3. objs' = [objs EXCEPT ![o].node = id]
    <3>1. objs' = objs
      BY <1>2 DEF InitExists
    <3>2. [objs EXCEPT ![o].node = id] = objs
      <4>1. [objs[o] EXCEPT !.node = id] = objs[o]
        BY <2>1, <2>2, NodeIs
      <4> HIDE DEF o
      <4> QED
        BY <4>1 DEF ObjectsInv
    <3> QED
      BY <3>1, <3>2
  <2>4. thr' = [thr EXCEPT ![t].pc = "init_create"]
    BY <1>2 DEF InitExists, Goto
  <2>5. "init_create" \in Constructors
    BY DEF Constructors
  <2>6. \A b \in Instances :
          /\ b.node = id
          /\ b.path = thr[t].path
          /\ thr[t].kind = "entry"
          /\ "init_create" = "init_open"
          => OwnNode(b)'
    OBVIOUS
  <2> QED
    BY <1>1, <2>3, <2>4, <2>5, <2>6, ConstructKeeps, ZenonT(60)
<1>3. CASE Find(thr[t].path) # NoNode
  <2>1. Abandon(t)
    BY <1>3 DEF InitExists
  <2> QED
    BY <1>1, <2>1, AbandonKeeps
<1> QED
  BY <1>2, <1>3

\* The creation: the id is that of a node of the path's last name.
LEMMA InitCreateKeeps ==
  ASSUME TablesInv, ObjectsInv, NEW t \in Threads, InitCreate(t)
  PROVE  TablesInv' /\ ObjectsInv'
<1>1. thr[t].pc = "init_create" /\ thr[t].pc \in Constructors
  BY DEF InitCreate, At, Constructors
<1>2. thr[t].path \in Paths /\ thr[t].kind \in Kinds
  BY <1>1, ConstructOn
<1> DEFINE p == thr[t].path
           k == thr[t].kind
<1>3. CASE Creatable(p, k, thr[t].flags)
  <2>1. /\ Create(p, k)
        /\ objs' = [objs EXCEPT ![thr[t].obj].node = WithPath(p, k).id]
        /\ thr' = [thr EXCEPT ![t].pc = "init_open"]
    BY <1>3 DEF InitCreate, Goto
  <2>2. TablesInv' /\ Later
    BY <1>2, <1>3, <2>1, CreateKeeps
  <2>3. WithPath(p, k).id \in Ids \cup {NoNode}
    BY <1>2, <1>3, CreatedId
  <2>4. ASSUME NEW b \in Instances, b.node = WithPath(p, k).id, b.path = p, k = "entry"
        PROVE  OwnNode(b)'
    BY <1>2, <1>3, <2>1, <2>4, CreatedIsOwn
  <2>5. "init_open" \in Constructors
    BY DEF Constructors
  <2>6. \A b \in Instances :
          /\ b.node = WithPath(p, k).id
          /\ b.path = thr[t].path
          /\ thr[t].kind = "entry"
          /\ "init_open" = "init_open"
          => OwnNode(b)'
    BY <2>4
  <2> QED
    BY <1>1, <2>1, <2>2, <2>3, <2>5, <2>6, ConstructKeeps, ZenonT(60)
<1>4. CASE ~Creatable(p, k, thr[t].flags)
  <2>1. Abandon(t) /\ UNCHANGED tables
    BY <1>4 DEF InitCreate
  <2>2. TablesInv' /\ Later
    BY <2>1, SameTables
  <2> QED
    BY <1>1, <2>1, <2>2, AbandonKeeps
<1> QED
  BY <1>3, <1>4

\* A creation that is rolled back.
LEMMA InitCreateBusyKeeps ==
  ASSUME TablesInv, TablesInv', Later, ObjectsInv, NEW t \in Threads, InitCreateBusy(t)
  PROVE  ObjectsInv'
<1>1. thr[t].pc = "init_create" /\ thr[t].pc \in Constructors
  BY DEF InitCreateBusy, At, Constructors
<1>2. thr[t].path \in Paths /\ thr[t].kind \in Kinds
  BY <1>1, ConstructOn
<1>3. /\ Creatable(thr[t].path, thr[t].kind, thr[t].flags)
      /\ objs' = [objs EXCEPT ![thr[t].obj].node = WithPath(thr[t].path, thr[t].kind).id]
      /\ thr' = thr
  BY DEF InitCreateBusy
<1>4. WithPath(thr[t].path, thr[t].kind).id \in Ids \cup {NoNode}
  BY <1>2, <1>3, CreatedId
<1>5. thr' = [thr EXCEPT ![t].pc = "init_create"]
  <2>1. thr \in [Threads -> Calls]
    BY DEF ObjectsInv
  <2>2. [thr[t] EXCEPT !.pc = "init_create"] = thr[t]
    BY <1>1, <2>1 DEF Calls
  <2> QED
    BY <1>3, <2>1, <2>2
<1>6. "init_create" \in Constructors
  BY DEF Constructors
<1>7. ASSUME NEW b \in Instances, "init_create" = "init_open" PROVE OwnNode(b)'
  BY <1>7
<1>8. PICK id \in Ids \cup {NoNode} : objs' = [objs EXCEPT ![thr[t].obj].node = id]
  BY <1>3, <1>4
<1> QED
  BY <1>1, <1>5, <1>6, <1>7, <1>8, ConstructKeeps

\* The test for existence, after which the instance is open.
LEMMA InitOpenKeeps ==
  ASSUME TablesInv, TablesInv', Later, ObjectsInv, NEW t \in Threads, InitOpen(t)
  PROVE  ObjectsInv'
<1> DEFINE o == thr[t].obj
           id == IF Mine(t).node # NoNode THEN Mine(t).node
                 ELSE FindKind(thr[t].path, thr[t].kind)
<1>1. thr[t].pc = "init_open" /\ thr[t].pc \in Constructors
  BY DEF InitOpen, At, Constructors
<1>2. /\ o \in Objects /\ objs[o] \in Instances /\ thr[t].path \in Paths
      /\ objs[o].path = thr[t].path /\ objs[o].kind = thr[t].kind /\ thr[t].pc # "idle"
  BY <1>1, ConstructOn
<1>3. CASE id = NoNode
  <2>1. Abandon(t)
    BY <1>3 DEF InitOpen
  <2> QED
    BY <1>1, <2>1, AbandonKeeps
<1>4. CASE id # NoNode
  <2>1. /\ objs' = [objs EXCEPT ![o].node = id, ![o].open = TRUE]
        /\ thr' = [thr EXCEPT ![t] = Idle]
    BY <1>4 DEF InitOpen, Return
  <2>2. id \in Ids \cup {NoNode}
    BY <1>2, FindTypes DEF Mine, Instances
  <2>3. PICK b : b = [objs[o] EXCEPT !.node = id, !.open = TRUE]
    OBVIOUS
  <2>4. b \in Instances /\ b.kind = objs[o].kind /\ b.path = objs[o].path /\ b.node = id
    <3> HIDE DEF id
    <3> QED
      BY <1>2, <2>2, <2>3 DEF Instances
  <2>5. objs' = [objs EXCEPT ![o] = b]
    <3> HIDE DEF id
    <3> QED
      BY <1>2, <2>1, <2>3 DEF ObjectsInv
  <2>6. ASSUME b.kind = "entry" PROVE OwnNode(b)
    <3>1. CASE objs[o].node # NoNode
      <4>1. HandleInv(o) /\ objs[o] # None
        BY <1>2, NoneIsNoInstance DEF ObjectsInv
      <4>2. OwnNode(objs[o])
        BY <1>1, <2>4, <2>6, <4>1 DEF HandleInv
      <4>3. b.node = objs[o].node
        BY <2>4, <3>1 DEF Mine
      <4> QED
        BY <2>4, <4>2, <4>3 DEF OwnNode
    <3>2. CASE objs[o].node = NoNode
      <4>1. b.node = FindKind(b.path, "entry")
        BY <1>2, <2>4, <2>6, <3>2 DEF Mine
      <4> QED
        BY <1>2, <2>4, <4>1, FoundIsOwn
    <3> QED
      BY <3>1, <3>2
  <2>7. b.node \in Ids \cup {NoNode}
    BY <2>4 DEF Instances
  <2>8. b.kind = "entry" => OwnNode(b)'
    BY <2>6, <2>7, OwnNodeStays
  <2>9. b.node # NoNode
    BY <1>4, <2>4
  <2> HIDE DEF o, id
  <2> QED
    BY <1>2, <2>1, <2>4, <2>5, <2>8, <2>9, IdleType, WorkKeeps DEF o
<1> QED
  BY <1>3, <1>4

----------------------------------------------------------------------------
(* The other calls. *)

\* Store adds a row for a node that is there.
LEMMA StoreKeeps ==
  ASSUME TablesInv, ObjectsInv, NEW t \in Threads, Store(t)
  PROVE  TablesInv' /\ ObjectsInv'
<1>1. thr[t].pc = "store" /\ thr[t].pc # "idle" /\ thr[t].pc \notin Constructors
      /\ thr[t].pc # "change_dir"
  BY DEF Store, At, Constructors
<1>2. /\ data' = data \cup {id \in {Id(t)} : Exists(id)}
      /\ nodes' = nodes /\ nextId' = nextId /\ metadata' = metadata
      /\ objs' = [objs EXCEPT ![thr[t].obj].node = Id(t)]
      /\ thr' = [thr EXCEPT ![t] = Idle]
  BY DEF Store, Finish, Return
<1>3. data' \subseteq DOMAIN nodes /\ metadata' \subseteq Ids
  BY <1>2 DEF TablesInv, Exists
<1>4. TablesInv' /\ Later
  BY <1>2, <1>3, SameNodes
<1> QED
  BY <1>1, <1>2, <1>4, StoredId

\* The attributes are set under an id that is one of the data base.
LEMMA SetAttributeKeeps ==
  ASSUME TablesInv, ObjectsInv, NEW t \in Threads, SetAttribute(t)
  PROVE  TablesInv' /\ ObjectsInv'
<1>1. thr[t].pc = "set_attribute" /\ thr[t].pc # "idle" /\ thr[t].pc \notin Constructors
      /\ thr[t].pc # "change_dir"
  BY DEF SetAttribute, At, Constructors
<1>2. /\ metadata' = metadata \cup ({Id(t)} \ {NoNode})
      /\ nodes' = nodes /\ nextId' = nextId /\ data' = data
      /\ objs' = [objs EXCEPT ![thr[t].obj].node = Id(t)]
      /\ thr' = [thr EXCEPT ![t] = Idle]
  BY DEF SetAttribute, Finish, Return
<1>3. Id(t) \in Ids \cup {NoNode}
  BY <1>1, IdType
<1>4. data' \subseteq DOMAIN nodes /\ metadata' \subseteq Ids
  BY <1>2, <1>3 DEF TablesInv
<1>5. TablesInv' /\ Later
  BY <1>2, <1>4, SameNodes
<1> QED
  BY <1>1, <1>2, <1>5, StoredId

\* The attributes are removed.
LEMMA RemoveAttributeKeeps ==
  ASSUME TablesInv, ObjectsInv, NEW t \in Threads, RemoveAttribute(t)
  PROVE  TablesInv' /\ ObjectsInv'
<1>1. thr[t].pc = "remove_attribute" /\ thr[t].pc # "idle" /\ thr[t].pc \notin Constructors
      /\ thr[t].pc # "change_dir"
  BY DEF RemoveAttribute, At, Constructors
<1>2. /\ metadata' = metadata \ {Id(t)}
      /\ nodes' = nodes /\ nextId' = nextId /\ data' = data
      /\ objs' = [objs EXCEPT ![thr[t].obj].node = Id(t)]
      /\ thr' = [thr EXCEPT ![t] = Idle]
  BY DEF RemoveAttribute, Finish, Return
<1>3. data' \subseteq DOMAIN nodes /\ metadata' \subseteq Ids
  BY <1>2 DEF TablesInv
<1>4. TablesInv' /\ Later
  BY <1>2, <1>3, SameNodes
<1> QED
  BY <1>1, <1>2, <1>4, StoredId

\* Calls that only read, but for the id they leave.
LEMMA ReadsKeep ==
  ASSUME TablesInv, ObjectsInv, NEW t \in Threads,
         NEW op \in {"get_attribute", "retrieve", "list"}, Reads(t, op)
  PROVE  TablesInv' /\ ObjectsInv'
<1>1. thr[t].pc = op /\ thr[t].pc # "idle" /\ thr[t].pc \notin Constructors
      /\ thr[t].pc # "change_dir"
  BY DEF Reads, At, Constructors
<1>2. /\ UNCHANGED tables
      /\ objs' = [objs EXCEPT ![thr[t].obj].node = Id(t)]
      /\ thr' = [thr EXCEPT ![t] = Idle]
  BY DEF Reads, Finish, Return
<1>3. TablesInv' /\ Later
  BY <1>2, SameTables
<1> QED
  BY <1>1, <1>2, <1>3, StoredId

\* remove of the instance itself.
LEMMA RemoveSelfKeeps ==
  ASSUME TablesInv, ObjectsInv, NEW t \in Threads, RemoveSelf(t)
  PROVE  TablesInv' /\ ObjectsInv'
<1>1. thr[t].pc = "remove" /\ thr[t].pc # "idle" /\ thr[t].pc \notin Constructors
      /\ thr[t].pc # "change_dir"
  BY DEF RemoveSelf, At, Constructors
<1>2. CASE Exists(Id(t))
  <2>1. /\ RemoveNode(Id(t))
        /\ objs' = [objs EXCEPT ![thr[t].obj].node = NoNode, ![thr[t].obj].open = FALSE]
        /\ thr' = [thr EXCEPT ![t] = Idle]
    BY <1>2 DEF RemoveSelf, Return
  <2>2. TablesInv' /\ Later
    BY <2>1, RemoveKeeps
  <2> QED
    BY <1>1, <2>1, <2>2, ClosedKeeps
<1>3. CASE ~Exists(Id(t))
  <2>1. /\ UNCHANGED tables
        /\ objs' = [objs EXCEPT ![thr[t].obj].node = Id(t)]
        /\ thr' = [thr EXCEPT ![t] = Idle]
    BY <1>3 DEF RemoveSelf, Finish, Return
  <2>2. TablesInv' /\ Later
    BY <2>1, SameTables
  <2> QED
    BY <1>1, <2>1, <2>2, StoredId
<1> QED
  BY <1>2, <1>3

\* An attempt that is rolled back leaves its id.
LEMMA BusyKeeps ==
  ASSUME TablesInv, ObjectsInv, NEW t \in Threads, Busy(t)
  PROVE  TablesInv' /\ ObjectsInv'
<1>1. thr[t].pc # "idle" /\ thr[t].pc \notin Constructors /\ thr[t].pc # "change_dir"
  BY DEF Busy, Constructors
<1>2. /\ UNCHANGED tables
      /\ objs' = [objs EXCEPT ![thr[t].obj].node = Id(t)]
      /\ thr' = thr
  BY DEF Busy
<1>3. TablesInv' /\ Later
  BY <1>2, SameTables
<1> QED
  BY <1>1, <1>2, <1>3, StoredId

\* close, and an instance that is closed.
LEMMA CloseKeeps ==
  ASSUME TablesInv, ObjectsInv, NEW t \in Threads, Close(t)
  PROVE  TablesInv' /\ ObjectsInv'
<1>1. /\ thr[t].pc # "idle" /\ UNCHANGED tables
      /\ objs' = [objs EXCEPT ![thr[t].obj].node = NoNode, ![thr[t].obj].open = FALSE]
      /\ thr' = [thr EXCEPT ![t] = Idle]
  BY DEF Close, At, Return
<1>2. TablesInv' /\ Later
  BY <1>1, SameTables
<1> QED
  BY <1>1, <1>2, ClosedKeeps

\* The two tests of remove(entry).
LEMMA ExistsKeep ==
  ASSUME TablesInv, ObjectsInv, NEW t \in Threads, ExistsEntry(t) \/ ExistsDirectory(t)
  PROVE  TablesInv' /\ ObjectsInv'
<1>1. /\ thr[t].pc \in {"exists_entry", "exists_directory"}
      /\ UNCHANGED <<tables, objs>>
  BY DEF ExistsEntry, ExistsDirectory, At
<1>2. thr[t].pc # "idle" /\ thr[t].pc \notin Constructors /\ thr[t] \in Calls
      /\ thr \in [Threads -> Calls]
  BY <1>1 DEF Constructors, ObjectsInv
<1>3. TablesInv' /\ Later
  BY <1>1, SameTables
<1>4. \E call \in Calls :
        /\ thr' = [thr EXCEPT ![t] = call]
        /\ \/ call = Idle
           \/ /\ call.pc \in {"exists_directory", "remove_other"}
              /\ call.obj = thr[t].obj /\ call.path = thr[t].path
  <2>1. CASE ExistsEntry(t)
    <3> DEFINE kind == IF FindKind(thr[t].path, "entry") # NoNode THEN "entry" ELSE "dir"
               call == [thr[t] EXCEPT !.pc = "exists_directory", !.kind = kind]
    <3>1. kind \in Kinds
      BY DEF Kinds
    <3>2. thr' = [thr EXCEPT ![t].pc = "exists_directory", ![t].kind = kind]
      BY <2>1 DEF ExistsEntry
    <3> HIDE DEF kind
    <3>3. thr' = [thr EXCEPT ![t] = call]
      BY <1>2, <3>2
    <3>4. /\ call \in Calls /\ call.pc = "exists_directory"
          /\ call.obj = thr[t].obj /\ call.path = thr[t].path
      BY <1>2, <3>1 DEF Calls, Places
    <3> HIDE DEF call
    <3> QED
      BY <3>3, <3>4
  <2>2. CASE ExistsDirectory(t)
    <3>1. CASE Goto(t, "remove_other")
      <4>1. "remove_other" \in Places
        BY DEF Places
      <4> QED
        BY <1>2, <3>1, <4>1, GotoIs
    <3>2. CASE Return(t)
      BY <3>2, IdleType DEF Return
    <3> QED
      BY <2>2, <3>1, <3>2 DEF ExistsDirectory
  <2> QED
    BY <2>1, <2>2
<1>5. PICK call \in Calls :
        /\ thr' = [thr EXCEPT ![t] = call]
        /\ \/ call = Idle
           \/ /\ call.pc \in {"exists_directory", "remove_other"}
              /\ call.obj = thr[t].obj /\ call.path = thr[t].path
  BY <1>4
<1>6. \/ call = Idle
      \/ /\ call.pc # "idle" /\ call.pc \notin Constructors /\ call.pc # "change_dir"
         /\ call.obj = thr[t].obj /\ call.path = thr[t].path
  BY <1>5 DEF Constructors
<1> QED
  BY <1>1, <1>2, <1>3, <1>5, <1>6, SameObjects

\* The removal of another node, committed or rolled back.
LEMMA RemoveOtherKeeps ==
  ASSUME TablesInv, ObjectsInv, NEW t \in Threads, RemoveOther(t) \/ RemoveOtherBusy(t)
  PROVE  TablesInv' /\ ObjectsInv'
<1>1. thr[t].pc = "remove_other" /\ UNCHANGED objs
  BY DEF RemoveOther, RemoveOtherBusy, At
<1>2. thr[t].pc # "idle" /\ thr[t].pc \notin Constructors /\ thr[t] \in Calls
      /\ thr \in [Threads -> Calls]
  BY <1>1 DEF Constructors, ObjectsInv
<1>3. CASE RemoveOther(t)
  <2>1. thr' = [thr EXCEPT ![t] = Idle]
    BY <1>3 DEF RemoveOther, Return
  <2>2. TablesInv' /\ Later
    <3>1. CASE RemoveNode(OtherId(t))
      BY <3>1, RemoveKeeps
    <3>2. CASE UNCHANGED tables
      BY <3>2, SameTables
    <3> QED
      BY <1>3, <3>1, <3>2 DEF RemoveOther
  <2> QED
    BY <1>1, <1>2, <2>1, <2>2, IdleType, SameObjects
<1>4. CASE RemoveOtherBusy(t)
  <2>1. UNCHANGED tables /\ thr' = [thr EXCEPT ![t].node = OtherId(t)]
    BY <1>4 DEF RemoveOtherBusy
  <2>2. TablesInv' /\ Later
    BY <2>1, SameTables
  <2>3. OtherId(t) \in Ids \cup {NoNode}
    BY <1>2, IdType
  <2>4. PICK call : call = [thr[t] EXCEPT !.node = OtherId(t)]
    OBVIOUS
  <2>5. /\ call \in Calls /\ call.pc = thr[t].pc /\ call.obj = thr[t].obj
        /\ call.path = thr[t].path
    BY <1>2, <2>3, <2>4 DEF Calls
  <2>6. thr' = [thr EXCEPT ![t] = call]
    BY <2>1, <2>4
  <2>7. call.pc # "idle" /\ call.pc \notin Constructors /\ call.pc # "change_dir"
    BY <1>1, <2>5 DEF Constructors
  <2> QED
    BY <1>1, <1>2, <2>2, <2>5, <2>6, <2>7, SameObjects
<1> QED
  BY <1>3, <1>4

\* make_dir looks, and creates in another access.
LEMMA MakeKeeps ==
  ASSUME TablesInv, ObjectsInv, NEW t \in Threads, MakeExists(t) \/ MakeCreate(t)
  PROVE  TablesInv' /\ ObjectsInv'
<1>1. thr[t].pc \in {"make_exists", "make_create"} /\ UNCHANGED objs
  BY DEF MakeExists, MakeCreate, At
<1>2. thr[t].pc # "idle" /\ thr[t].pc \notin Constructors /\ thr \in [Threads -> Calls]
      /\ thr[t].path \in Paths
  BY <1>1, WorkOn DEF Constructors, ObjectsInv
<1>3. CASE MakeExists(t)
  <2>1. TablesInv' /\ Later
    BY <1>3, SameTables DEF MakeExists
  <2>2. CASE Goto(t, "make_create")
    <3>1. "make_create" \in Places
      BY DEF Places, Creating
    <3>2. PICK call \in Calls :
            /\ thr' = [thr EXCEPT ![t] = call]
            /\ call.pc = "make_create" /\ call.obj = thr[t].obj /\ call.path = thr[t].path
      BY <1>2, <2>2, <3>1, GotoIs
    <3>3. call.pc # "idle" /\ call.pc \notin Constructors /\ call.pc # "change_dir"
      BY <3>2 DEF Constructors
    <3> QED
      BY <1>1, <1>2, <2>1, <3>2, <3>3, SameObjects
  <2>3. CASE Return(t)
    BY <1>1, <1>2, <2>1, <2>3, IdleType, SameObjects DEF Return
  <2> QED
    BY <1>3, <2>2, <2>3 DEF MakeExists
<1>4. CASE MakeCreate(t)
  <2>1. thr' = [thr EXCEPT ![t] = Idle]
    BY <1>4 DEF MakeCreate, Return
  <2>2. TablesInv' /\ Later
    <3>1. CASE Creatable(thr[t].path, "dir", thr[t].flags)
      <4>1. Create(thr[t].path, "dir") /\ "dir" \in Kinds
        BY <1>4, <3>1 DEF MakeCreate, Kinds
      <4> QED
        BY <1>2, <3>1, <4>1, CreateKeeps
    <3>2. CASE ~Creatable(thr[t].path, "dir", thr[t].flags)
      BY <1>4, <3>2, SameTables DEF MakeCreate
    <3> QED
      BY <3>1, <3>2
  <2> QED
    BY <1>1, <1>2, <2>1, <2>2, IdleType, SameObjects
<1> QED
  BY <1>3, <1>4

\* change_dir, which only directories have.
LEMMA ChangeDirKeeps ==
  ASSUME TablesInv, ObjectsInv, NEW t \in Threads, ChangeDir(t)
  PROVE  TablesInv' /\ ObjectsInv'
<1> DEFINE o == thr[t].obj
           id == FindKind(thr[t].path, "dir")
<1>1. thr[t].pc = "change_dir" /\ thr[t].pc # "idle" /\ thr[t].pc \notin Constructors
      /\ UNCHANGED tables /\ thr' = [thr EXCEPT ![t] = Idle]
  BY DEF ChangeDir, At, Constructors, Return
<1>2. TablesInv' /\ Later
  BY <1>1, SameTables
<1>3. o \in Objects /\ objs[o] \in Instances /\ thr[t].path \in Paths /\ objs[o].kind = "dir"
  BY <1>1, WorkOn DEF ObjectsInv, CallInv
<1>4. CASE OtherKind(thr[t].path, "dir")
  <2>1. UNCHANGED objs
    BY <1>4 DEF ChangeDir
  <2> QED
    BY <1>1, <1>2, <2>1, IdleType, SameObjects
<1>5. CASE ~OtherKind(thr[t].path, "dir")
  <2> DEFINE n == IF id # NoNode THEN id ELSE objs[o].node
  <2>1. objs' = [objs EXCEPT ![o].path = thr[t].path,
                             ![o].node = IF id # NoNode THEN id ELSE @]
    BY <1>5 DEF ChangeDir
  <2>2. n \in Ids \cup {NoNode}
    BY <1>3, FindTypes DEF Instances
  <2>3. PICK b : b = [objs[o] EXCEPT !.path = thr[t].path, !.node = n]
    OBVIOUS
  <2>4. objs' = [objs EXCEPT ![o] = b]
    BY <1>3, <2>1, <2>3 DEF ObjectsInv, Instances
  <2> HIDE DEF n
  <2>5. b \in Instances /\ b.kind = "dir"
    BY <1>3, <2>2, <2>3 DEF Instances
  <2>6. b.kind = objs[o].kind /\ b.kind # "entry"
    BY <1>3, <2>5
  <2> HIDE DEF o
  <2> QED
    BY <1>1, <1>2, <2>4, <2>5, <2>6, IdleType, WorkKeeps DEF o
<1> QED
  BY <1>2, <1>4, <1>5

----------------------------------------------------------------------------
(* The beginning of calls. *)

\* A thread that is in a call on an instance finds it there.
LEMMA NobodyOnNone ==
  ASSUME ObjectsInv, NEW o \in Objects, objs[o] = None, NEW u \in Threads
  PROVE  thr[u].obj # o
<1>1. CallInv(u) /\ o # None
  BY AdvertAssumption DEF ObjectsInv
<1> QED
  BY <1>1 DEF CallInv

\* Constructors start where there is no instance.
LEMMA OpenKeeps ==
  ASSUME TablesInv, TablesInv', Later, ObjectsInv, NEW t \in Threads, NEW o \in Objects,
         NEW kind \in Kinds, NEW path \in Paths, NEW flags \in OpenFlags,
         Open(t, o, kind, path, flags)
  PROVE  ObjectsInv'
<1> DEFINE place == IF ~Creates(flags) THEN "init_open"
                    ELSE IF "Exclusive" \in flags THEN "init_exists"
                    ELSE "init_create"
           call == [Idle EXCEPT !.obj = o, !.path = path, !.flags = flags, !.kind = kind,
                                !.pc = place]
           b == [kind |-> kind, path |-> path, node |-> NoNode, open |-> FALSE]
<1>1. /\ thr[t].pc = "idle" /\ objs[o] = None
      /\ objs' = [objs EXCEPT ![o] = b]
      /\ thr' = [thr EXCEPT ![t] = call]
  BY DEF Open, At
<1>2. place \in Constructors /\ place \in Places /\ place # "idle" /\ place # "change_dir"
  BY DEF Constructors, Places, Creating
<1>3. b \in Instances /\ b.node = NoNode /\ ~b.open /\ b.path = path /\ b.kind = kind
  BY DEF Instances
<1>4. flags \in SUBSET (CreationFlags \cup {"Recursive"})
  BY AdvertAssumption
<1> HIDE DEF place, b
<1>5. /\ call \in Calls /\ call.pc = place /\ call.obj = o /\ call.path = path
      /\ call.kind = kind
  BY <1>2, <1>4 DEF Calls, Idle
<1> HIDE DEF call
<1>6. \A u \in Threads : thr[u].obj = o => thr[u].pc \notin Constructors
  BY <1>1, NobodyOnNone
<1>7. call.pc # "idle" /\ call.path \in Paths /\ call.pc # "change_dir"
  BY <1>2, <1>5
<1>8. objs[o] = None /\ b.node = NoNode /\ ~b.open /\ b.path = call.path /\ b.kind = call.kind
  BY <1>1, <1>3, <1>5
<1> QED
  BY <1>1, <1>3, <1>5, <1>6, <1>7, <1>8, BeginKeeps

\* An instance that is open is under construction by no thread.
LEMMA OpenIsConstructed ==
  ASSUME ObjectsInv, NEW o \in Objects, objs[o].open, NEW u \in Threads, thr[u].obj = o
  PROVE  thr[u].pc \notin Constructors
BY ConstructOn

\* A call on an instance, with a path or not, begins.
LEMMA CallsKeep ==
  ASSUME TablesInv, TablesInv', Later, ObjectsInv, NEW t \in Threads, NEW o \in Objects,
         \/ \E op \in OwnCalls("entry") \cup OwnCalls("dir") : Call(t, o, op)
         \/ \E op \in {"exists_entry", "make_exists", "change_dir"},
               path \in Paths, flags \in SUBSET {"Recursive", "CreateParents"} :
              DirCall(t, o, op, path, flags)
  PROVE  ObjectsInv'
<1>1. thr[t].pc = "idle" /\ objs[o] # None /\ UNCHANGED objs
  BY DEF Call, DirCall, At
<1>2. objs \in [Objects -> {None} \cup Instances]
  BY DEF ObjectsInv
<1>3. PICK b \in Instances : b = objs[o]
  BY <1>1, <1>2
<1>4. objs' = [objs EXCEPT ![o] = b]
  BY <1>1, <1>2, <1>3
<1>7. ASSUME NEW call \in Calls, thr' = [thr EXCEPT ![t] = call],
             call.obj = o, call.pc # "idle", call.path \in Paths, call.pc \notin Constructors,
             call.pc = "change_dir" => b.kind = "dir",
             \A u \in Threads : thr[u].obj = o => thr[u].pc \notin Constructors
      PROVE  ObjectsInv'
  <2>1. \/ b = objs[o] /\ call.pc \notin Constructors
        \/ /\ objs[o] = None /\ b.node = NoNode /\ ~b.open
           /\ b.path = call.path /\ b.kind = call.kind
    BY <1>3, <1>7, Zenon
  <2>2. thr[t].pc = "idle" /\ objs' = [objs EXCEPT ![o] = b]
    BY <1>1, <1>4, Zenon
  <2> QED
    BY <2>1, <2>2, <1>7, BeginKeeps, ZenonT(60)
<1>5. CASE \E op \in OwnCalls("entry") \cup OwnCalls("dir") : Call(t, o, op)
  <2>1. PICK op \in OwnCalls("entry") \cup OwnCalls("dir") : Call(t, o, op)
    BY <1>5
  <2>2. PICK call : call = [Idle EXCEPT !.pc = op, !.obj = o, !.path = objs[o].path,
                                        !.kind = objs[o].kind]
    OBVIOUS
  <2>3. thr' = [thr EXCEPT ![t] = call]
    BY <2>1, <2>2 DEF Call
  <2>11. ASSUME NEW u \in Threads, thr[u].obj = o PROVE thr[u].pc \notin Constructors
    BY <2>1, <2>11 DEF Call, Constructors
  <2>4. op \in Places /\ op # "idle" /\ op \notin Constructors /\ op # "change_dir"
    BY <2>1 DEF OwnCalls, Places, Constructors
  <2>5. b.path \in Paths /\ b.kind \in Kinds
    BY <1>3 DEF Instances
  <2>6. call \in Calls /\ call.pc = op /\ call.obj = o /\ call.path = b.path
    BY <1>3, <2>2, <2>4, <2>5 DEF Calls, Idle
  <2>7. /\ call.pc # "idle" /\ call.path \in Paths /\ call.pc \notin Constructors
        /\ call.pc # "change_dir"
    BY <2>4, <2>5, <2>6
  <2>8. call.pc = "change_dir" => b.kind = "dir"
    BY <2>7
  <2>9. b = objs[o] /\ call.pc \notin Constructors
    BY <1>3, <2>7
  <2>10. call.pc # "idle" /\ call.path \in Paths /\ call.obj = o /\ call \in Calls
    BY <2>6, <2>7
  <2> QED
    BY <1>7, <2>3, <2>8, <2>9, <2>10, <2>11
<1>6. CASE \E op \in {"exists_entry", "make_exists", "change_dir"},
              path \in Paths, flags \in SUBSET {"Recursive", "CreateParents"} :
             DirCall(t, o, op, path, flags)
  <2>1. PICK op \in {"exists_entry", "make_exists", "change_dir"},
             path \in Paths, flags \in SUBSET {"Recursive", "CreateParents"} :
             DirCall(t, o, op, path, flags)
    BY <1>6
  <2>2. PICK call : call = [Idle EXCEPT !.pc = op, !.obj = o, !.path = path, !.flags = flags]
    OBVIOUS
  <2>3. thr' = [thr EXCEPT ![t] = call] /\ objs[o].open /\ objs[o].kind = "dir"
    BY <2>1, <2>2 DEF DirCall
  <2>4. \A u \in Threads : thr[u].obj = o => thr[u].pc \notin Constructors
    BY <2>3, OpenIsConstructed
  <2>5. op \in Places /\ op # "idle" /\ op \notin Constructors
    BY <2>1 DEF Places, Constructors, Creating
  <2>6. flags \in SUBSET (CreationFlags \cup {"Recursive"})
    BY <2>1 DEF CreationFlags
  <2>7. call \in Calls /\ call.pc = op /\ call.obj = o /\ call.path = path
    BY <2>1, <2>2, <2>5, <2>6 DEF Calls, Idle, Kinds
  <2>8. call.pc # "idle" /\ call.path \in Paths /\ call.pc \notin Constructors
    BY <2>1, <2>5, <2>7
  <2>9. b.kind = "dir"
    BY <1>3, <2>3
  <2> QED
    BY <1>7, <2>3, <2>4, <2>7, <2>8, <2>9
<1> QED
  BY <1>5, <1>6

\* All that begins.
LEMMA BeginsKeep ==
  ASSUME TablesInv, ObjectsInv, NEW t \in Threads, Begin(t)
  PROVE  TablesInv' /\ ObjectsInv' /\ mtx' = mtx
<1>1. UNCHANGED tables /\ mtx' = mtx
  BY DEF Begin, Open, Call, DirCall
<1>2. TablesInv' /\ Later
  BY <1>1, SameTables
<1>3. PICK o \in Objects :
        \/ \E kind \in Kinds, path \in Paths, flags \in OpenFlags :
             Open(t, o, kind, path, flags)
        \/ \E op \in OwnCalls("entry") \cup OwnCalls("dir") : Call(t, o, op)
        \/ \E path \in Paths :
             \/ \E flags \in SUBSET {"Recursive"} : DirCall(t, o, "exists_entry", path, flags)
             \/ \E flags \in SUBSET {"CreateParents"} : DirCall(t, o, "make_exists", path, flags)
             \/ DirCall(t, o, "change_dir", path, {})
  BY DEF Begin
<1>4. CASE \E kind \in Kinds, path \in Paths, flags \in OpenFlags :
             Open(t, o, kind, path, flags)
  BY <1>1, <1>2, <1>4, OpenKeeps
<1>5. CASE \E op \in OwnCalls("entry") \cup OwnCalls("dir") : Call(t, o, op)
  BY <1>1, <1>2, <1>5, CallsKeep
<1>6. ASSUME NEW path \in Paths,
             \/ \E flags \in SUBSET {"Recursive"} : DirCall(t, o, "exists_entry", path, flags)
             \/ \E flags \in SUBSET {"CreateParents"} : DirCall(t, o, "make_exists", path, flags)
             \/ DirCall(t, o, "change_dir", path, {})
      PROVE  ObjectsInv'
  <2>1. \E op \in {"exists_entry", "make_exists", "change_dir"},
           flags \in SUBSET {"Recursive", "CreateParents"} : DirCall(t, o, op, path, flags)
    <3>1. /\ SUBSET {"Recursive"} \subseteq SUBSET {"Recursive", "CreateParents"}
          /\ SUBSET {"CreateParents"} \subseteq SUBSET {"Recursive", "CreateParents"}
          /\ {} \in SUBSET {"Recursive", "CreateParents"}
      OBVIOUS
    <3> QED
      BY <1>6, <3>1, Zenon
  <2> QED
    BY <1>2, <2>1, CallsKeep
<1> QED
  BY <1>1, <1>2, <1>3, <1>4, <1>5, <1>6

----------------------------------------------------------------------------
(* The theorems. *)

\* The mutexes keep their type.
LEMMA MtxType ==
  ASSUME mtx \in [Objects -> Threads \cup {None}], NEW t \in Threads,
         mtx' = mtx \/ Keeps(t) \/ Leaves(t)
  PROVE  mtx' \in [Objects -> Threads \cup {None}]
BY DEF Keeps, Leaves

\* Every step of a call keeps the invariant.
LEMMA StepKeeps ==
  ASSUME AdvertInv, NEW t \in Threads, Step(t)
  PROVE  AdvertInv'
<1>1. TablesInv /\ ObjectsInv /\ mtx \in [Objects -> Threads \cup {None}]
  BY DEF AdvertInv, ObjectsInv
<1>2. mtx' = mtx \/ Keeps(t) \/ Leaves(t)
  BY DEF Step, InitExists, InitCreate, InitCreateBusy, InitOpen, Store, SetAttribute,
         RemoveAttribute, GetAttribute, Retrieve, List, Reads, Finish, Close, RemoveSelf,
         Busy, ExistsEntry, ExistsDirectory, RemoveOther, RemoveOtherBusy, MakeExists,
         MakeCreate, ChangeDir
<1>3. TablesInv' /\ ObjectsInv'
  <2>1. CASE InitExists(t) \/ InitCreateBusy(t) \/ InitOpen(t)
    <3>1. UNCHANGED tables
      BY <2>1 DEF InitExists, InitCreateBusy, InitOpen
    <3>2. TablesInv' /\ Later
      BY <1>1, <3>1, SameTables
    <3> QED
      BY <1>1, <2>1, <3>2, InitExistsKeeps, InitCreateBusyKeeps, InitOpenKeeps
  <2>2. CASE InitCreate(t)
    BY <1>1, <2>2, InitCreateKeeps
  <2>3. CASE Store(t)
    BY <1>1, <2>3, StoreKeeps
  <2>4. CASE SetAttribute(t)
    BY <1>1, <2>4, SetAttributeKeeps
  <2>5. CASE RemoveAttribute(t)
    BY <1>1, <2>5, RemoveAttributeKeeps
  <2>6. CASE GetAttribute(t) \/ Retrieve(t) \/ List(t)
    BY <1>1, <2>6, ReadsKeep DEF GetAttribute, Retrieve, List
  <2>7. CASE Close(t)
    BY <1>1, <2>7, CloseKeeps
  <2>8. CASE RemoveSelf(t)
    BY <1>1, <2>8, RemoveSelfKeeps
  <2>9. CASE Busy(t)
    BY <1>1, <2>9, BusyKeeps
  <2>10. CASE ExistsEntry(t) \/ ExistsDirectory(t)
    BY <1>1, <2>10, ExistsKeep
  <2>11. CASE RemoveOther(t) \/ RemoveOtherBusy(t)
    BY <1>1, <2>11, RemoveOtherKeeps
  <2>12. CASE MakeExists(t) \/ MakeCreate(t)
    BY <1>1, <2>12, MakeKeeps
  <2>13. CASE ChangeDir(t)
    BY <1>1, <2>13, ChangeDirKeeps
  <2> QED
    BY <2>1, <2>2, <2>3, <2>4, <2>5, <2>6, <2>7, <2>8, <2>9, <2>10, <2>11, <2>12, <2>13
       DEF Step
<1>4. mtx' \in [Objects -> Threads \cup {None}]
  BY <1>1, <1>2, MtxType
<1> QED
  BY <1>3, <1>4 DEF AdvertInv, ObjectsInv

\* The invariant holds at first: a data base with its root, and no instance.
LEMMA AdvertInit ==
  ASSUME Init, Root + 1 <= MaxNodes + 1
  PROVE  AdvertInv
<1> DEFINE row == [name |-> "__root__", parent |-> NoNode, dir |-> TRUE]
<1>1. /\ nodes = [id \in {Root} |-> row] /\ nextId = Root + 1 /\ data = {} /\ metadata = {}
      /\ objs = [o \in Objects |-> None] /\ mtx = [o \in Objects |-> None]
      /\ thr = [t \in Threads |-> Idle]
  BY DEF Init
<1>2. row \in Rows /\ row.parent = 0
  <2>0. NoNode \in Nat
    BY DEF NoNode
  <2>1. NoNode \in Nat /\ "__root__" \in STRING \cup {"__root__"} /\ TRUE \in BOOLEAN
    BY <2>0, Zenon
  <2>2. row \in Rows
    BY <2>1, Zenon DEF Rows
  <2>3. row.parent = NoNode
    BY Zenon
  <2> QED
    BY <2>2, <2>3 DEF NoNode
<1> HIDE DEF row
<1>3. DOMAIN nodes = {1} /\ nodes[1] = row /\ nextId = 2
  BY <1>1 DEF Root
<1>4. nodes \in Trees
  <2>1. nodes \in [{1} -> Rows] /\ {1} \in SUBSET (Nat \ {0})
    BY <1>1, <1>2 DEF Root
  <2> QED
    BY <2>1 DEF Trees
<1>5. GoodTree(nodes, nextId)
  BY <1>2, <1>3, <1>4 DEF GoodTree
<1>6. nextId \in (Root + 1)..(MaxNodes + 1)
  BY <1>3, AdvertAssumption DEF Root
<1>7. TablesInv
  BY <1>1, <1>5, <1>6 DEF TablesInv
<1>8. /\ objs \in [Objects -> {None} \cup Instances]
      /\ mtx \in [Objects -> Threads \cup {None}]
      /\ thr \in [Threads -> Calls]
  BY <1>1, IdleType
<1>9. \A t \in Threads : CallInv(t)
  BY <1>1, IdleType DEF CallInv, Constructors
<1>10. \A o \in Objects : HandleInv(o)
  BY <1>1 DEF HandleInv
<1> QED
  BY <1>7, <1>8, <1>9, <1>10 DEF AdvertInv

\* The invariant is inductive.
LEMMA AdvertNext == AdvertInv /\ [Next]_vars => AdvertInv'
<1> SUFFICES ASSUME AdvertInv, [Next]_vars PROVE AdvertInv'
  OBVIOUS
<1>1. TablesInv /\ ObjectsInv /\ mtx \in [Objects -> Threads \cup {None}]
  BY DEF AdvertInv, ObjectsInv
<1>2. ASSUME NEW t \in Threads, Begin(t) PROVE AdvertInv'
  BY <1>1, <1>2, BeginsKeep DEF AdvertInv, ObjectsInv
<1>3. ASSUME NEW t \in Threads, Step(t) PROVE AdvertInv'
  BY <1>3, StepKeeps
<1>4. ASSUME NEW o \in Objects, Drop(o) PROVE AdvertInv'
  <2>1. UNCHANGED tables /\ mtx' = mtx
    BY <1>4 DEF Drop
  <2>2. TablesInv' /\ Later
    BY <1>1, <2>1, SameTables
  <2>3. ObjectsInv'
    BY <1>1, <1>4, <2>2, DropKeeps
  <2> QED
    BY <1>1, <2>1, <2>2, <2>3 DEF AdvertInv, ObjectsInv
<1>5. CASE UNCHANGED vars
  BY <1>5 DEF vars, tables, AdvertInv, TablesInv, GoodTree, CallInv, HandleInv, OwnNode
<1> QED
  BY <1>2, <1>3, <1>4, <1>5 DEF Next

\* The invariant of the adaptor: the data base is a tree of unique names, and
\* an entry that is open has the id of its own node.
THEOREM AdvertInvariant == Spec => []AdvertInv
<1>1. Init => AdvertInv
  <2>1. Root + 1 <= MaxNodes + 1
    BY AdvertAssumption DEF Root
  <2> QED
    BY <2>1, AdvertInit
<1> QED
  BY <1>1, AdvertNext, PTL DEF Spec

\* The types of the tables, the instances and the calls.
THEOREM AdvertTypes == Spec => []TypeOK
<1>1. AdvertInv => TypeOK
  <2> SUFFICES ASSUME AdvertInv PROVE TypeOK
    OBVIOUS
  <2>1. TablesInv
    BY DEF AdvertInv
  <2>2. DOMAIN nodes \subseteq Ids /\ nodes \in [DOMAIN nodes -> Rows]
    BY <2>1, IdsAre
  <2>3. ASSUME NEW id \in DOMAIN nodes
        PROVE  nodes[id].parent \in 0..MaxNodes /\ nodes[id].dir \in BOOLEAN
    <3>1. nodes[id].parent \in Nat /\ nodes[id].dir \in BOOLEAN
      BY <2>2 DEF Rows
    <3>2. nodes[id].parent < nextId
      BY <2>1 DEF TablesInv, GoodTree
    <3>3. nodes[id].parent \in 0..MaxNodes
      BY <2>1, <3>1, <3>2, IdsAre
    <3> QED
      BY <3>1, <3>3
  <2>4. nextId \in (Root + 1)..(MaxNodes + 1) /\ data \subseteq Ids /\ metadata \subseteq Ids
    BY <2>1, <2>2 DEF TablesInv
  <2> QED
    BY <2>2, <2>3, <2>4 DEF AdvertInv, TypeOK, Instances, Calls
<1> QED
  BY <1>1, AdvertInvariant, PTL

\* An open entry never acts on a node that was created for another name.
THEOREM EntryHasItsNode == Spec => []HandleIsItsNode
<1>1. AdvertInv => HandleIsItsNode
  <2> SUFFICES ASSUME AdvertInv, NEW o \in Objects, objs[o] # None, objs[o].open,
                      objs[o].kind = "entry", Exists(objs[o].node)
               PROVE  nodes[objs[o].node].name = Last(objs[o].path) /\ ~nodes[objs[o].node].dir
    BY DEF HandleIsItsNode
  <2>1. objs[o].node # NoNode /\ OwnNode(objs[o])
    BY DEF AdvertInv, HandleInv
  <2> QED
    BY <2>1 DEF OwnNode, Exists
<1> QED
  BY <1>1, AdvertInvariant, PTL

\* What is stored belongs to a node, and names are unique.
THEOREM TablesBelongTogether == Spec => []TablesAgree
<1>1. AdvertInv => TablesAgree
  BY DEF AdvertInv, TablesInv, GoodTree, TablesAgree, Exists
<1> QED
  BY <1>1, AdvertInvariant, PTL

\* What any step does to the nodes: nothing, a creation or a removal.
LEMMA NodesMove ==
  ASSUME AdvertInv, Next
  PROVE  Later
<1>1. TablesInv /\ ObjectsInv
  BY DEF AdvertInv, ObjectsInv
<1>2. CASE nodes' = nodes /\ nextId' = nextId
  BY <1>1, <1>2, IdsAre DEF Later
<1>3. ASSUME NEW path \in Paths, NEW kind \in Kinds, NEW flags,
             Creatable(path, kind, flags), Create(path, kind)
      PROVE  Later
  BY <1>1, <1>3, CreateKeeps
<1>4. ASSUME NEW id, RemoveNode(id) PROVE Later
  BY <1>1, <1>4, RemoveKeeps
<1>5. ASSUME NEW t \in Threads, InitCreate(t) PROVE Later
  <2>1. thr[t].path \in Paths /\ thr[t].kind \in Kinds
    BY <1>1, <1>5, ConstructOn DEF InitCreate, At, Constructors
  <2>2. CASE Creatable(thr[t].path, thr[t].kind, thr[t].flags)
    BY <1>3, <1>5, <2>1, <2>2 DEF InitCreate
  <2>3. CASE ~Creatable(thr[t].path, thr[t].kind, thr[t].flags)
    BY <1>2, <1>5, <2>3 DEF InitCreate, tables
  <2> QED
    BY <2>2, <2>3
<1>6. ASSUME NEW t \in Threads, MakeCreate(t) PROVE Later
  <2>1. thr[t].path \in Paths /\ "dir" \in Kinds
    BY <1>1, <1>6, WorkOn DEF MakeCreate, At, Kinds
  <2>2. CASE Creatable(thr[t].path, "dir", thr[t].flags)
    BY <1>3, <1>6, <2>1, <2>2 DEF MakeCreate
  <2>3. CASE ~Creatable(thr[t].path, "dir", thr[t].flags)
    BY <1>2, <1>6, <2>3 DEF MakeCreate, tables
  <2> QED
    BY <2>2, <2>3
<1>7. ASSUME NEW t \in Threads, RemoveSelf(t) \/ RemoveOther(t) PROVE Later
  <2>1. (\E id \in {Id(t), OtherId(t)} : RemoveNode(id)) \/ UNCHANGED tables
    BY <1>7 DEF RemoveSelf, RemoveOther
  <2> QED
    BY <1>2, <1>4, <2>1 DEF tables
<1>8. ASSUME NEW t \in Threads, Step(t),
             ~InitCreate(t), ~MakeCreate(t), ~RemoveSelf(t), ~RemoveOther(t)
      PROVE  Later
  <2>1. nodes' = nodes /\ nextId' = nextId
    BY <1>8 DEF Step, InitExists, InitCreateBusy, InitOpen, Store, SetAttribute,
                RemoveAttribute, GetAttribute, Retrieve, List, Reads, Close, Busy,
                ExistsEntry, ExistsDirectory, RemoveOtherBusy, MakeExists, ChangeDir, tables
  <2> QED
    BY <1>2, <2>1
<1>9. ASSUME NEW t \in Threads, Begin(t) PROVE Later
  BY <1>2, <1>9 DEF Begin, Open, Call, DirCall, tables
<1>10. ASSUME NEW o \in Objects, Drop(o) PROVE Later
  BY <1>2, <1>10 DEF Drop, tables
<1> QED
  BY <1>5, <1>6, <1>7, <1>8, <1>9, <1>10 DEF Next

\* However many clients create and remove, an id belongs to one node for good:
\* a node is never renamed nor moved below another parent, and the id of a node
\* that was removed is not given to a new one.  An id that an instance has cached
\* is thus either that of the node it was read from or of none.
THEOREM IdsKeepTheirNode == Spec => [][Later]_vars
<1>1. AdvertInv /\ [Next]_vars => [Later]_vars
  BY NodesMove
<1> QED
  BY <1>1, AdvertInvariant, PTL DEF Spec
=============================================================================
