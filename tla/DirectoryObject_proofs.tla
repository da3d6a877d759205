----------------------- MODULE DirectoryObject_proofs -----------------------
(***************************************************************************)
(* Proofs about DirectoryObject, for any threads, names, trees and calls.  *)
(***************************************************************************)
EXTENDS DirectoryObject, SequenceTheorems, WellFoundedInduction, TLAPS

-----------------------------------------------------------------------------
(* Paths.                                                                   *)

\* Paths are the sequences of names that are not too long.
LEMMA PathsAre == Paths = {p \in Seq(Names) : Len(p) <= MaxDepth}
<1>1. MaxDepth \in Nat
  BY DirectoryAssumption
<1>2. ASSUME NEW p \in Paths PROVE p \in Seq(Names) /\ Len(p) <= MaxDepth
  <2>1. PICK n \in 0..MaxDepth : p \in [1..n -> Names]
    BY DEF Paths
  <2>2. p \in Seq(Names)
    BY <1>1, <2>1, SeqDef
  <2>3. Len(p) = n
    BY <1>1, <2>1, <2>2, LenProperties
  <2> QED
    BY <1>1, <2>1, <2>2, <2>3
<1>3. ASSUME NEW p \in Seq(Names), Len(p) <= MaxDepth PROVE p \in Paths
  <2>1. Len(p) \in 0..MaxDepth /\ p \in [1..Len(p) -> Names]
    BY <1>1, <1>3, LenProperties
  <2> QED
    BY <2>1 DEF Paths
<1> QED
  BY <1>2, <1>3

\* A prefix, name by name.
LEMMA PrefixPointwise ==
  ASSUME NEW p \in Seq(Names), NEW q \in Seq(Names)
  PROVE  IsPrefix(p, q) <=> Len(p) <= Len(q) /\ \A i \in 1..Len(p) : p[i] = q[i]
<1>1. Len(p) \in Nat /\ Len(q) \in Nat
  BY LenProperties
<1>2. SubSeq(p, 1, Len(p)) = p
  BY SubSeqFull
<1>3. ASSUME Len(p) <= Len(q)
      PROVE  /\ SubSeq(q, 1, Len(p)) \in Seq(Names)
             /\ Len(SubSeq(q, 1, Len(p))) = Len(p)
             /\ \A i \in 1..Len(p) : SubSeq(q, 1, Len(p))[i] = q[i]
  <2>1. \A i \in 1..Len(p) : q[i] \in Names
    BY <1>1, <1>3, ElementOfSeq
  <2>2. /\ SubSeq(q, 1, Len(p)) \in Seq(Names)
        /\ Len(SubSeq(q, 1, Len(p))) = IF 1 <= Len(p) THEN Len(p) - 1 + 1 ELSE 0
        /\ \A i \in 1..(Len(p) - 1 + 1) : SubSeq(q, 1, Len(p))[i] = q[1 + i - 1]
    BY <1>1, <2>1, SubSeqProperties
  <2> QED
    BY <1>1, <2>2
<1>4. ASSUME Len(p) <= Len(q), \A i \in 1..Len(p) : p[i] = q[i]
      PROVE  SubSeq(q, 1, Len(p)) = p
  BY <1>1, <1>3, <1>4, SeqEqual
<1>5. ASSUME Len(p) <= Len(q), SubSeq(q, 1, Len(p)) = p PROVE \A i \in 1..Len(p) : p[i] = q[i]
  BY <1>3, <1>5
<1> QED
  BY <1>2, <1>4, <1>5 DEF IsPrefix

\* The beginning of a path of a given length.
LEMMA Beginning ==
  ASSUME NEW p \in Seq(Names), NEW n \in 0..Len(p)
  PROVE  /\ SubSeq(p, 1, n) \in Seq(Names)
         /\ Len(SubSeq(p, 1, n)) = n
         /\ \A i \in 1..n : SubSeq(p, 1, n)[i] = p[i]
<1>1. Len(p) \in Nat /\ n \in Nat
  BY LenProperties
<1>2. \A i \in 1..n : p[i] \in Names
  BY <1>1, ElementOfSeq
<1>3. /\ SubSeq(p, 1, n) \in Seq(Names)
      /\ Len(SubSeq(p, 1, n)) = IF 1 <= n THEN n - 1 + 1 ELSE 0
      /\ \A i \in 1..(n - 1 + 1) : SubSeq(p, 1, n)[i] = p[1 + i - 1]
  BY <1>1, <1>2, SubSeqProperties
<1> QED
  BY <1>1, <1>3

\* The directory of an entry.
LEMMA FrontIs ==
  ASSUME NEW p \in Seq(Names), p # <<>>
  PROVE  /\ Len(p) \in Nat \ {0}
         /\ Front(p) \in Seq(Names) /\ Len(Front(p)) = Len(p) - 1
         /\ \A i \in 1..(Len(p) - 1) : Front(p)[i] = p[i]
         /\ Last(p) \in Names
<1>1. Len(p) \in Nat \ {0}
  BY EmptySeq
<1>2. Last(p) \in Names
  BY <1>1, ElementOfSeq DEF Last
<1>3. Len(p) - 1 \in 0..Len(p)
  BY <1>1
<1>4. /\ SubSeq(p, 1, Len(p) - 1) \in Seq(Names)
      /\ Len(SubSeq(p, 1, Len(p) - 1)) = Len(p) - 1
      /\ \A i \in 1..(Len(p) - 1) : SubSeq(p, 1, Len(p) - 1)[i] = p[i]
  BY <1>3, Beginning
<1> QED
  BY <1>1, <1>2, <1>4 DEF Front

\* The empty sequence is the only one without elements.
LEMMA EmptyIs == ASSUME NEW p \in Seq(Names) PROVE p = <<>> <=> Len(p) = 0
  BY EmptySeq

\* Prefixes as an order.
LEMMA PrefixOrder ==
  ASSUME NEW p \in Seq(Names), NEW q \in Seq(Names), NEW r \in Seq(Names)
  PROVE  /\ IsPrefix(p, p) /\ IsPrefix(<<>>, p)
         /\ IsPrefix(p, q) /\ IsPrefix(q, r) => IsPrefix(p, r)
         /\ IsPrefix(p, q) /\ IsPrefix(q, p) => p = q
         /\ IsPrefix(p, <<>>) => p = <<>>
         /\ IsPrefix(p, q) /\ Len(p) = Len(q) => p = q
<1>1. Len(p) \in Nat /\ Len(q) \in Nat /\ Len(r) \in Nat
  BY LenProperties
<1>2. <<>> \in Seq(Names) /\ Len(<<>>) = 0
  BY EmptySeq
<1>3. IsPrefix(p, p)
  BY <1>1, PrefixPointwise
<1>4. IsPrefix(<<>>, p)
  <2>1. SubSeq(<<>>, 1, 0) = <<>> /\ SubSeq(p, 1, 0) = <<>>
    BY SubSeqEmpty
  <2> QED
    BY <1>1, <1>2, <2>1 DEF IsPrefix
<1>5. IsPrefix(p, q) /\ IsPrefix(q, r) => IsPrefix(p, r)
  BY <1>1, PrefixPointwise
<1>6. IsPrefix(p, q) /\ Len(p) = Len(q) => p = q
  BY <1>1, SeqEqual, PrefixPointwise
<1>7. IsPrefix(p, q) /\ IsPrefix(q, p) => p = q
  BY <1>1, <1>6, PrefixPointwise
<1>8. IsPrefix(p, <<>>) => p = <<>>
  <2>1. IsPrefix(p, <<>>) => Len(p) <= 0
    BY <1>2 DEF IsPrefix
  <2> QED
    BY <1>1, <2>1, EmptyIs
<1> QED
  BY <1>3, <1>4, <1>5, <1>6, <1>7, <1>8

\* What is a prefix of an entry other than the entry is one of its directory.
LEMMA PrefixOfFront ==
  ASSUME NEW p \in Seq(Names), NEW q \in Seq(Names), q # <<>>
  PROVE  /\ IsPrefix(Front(q), q) /\ Front(q) # q
         /\ IsPrefix(p, q) /\ p # q => IsPrefix(p, Front(q))
         /\ IsPrefix(p, Front(q)) => IsPrefix(p, q) /\ p # q
<1>1. /\ Len(q) \in Nat \ {0} /\ Front(q) \in Seq(Names) /\ Len(Front(q)) = Len(q) - 1
      /\ \A i \in 1..(Len(q) - 1) : Front(q)[i] = q[i]
  BY FrontIs
<1>2. Len(p) \in Nat
  BY LenProperties
<1>3. IsPrefix(Front(q), q) /\ Front(q) # q
  <2>1. Len(Front(q)) <= Len(q) /\ \A i \in 1..Len(Front(q)) : Front(q)[i] = q[i]
    BY <1>1
  <2>2. IsPrefix(Front(q), q)
    BY <1>1, <2>1, PrefixPointwise
  <2>3. Front(q) # q
    BY <1>1
  <2> QED
    BY <2>2, <2>3
<1>4. ASSUME IsPrefix(p, q), p # q PROVE IsPrefix(p, Front(q))
  <2>1. Len(p) <= Len(q) - 1
    BY <1>1, <1>2, <1>4, PrefixOrder, PrefixPointwise
  <2> QED
    BY <1>1, <1>2, <1>4, <2>1, PrefixPointwise
<1>5. ASSUME IsPrefix(p, Front(q)) PROVE IsPrefix(p, q) /\ p # q
  <2>1. IsPrefix(p, q)
    BY <1>1, <1>3, <1>5, PrefixOrder
  <2>2. Len(p) <= Len(q) - 1
    BY <1>1, <1>5, PrefixPointwise
  <2> QED
    BY <1>1, <2>1, <2>2
<1> QED
  BY <1>3, <1>4, <1>5

\* An entry of a directory.
LEMMA AppendIs ==
  ASSUME NEW p \in Seq(Names), NEW n \in Names
  PROVE  /\ Append(p, n) \in Seq(Names) /\ Append(p, n) # <<>>
         /\ Front(Append(p, n)) = p
         /\ IsPrefix(p, Append(p, n)) /\ p # Append(p, n)
<1>1. /\ Append(p, n) \in Seq(Names) /\ Append(p, n) # <<>>
      /\ Len(Append(p, n)) = Len(p) + 1
      /\ \A i \in 1..Len(p) : Append(p, n)[i] = p[i]
  BY AppendProperties
<1>2. Len(p) \in Nat
  BY LenProperties
<1>3. /\ Front(Append(p, n)) \in Seq(Names)
      /\ Len(Front(Append(p, n))) = Len(p)
      /\ \A i \in 1..Len(p) : Front(Append(p, n))[i] = p[i]
  <2> DEFINE a == Append(p, n)
  <2>1. /\ Front(a) \in Seq(Names) /\ Len(Front(a)) = Len(a) - 1
        /\ \A i \in 1..(Len(a) - 1) : Front(a)[i] = a[i]
    BY <1>1, FrontIs
  <2>2. Len(a) - 1 = Len(p)
    BY <1>1, <1>2
  <2> QED
    BY <1>1, <2>1, <2>2
<1>4. Front(Append(p, n)) = p
  BY <1>3, SeqEqual
<1>5. IsPrefix(p, Append(p, n))
  <2>1. Len(p) <= Len(Append(p, n)) /\ \A i \in 1..Len(p) : p[i] = Append(p, n)[i]
    BY <1>1, <1>2
  <2> QED
    BY <1>1, <2>1, PrefixPointwise
<1> QED
  BY <1>1, <1>2, <1>4, <1>5

\* An entry is its name in its directory.
LEMMA FrontLast ==
  ASSUME NEW p \in Seq(Names), p # <<>>
  PROVE  p = Append(Front(p), Last(p))
<1>1. /\ Len(p) \in Nat \ {0} /\ Front(p) \in Seq(Names) /\ Len(Front(p)) = Len(p) - 1
      /\ \A i \in 1..(Len(p) - 1) : Front(p)[i] = p[i]
      /\ Last(p) \in Names
  BY FrontIs
<1> DEFINE a == Append(Front(p), Last(p))
<1>2. /\ a \in Seq(Names) /\ Len(a) = Len(Front(p)) + 1
      /\ \A i \in 1..Len(Front(p)) : a[i] = Front(p)[i]
      /\ a[Len(Front(p)) + 1] = Last(p)
  BY <1>1, AppendProperties
<1>3. Len(a) = Len(p)
  BY <1>1, <1>2
<1>4. \A i \in 1..Len(p) : a[i] = p[i]
  <2>1. a[Len(p)] = p[Len(p)]
    BY <1>1, <1>2 DEF Last
  <2>2. \A i \in 1..(Len(p) - 1) : a[i] = p[i]
    BY <1>1, <1>2
  <2> QED
    BY <1>1, <2>1, <2>2
<1> QED
  BY <1>2, <1>3, <1>4, SeqEqual

\* What is left of a path q below p.
LEMMA TailIs ==
  ASSUME NEW p \in Seq(Names), NEW q \in Seq(Names), Len(p) <= Len(q)
  PROVE  /\ Tail2(p, q) \in Seq(Names) /\ Len(Tail2(p, q)) = Len(q) - Len(p)
         /\ \A i \in 1..(Len(q) - Len(p)) : Tail2(p, q)[i] = q[Len(p) + i]
<1>1. Len(p) \in Nat /\ Len(q) \in Nat
  BY LenProperties
<1>2. \A i \in (Len(p) + 1)..Len(q) : q[i] \in Names
  BY <1>1, ElementOfSeq
<1> DEFINE s == SubSeq(q, Len(p) + 1, Len(q))
<1>3. /\ s \in Seq(Names)
      /\ Len(s) = IF Len(p) + 1 <= Len(q) THEN Len(q) - (Len(p) + 1) + 1 ELSE 0
      /\ \A i \in 1..(Len(q) - (Len(p) + 1) + 1) : s[i] = q[Len(p) + 1 + i - 1]
  BY <1>1, <1>2, SubSeqProperties
<1>4. Len(s) = Len(q) - Len(p)
  BY <1>1, <1>3
<1>5. \A i \in 1..(Len(q) - Len(p)) : s[i] = q[Len(p) + i]
  BY <1>1, <1>3
<1> QED
  BY <1>3, <1>4, <1>5 DEF Tail2

\* Where q is when its ancestor p is moved to another place, name by name.
LEMMA MovedIs ==
  ASSUME NEW p \in Seq(Names), NEW q \in Seq(Names), NEW to \in Seq(Names), IsPrefix(p, q)
  PROVE  LET r == to \o Tail2(p, q) IN
         /\ r \in Seq(Names) /\ Len(r) = Len(to) + Len(q) - Len(p)
         /\ \A i \in 1..Len(to) : r[i] = to[i]
         /\ \A i \in 1..(Len(q) - Len(p)) : r[Len(to) + i] = q[Len(p) + i]
<1>1. Len(p) \in Nat /\ Len(q) \in Nat /\ Len(to) \in Nat /\ Len(p) <= Len(q)
  BY LenProperties, PrefixPointwise
<1> DEFINE s == Tail2(p, q)
           r == to \o s
<1>2. /\ s \in Seq(Names) /\ Len(s) = Len(q) - Len(p)
      /\ \A i \in 1..(Len(q) - Len(p)) : s[i] = q[Len(p) + i]
  BY <1>1, TailIs
<1> HIDE DEF s
<1>3. /\ r \in Seq(Names) /\ Len(r) = Len(to) + Len(s)
      /\ \A i \in 1..(Len(to) + Len(s)) : r[i] = IF i <= Len(to) THEN to[i] ELSE s[i - Len(to)]
  BY <1>2, ConcatProperties
<1> HIDE DEF r
<1>4. ASSUME NEW i \in 1..Len(to) PROVE r[i] = to[i]
  <2>1. i \in 1..(Len(to) + Len(s)) /\ i <= Len(to)
    BY <1>1, <1>2
  <2> QED
    BY <1>3, <2>1
<1>5. ASSUME NEW i \in 1..(Len(q) - Len(p)) PROVE r[Len(to) + i] = q[Len(p) + i]
  <2>1. r[Len(to) + i] = s[Len(to) + i - Len(to)]
    <3>1. Len(to) + i \in 1..(Len(to) + Len(s)) /\ ~(Len(to) + i <= Len(to))
      BY <1>1, <1>2
    <3> QED
      BY <1>3, <3>1
  <2>2. Len(to) + i - Len(to) = i
    BY <1>1
  <2> QED
    BY <1>2, <2>1, <2>2
<1>6. Len(r) = Len(to) + Len(q) - Len(p)
  BY <1>1, <1>2, <1>3
<1> QED
  BY <1>3, <1>4, <1>5, <1>6 DEF r, s

\* What is moved there and back again is where it was.
LEMMA MoveBack ==
  ASSUME NEW p \in Seq(Names), NEW q \in Seq(Names), NEW to \in Seq(Names), IsPrefix(p, q)
  PROVE  LET r == to \o Tail2(p, q) IN IsPrefix(to, r) /\ p \o Tail2(to, r) = q
<1> DEFINE r == to \o Tail2(p, q)
           s == p \o Tail2(to, r)
<1>1. /\ r \in Seq(Names) /\ Len(r) = Len(to) + Len(q) - Len(p)
      /\ \A i \in 1..Len(to) : r[i] = to[i]
      /\ \A i \in 1..(Len(q) - Len(p)) : r[Len(to) + i] = q[Len(p) + i]
  BY MovedIs
<1> HIDE DEF r
<1>2. /\ Len(p) \in Nat /\ Len(q) \in Nat /\ Len(to) \in Nat /\ Len(p) <= Len(q)
      /\ \A i \in 1..Len(p) : p[i] = q[i]
  BY LenProperties, PrefixPointwise
<1>3. IsPrefix(to, r)
  <2>1. Len(to) <= Len(r) /\ \A i \in 1..Len(to) : to[i] = r[i]
    BY <1>1, <1>2
  <2> QED
    BY <1>1, <2>1, PrefixPointwise
<1>4. /\ s \in Seq(Names) /\ Len(s) = Len(p) + Len(r) - Len(to)
      /\ \A i \in 1..Len(p) : s[i] = p[i]
      /\ \A i \in 1..(Len(r) - Len(to)) : s[Len(p) + i] = r[Len(to) + i]
  BY <1>1, <1>3, MovedIs
<1> HIDE DEF s
<1>5. Len(r) - Len(to) = Len(q) - Len(p) /\ Len(s) = Len(q)
  BY <1>1, <1>2, <1>4
<1>6. ASSUME NEW i \in 1..Len(q) PROVE s[i] = q[i]
  <2>1. CASE i <= Len(p)
    BY <1>2, <1>4, <2>1
  <2>2. CASE ~(i <= Len(p))
    <3> DEFINE k == i - Len(p)
    <3>1. k \in 1..(Len(q) - Len(p)) /\ i = Len(p) + k
      BY <1>2, <2>2
    <3> HIDE DEF k
    <3> QED
      BY <1>1, <1>4, <1>5, <3>1
  <2> QED
    BY <2>1, <2>2
<1>7. s = q
  BY <1>4, <1>5, <1>6, SeqEqual
<1> QED
  BY <1>3, <1>7 DEF r, s

\* The directory of what was moved was moved along.
LEMMA MovedFront ==
  ASSUME NEW p \in Seq(Names), NEW q \in Seq(Names), NEW to \in Seq(Names),
         IsPrefix(p, q), p # q
  PROVE  LET r == to \o Tail2(p, q) IN
         /\ r # <<>> /\ r # to /\ q # <<>> /\ IsPrefix(p, Front(q))
         /\ Front(r) = to \o Tail2(p, Front(q))
<1> DEFINE r == to \o Tail2(p, q)
           f == to \o Tail2(p, Front(q))
<1>1. /\ r \in Seq(Names) /\ Len(r) = Len(to) + Len(q) - Len(p)
      /\ \A i \in 1..Len(to) : r[i] = to[i]
      /\ \A i \in 1..(Len(q) - Len(p)) : r[Len(to) + i] = q[Len(p) + i]
  BY MovedIs
<1> HIDE DEF r
<1>2. /\ Len(p) \in Nat /\ Len(q) \in Nat /\ Len(to) \in Nat
      /\ Len(p) <= Len(q) /\ Len(p) # Len(q)
  BY LenProperties, PrefixPointwise, PrefixOrder
<1>3. q # <<>> /\ r # <<>> /\ r # to
  <2>1. Len(q) # 0 /\ Len(r) # 0 /\ Len(r) # Len(to)
    BY <1>1, <1>2
  <2> QED
    BY <1>1, <2>1, EmptyIs
<1>4. /\ Front(q) \in Seq(Names) /\ Len(Front(q)) = Len(q) - 1 /\ IsPrefix(p, Front(q))
      /\ \A i \in 1..(Len(q) - 1) : Front(q)[i] = q[i]
  BY <1>3, FrontIs, PrefixOfFront
<1>5. /\ Front(r) \in Seq(Names) /\ Len(Front(r)) = Len(r) - 1
      /\ \A i \in 1..(Len(r) - 1) : Front(r)[i] = r[i]
  BY <1>1, <1>3, FrontIs
<1>6. /\ f \in Seq(Names) /\ Len(f) = Len(to) + Len(Front(q)) - Len(p)
      /\ \A i \in 1..Len(to) : f[i] = to[i]
      /\ \A i \in 1..(Len(Front(q)) - Len(p)) : f[Len(to) + i] = Front(q)[Len(p) + i]
  BY <1>4, MovedIs
<1> HIDE DEF f
<1>7. Len(f) = Len(r) - 1 /\ Len(r) - 1 >= Len(to)
  BY <1>1, <1>2, <1>4, <1>6
<1>8. ASSUME NEW i \in 1..Len(f) PROVE f[i] = Front(r)[i]
  <2>1. Front(r)[i] = r[i]
    BY <1>5, <1>7
  <2>2. CASE i <= Len(to)
    BY <1>1, <1>2, <1>6, <2>1, <2>2
  <2>3. CASE ~(i <= Len(to))
    <3> DEFINE k == i - Len(to)
    <3>1. /\ k \in 1..(Len(Front(q)) - Len(p)) /\ k \in 1..(Len(q) - Len(p))
          /\ i = Len(to) + k /\ Len(p) + k \in 1..(Len(q) - 1)
      BY <1>1, <1>2, <1>4, <1>6, <2>3
    <3> HIDE DEF k
    <3>2. f[i] = Front(q)[Len(p) + k]
      BY <1>6, <3>1
    <3>3. r[i] = q[Len(p) + k]
      BY <1>1, <3>1
    <3> QED
      BY <1>4, <2>1, <3>1, <3>2, <3>3
  <2> QED
    BY <2>2, <2>3
<1>9. Front(r) = f
  BY <1>5, <1>6, <1>7, <1>8, SeqEqual
<1> QED
  BY <1>3, <1>4, <1>9 DEF r, f

-----------------------------------------------------------------------------
(* Trees.                                                                   *)

\* Induction over the naturals, for a set of them.
LEMMA SetInduction ==
  ASSUME NEW T \in SUBSET Nat, 0 \in T, \A n \in T : n + 1 \in T
  PROVE  \A n \in Nat : n \in T
<1> DEFINE B == Nat \ T
           R == OpToRel(<, Nat)
<1>1. SUFFICES ASSUME B # {} PROVE FALSE
  OBVIOUS
<1>2. IsWellFoundedOn(R, Nat)
  BY NatLessThanWellFounded
<1> HIDE DEF R
<1>3. PICK x \in B : \A y \in B : ~(<<y, x>> \in R)
  BY <1>1, <1>2, WFMin
<1>4. \A y \in B : ~(y < x)
  BY <1>3 DEF OpToRel, R
<1>5. x - 1 \in Nat /\ x - 1 < x
  OBVIOUS
<1> QED
  BY <1>4, <1>5

\* The ancestors of an entry are directories, and none of them is empty.
LEMMA Ancestors ==
  ASSUME NEW b, FileSystem(b), NEW p \in DOMAIN b, NEW q \in Seq(Names),
         IsPrefix(q, p), q # p
  PROVE  q \in DOMAIN b /\ b[q] = Dir /\ \E n \in Names : Append(q, n) \in DOMAIN b
<1> DEFINE Holds(r) == r \in DOMAIN b /\ b[r] = Dir /\ \E n \in Names : Append(r, n) \in DOMAIN b
           T == {k \in Nat : \A e \in DOMAIN b : \A r \in Seq(Names) :
                   Len(e) <= k /\ IsPrefix(r, e) /\ r # e => Holds(r)}
<1>1. \A e \in DOMAIN b : e \in Seq(Names) /\ Len(e) \in Nat
  BY PathsAre, LenProperties DEF FileSystem
<1>2. 0 \in T
  <2>1. ASSUME NEW e \in DOMAIN b, NEW r \in Seq(Names), Len(e) <= 0, IsPrefix(r, e), r # e
        PROVE  FALSE
    <3>1. e = <<>>
      BY <1>1, <2>1, EmptyIs
    <3> QED
      BY <1>1, <2>1, <3>1, PrefixOrder
  <2> QED
    BY <2>1
<1>3. ASSUME NEW k \in T PROVE k + 1 \in T
  <2>1. SUFFICES ASSUME NEW e \in DOMAIN b, NEW r \in Seq(Names),
                        Len(e) <= k + 1, IsPrefix(r, e), r # e
                 PROVE  Holds(r)
    BY <1>3
  <2>2. e \in Seq(Names) /\ Len(e) \in Nat
    BY <1>1
  <2>3. e # <<>>
    BY <2>1, <2>2, PrefixOrder
  <2>4. /\ Front(e) \in DOMAIN b /\ b[Front(e)] = Dir
        /\ Front(e) \in Seq(Names) /\ Len(Front(e)) <= k
        /\ e = Append(Front(e), Last(e)) /\ Last(e) \in Names
    <3>1. Front(e) \in DOMAIN b /\ b[Front(e)] = Dir
      BY <2>3 DEF FileSystem
    <3>2. Front(e) \in Seq(Names) /\ Len(Front(e)) = Len(e) - 1 /\ Last(e) \in Names
      BY <2>2, <2>3, FrontIs
    <3>3. Len(Front(e)) <= k
      BY <1>3, <2>1, <2>2, <3>2
    <3> QED
      BY <2>2, <2>3, <3>1, <3>2, <3>3, FrontLast
  <2>5. CASE r = Front(e)
    BY <2>4, <2>5
  <2>6. CASE r # Front(e)
    <3>1. IsPrefix(r, Front(e))
      BY <2>1, <2>2, <2>3, PrefixOfFront
    <3> QED
      BY <1>3, <2>4, <2>6, <3>1
  <2> QED
    BY <2>5, <2>6
<1>4. Len(p) \in Nat /\ Len(p) <= Len(p)
  BY <1>1
<1> HIDE DEF Holds
<1>5. Len(p) \in T
  <2>1. T \in SUBSET Nat
    OBVIOUS
  <2> HIDE DEF T
  <2> QED
    BY <1>2, <1>3, <1>4, <2>1, SetInduction
<1>6. Holds(q)
  BY <1>4, <1>5
<1> QED
  BY <1>6 DEF Holds

\* What a file system is made of.
LEMMA TreeIs ==
  ASSUME FileSystem(tree)
  PROVE  /\ \A p \in DOMAIN tree : p \in Seq(Names) /\ Len(p) <= MaxDepth /\ tree[p] \in Contents \cup {Dir}
         /\ <<>> \in DOMAIN tree /\ tree[<<>>] = Dir
         /\ \A p \in DOMAIN tree : p # <<>> => Front(p) \in DOMAIN tree /\ tree[Front(p)] = Dir
  BY PathsAre DEF FileSystem

\* Nothing is below a file or a directory without entries.
LEMMA NothingBelow ==
  ASSUME FileSystem(tree), NEW p \in Seq(Names), Removable(p), Exists(p),
         NEW q \in DOMAIN tree, IsPrefix(p, q)
  PROVE  q = p
<1>1. SUFFICES ASSUME p # q PROVE FALSE
  OBVIOUS
<1>2. tree[p] = Dir /\ \E n \in Names : Append(p, n) \in DOMAIN tree
  BY <1>1, Ancestors
<1> QED
  BY <1>2 DEF Removable, Children, IsDir, Exists

\* A new entry in a directory.
LEMMA PutKeeps ==
  ASSUME FileSystem(tree), NEW p \in Seq(Names), Room(p), ~Exists(p),
         NEW what \in Contents \cup {Dir}
  PROVE  FileSystem(Put(p, what))
<1> DEFINE b == Put(p, what)
<1>1. /\ DOMAIN b = DOMAIN tree \cup {p}
      /\ \A q \in DOMAIN tree : b[q] = tree[q]
      /\ b[p] = what
      /\ b \in [DOMAIN b -> Contents \cup {Dir}]
  BY TreeIs DEF Put, Exists
<1> HIDE DEF b
<1>2. p \in Paths
  BY PathsAre DEF Room, Fits
<1>3. p # <<>> /\ Front(p) \in DOMAIN tree /\ tree[Front(p)] = Dir
  BY TreeIs DEF Room, IsDir, Exists, Parent
<1>4. FileSystem(b)
  <2>1. DOMAIN b \subseteq Paths
    BY <1>1, <1>2 DEF FileSystem
  <2>2. <<>> \in DOMAIN b /\ b[<<>>] = Dir
    BY <1>1, TreeIs
  <2>3. \A q \in DOMAIN b \ {<<>>} : Front(q) \in DOMAIN b /\ b[Front(q)] = Dir
    BY <1>1, <1>3, TreeIs
  <2> QED
    BY <1>1, <2>1, <2>2, <2>3 DEF FileSystem
<1> QED
  BY <1>4 DEF b

\* A subtree less.
LEMMA WithoutBelowKeeps ==
  ASSUME FileSystem(tree), NEW p \in Seq(Names), p # <<>>
  PROVE  FileSystem(Without(Below(p)))
<1> DEFINE b == Without(Below(p))
<1>1. /\ DOMAIN b = DOMAIN tree \ Below(p)
      /\ \A q \in DOMAIN b : b[q] = tree[q]
      /\ b \in [DOMAIN b -> Contents \cup {Dir}]
  BY TreeIs DEF Without
<1> HIDE DEF b
<1>2. <<>> \notin Below(p)
  BY PrefixOrder DEF Below
<1>3. ASSUME NEW q \in DOMAIN b, q # <<>> PROVE Front(q) \in DOMAIN b /\ b[Front(q)] = Dir
  <2>1. q \in Seq(Names) /\ Front(q) \in DOMAIN tree /\ tree[Front(q)] = Dir
    BY <1>1, <1>3, TreeIs
  <2>2. Front(q) \notin Below(p)
    BY <1>1, <1>3, <2>1, PrefixOfFront DEF Below
  <2> QED
    BY <1>1, <2>1, <2>2
<1>4. FileSystem(b)
  BY <1>1, <1>2, <1>3, TreeIs DEF FileSystem
<1> QED
  BY <1>4 DEF b

\* All the directories on the way to a path.
LEMMA WithParentsKeeps ==
  ASSUME FileSystem(tree), NEW p \in Seq(Names), Creatable(p)
  PROVE  FileSystem(WithParents(p))
<1> DEFINE b == WithParents(p)
           way == {r \in Paths : IsPrefix(r, p)}
<1>1. /\ DOMAIN b = DOMAIN tree \cup way
      /\ \A q \in DOMAIN tree : b[q] = tree[q]
      /\ \A q \in way : q \notin DOMAIN tree => b[q] = Dir
      /\ b \in [DOMAIN b -> Contents \cup {Dir}]
  BY TreeIs DEF WithParents, Exists
<1>2. \A q \in way : b[q] = Dir
  BY <1>1 DEF Creatable, IsFile, Exists
<1> HIDE DEF b
<1>3. ASSUME NEW q \in way, q # <<>> PROVE Front(q) \in way
  <2>1. q \in Seq(Names) /\ Len(q) <= MaxDepth /\ IsPrefix(q, p)
    BY PathsAre
  <2>2. Front(q) \in Seq(Names) /\ Len(Front(q)) = Len(q) - 1 /\ Len(q) \in Nat
    BY <1>3, <2>1, FrontIs
  <2>3. Len(Front(q)) <= MaxDepth
    BY <2>1, <2>2, DirectoryAssumption
  <2>4. IsPrefix(Front(q), q)
    BY <1>3, <2>1, PrefixOfFront
  <2>5. IsPrefix(Front(q), p)
    BY <2>1, <2>2, <2>4, PrefixOrder
  <2> QED
    BY <2>2, <2>3, <2>5, PathsAre
<1>4. ASSUME NEW q \in DOMAIN b, q # <<>> PROVE Front(q) \in DOMAIN b /\ b[Front(q)] = Dir
  <2>1. CASE q \in DOMAIN tree
    BY <1>1, <1>4, <2>1, TreeIs
  <2>2. CASE q \in way
    BY <1>1, <1>2, <1>3, <1>4, <2>2
  <2> QED
    BY <1>1, <2>1, <2>2
<1>5. FileSystem(b)
  <2>1. DOMAIN b \subseteq Paths
    BY <1>1 DEF FileSystem
  <2>2. <<>> \in DOMAIN b /\ b[<<>>] = Dir
    BY <1>1, TreeIs
  <2> QED
    BY <1>1, <1>4, <2>1, <2>2 DEF FileSystem
<1> QED
  BY <1>5 DEF b

\* What rename(2) does: the subtree is at its new place, all else where it was
\* but for what was at the target, which was a file or an empty directory.
LEMMA RenameIs ==
  ASSUME FileSystem(tree), NEW p \in Seq(Names), NEW to \in Seq(Names), CanRename(p, to)
  PROVE  LET b == Rename(p, to)
             moved == {to \o Tail2(p, q) : q \in Below(p)}
         IN  /\ DOMAIN b = (DOMAIN tree \ Below(p)) \cup moved
             /\ \A q \in Below(p) : b[to \o Tail2(p, q)] = tree[q]
             /\ \A q \in DOMAIN tree \ Below(p) : q # to => b[q] = tree[q]
<1> DEFINE b == Rename(p, to)
           moved == {to \o Tail2(p, q) : q \in Below(p)}
<1>1. b = [q \in (DOMAIN tree \ Below(p)) \cup moved |->
             IF q \in moved THEN tree[p \o Tail2(to, q)] ELSE tree[q]]
  BY DEF Rename
<1> HIDE DEF b
<1>2. ASSUME NEW q \in Below(p) PROVE b[to \o Tail2(p, q)] = tree[q]
  <2>1. q \in Seq(Names) /\ IsPrefix(p, q)
    BY TreeIs DEF Below
  <2>2. p \o Tail2(to, to \o Tail2(p, q)) = q
    BY <2>1, MoveBack
  <2>3. to \o Tail2(p, q) \in moved
    OBVIOUS
  <2> HIDE DEF moved
  <2> QED
    BY <1>1, <2>2, <2>3
<1>3. ASSUME NEW q \in DOMAIN tree, q # to PROVE q \notin moved
  <2>1. SUFFICES ASSUME NEW r \in Below(p), q = to \o Tail2(p, r) PROVE FALSE
    OBVIOUS
  <2>2. r \in Seq(Names) /\ IsPrefix(p, r) /\ q \in Seq(Names)
    BY TreeIs DEF Below
  <2>3. IsPrefix(to, q)
    BY <2>1, <2>2, MoveBack
  <2>4. Exists(to)
    BY <1>3, <2>3, Ancestors DEF Exists
  <2>5. Removable(to)
    BY <2>4 DEF CanRename
  <2> QED
    BY <1>3, <2>3, <2>4, <2>5, NothingBelow
<1> HIDE DEF moved
<1>4. \A q \in DOMAIN tree \ Below(p) : q # to => b[q] = tree[q]
  BY <1>1, <1>3
<1>5. DOMAIN b = (DOMAIN tree \ Below(p)) \cup moved
  BY <1>1
<1> QED
  BY <1>2, <1>4, <1>5 DEF b, moved

\* A renamed subtree hangs on the directory of its new name.
LEMMA RenameKeeps ==
  ASSUME FileSystem(tree), NEW p \in Seq(Names), NEW to \in Seq(Names), to # <<>>,
         CanRename(p, to)
  PROVE  FileSystem(Rename(p, to))
<1> DEFINE b == Rename(p, to)
           moved == {to \o Tail2(p, q) : q \in Below(p)}
<1>1. /\ DOMAIN b = (DOMAIN tree \ Below(p)) \cup moved
      /\ \A q \in Below(p) : b[to \o Tail2(p, q)] = tree[q]
      /\ \A q \in DOMAIN tree \ Below(p) : q # to => b[q] = tree[q]
  BY RenameIs
<1>2. b = [q \in DOMAIN b |-> b[q]]
  BY DEF Rename
<1> HIDE DEF b
<1>3. /\ p \in DOMAIN tree /\ ~IsPrefix(p, to)
      /\ Front(to) \in DOMAIN tree /\ tree[Front(to)] = Dir
      /\ \A q \in Below(p) : Len(to \o Tail2(p, q)) <= MaxDepth
  BY DEF CanRename, Exists, Room, IsDir, Fits, Parent
<1>4. ASSUME NEW q \in Below(p) PROVE q \in DOMAIN tree /\ q \in Seq(Names) /\ IsPrefix(p, q)
  BY TreeIs DEF Below
<1>5. ASSUME NEW q \in moved PROVE \E r \in Below(p) : q = to \o Tail2(p, r) /\ b[q] = tree[r]
  BY <1>1
<1>6. p \in Below(p) /\ to \o Tail2(p, p) = to
  <2>1. IsPrefix(p, p)
    BY PrefixOrder
  <2>2. LET r == to \o Tail2(p, p) IN
        /\ r \in Seq(Names) /\ Len(r) = Len(to) + Len(p) - Len(p)
        /\ \A i \in 1..Len(to) : r[i] = to[i]
    BY <2>1, MovedIs
  <2>3. Len(to \o Tail2(p, p)) = Len(to)
    BY <2>2, LenProperties
  <2>4. to \o Tail2(p, p) = to
    BY <2>2, <2>3, SeqEqual
  <2> QED
    BY <1>3, <2>1, <2>4 DEF Below
<1>7. Front(to) # to /\ Front(to) \notin Below(p)
  <2>1. Front(to) \in Seq(Names) /\ IsPrefix(Front(to), to) /\ Front(to) # to
    BY FrontIs, PrefixOfFront
  <2>2. ~IsPrefix(p, Front(to))
    BY <1>3, PrefixOfFront
  <2> QED
    BY <2>1, <2>2 DEF Below
<1>8. DOMAIN b \subseteq Paths
  <2>1. ASSUME NEW q \in moved PROVE q \in Paths
    <3>1. PICK r \in Below(p) : q = to \o Tail2(p, r)
      BY <1>5
    <3>2. q \in Seq(Names)
      BY <1>4, <3>1, MovedIs
    <3> QED
      BY <1>3, <3>1, <3>2, PathsAre
  <2> HIDE DEF moved
  <2> QED
    BY <1>1, <2>1 DEF FileSystem
<1>9. b \in [DOMAIN b -> Contents \cup {Dir}]
  <2>1. ASSUME NEW q \in DOMAIN b PROVE b[q] \in Contents \cup {Dir}
    <3>1. CASE q \in moved
      BY <1>4, <1>5, <3>1, TreeIs
    <3>2. CASE q \notin moved
      <4>1. q \in DOMAIN tree \ Below(p) /\ q # to
        BY <1>1, <1>6, <3>2
      <4> QED
        BY <1>1, <4>1, TreeIs
    <3> QED
      BY <3>1, <3>2
  <2> QED
    BY <1>2, <2>1
<1>10. <<>> \in DOMAIN b /\ b[<<>>] = Dir
  <2>1. <<>> \notin Below(p)
    <3>1. <<>> \in Seq(Names) /\ IsPrefix(<<>>, to)
      BY EmptySeq, PrefixOrder
    <3>2. IsPrefix(p, <<>>) => p = <<>>
      BY PrefixOrder
    <3> QED
      BY <1>3, <3>1, <3>2 DEF Below
  <2> QED
    BY <1>1, <2>1, TreeIs
<1>11. ASSUME NEW q \in DOMAIN b, q # <<>> PROVE Front(q) \in DOMAIN b /\ b[Front(q)] = Dir
  <2>1. CASE q \in moved
    <3>1. PICK r \in Below(p) : q = to \o Tail2(p, r)
      BY <2>1, <1>5
    <3>2. CASE r = p
      <4>1. q = to
        BY <1>6, <3>1, <3>2
      <4> QED
        BY <1>1, <1>3, <1>7, <4>1
    <3>3. CASE r # p
      <4>1. /\ r # <<>> /\ IsPrefix(p, Front(r))
            /\ Front(q) = to \o Tail2(p, Front(r))
        BY <1>4, <3>1, <3>3, MovedFront
      <4>2. Front(r) \in DOMAIN tree /\ tree[Front(r)] = Dir
        BY <1>4, <4>1, TreeIs
      <4>3. Front(r) \in Below(p)
        BY <4>1, <4>2 DEF Below
      <4>4. Front(q) \in moved
        BY <4>1, <4>3
      <4> HIDE DEF moved
      <4> QED
        BY <1>1, <4>1, <4>2, <4>3, <4>4
    <3> QED
      BY <3>2, <3>3
  <2>2. CASE q \notin moved
    <3>1. q \in DOMAIN tree \ Below(p) /\ q # to
      BY <1>1, <1>6, <2>2
    <3>2. q \in Seq(Names) /\ Front(q) \in DOMAIN tree /\ tree[Front(q)] = Dir
      BY <1>11, <3>1, TreeIs
    <3>3. Front(q) \notin Below(p)
      BY <1>11, <3>1, <3>2, PrefixOfFront DEF Below
    <3>4. CASE Front(q) = to
      \* What is in a directory that was there keeps it from being replaced.
      <4>1. Exists(to) /\ Removable(to)
        BY <3>2, <3>4 DEF CanRename, Exists
      <4>2. IsPrefix(to, q)
        BY <1>11, <3>2, <3>4, PrefixOfFront
      <4>3. q = to
        BY <3>1, <4>1, <4>2, NothingBelow
      <4> QED
        BY <3>1, <4>3
    <3>5. CASE Front(q) # to
      BY <1>1, <3>2, <3>3, <3>5
    <3> QED
      BY <3>4, <3>5
  <2> QED
    BY <2>1, <2>2
<1>12. FileSystem(b)
  BY <1>8, <1>9, <1>10, <1>11 DEF FileSystem
<1> QED
  BY <1>12 DEF b

-----------------------------------------------------------------------------
(* The invariant.                                                           *)

\* What a thread does, as a record.
ThreadStates ==
  [pc : Places, req : Requests \cup {None}, from : Seq(Names), to : Seq(Names),
   dirTo : BOOLEAN, at : Paths, todo : SUBSET Names, stack : Seq(Frames)]

\* Where mtx_ is held: not when a move looks at what is where.
Holding == {"clear", "check", "rename", "copy_file", "enter", "open", "entries",
            "replace", "fill", "remove_check", "remove_do", "change_dir", "next"}
HoldsMtx(x) == \/ x.pc \in Holding
               \/ x.pc = "look" /\ (x.req.call = "copy" \/ x.req.wild)

\* Which calls get to which steps.
CallsAt == [look |-> {"copy", "move"}, lock |-> {"copy", "move", "remove", "change_dir"},
            clear |-> {"copy", "move"}, check |-> {"copy", "move"}, rename |-> {"move"},
            copy_file |-> {"copy"}, enter |-> {"copy"}, open |-> {"copy"},
            entries |-> {"copy"}, replace |-> {"copy"}, fill |-> {"copy"},
            remove_check |-> {"remove"}, remove_do |-> {"remove"},
            change_dir |-> {"change_dir"}, make_dir |-> {"make_dir"},
            remove_self |-> {"remove_self"}, wild_lock |-> {"copy", "move", "remove"},
            next |-> {"copy", "move", "remove"}]

Copying == {"enter", "open", "entries", "replace", "fill"}

\* The call of a thread, its copies of directories, and what it may remove: never
\* the root.
CallOk(x) ==
  /\ x.pc # "idle" => x.req \in Requests /\ x.req.call \in CallsAt[x.pc]
  /\ x.pc \in Copying => x.stack # <<>>
  /\ x.pc \in {"replace", "fill"} => Head(x.stack).cur \in Names
  /\ x.pc \in {"look", "lock", "clear"} /\ x.req.call \in {"copy", "move"}
       /\ "Overwrite" \in x.req.flags => x.to # <<>>
  /\ x.pc \in {"lock", "remove_check", "remove_do"} /\ x.req.call = "remove" => x.from # <<>>
  /\ x.pc = "rename" => x.to # <<>>

\* What was looked at is still so when the entry is renamed or removed.
NoFile(b, p) == p \in DOMAIN b => b[p] = Dir
StillSo(t) ==
  /\ At(t, "rename") => NoFile(tree, thr[t].to)
  /\ At(t, "remove_do") /\ ~Flag(t, "Recursive")
       => \A q \in Below(thr[t].from) : q = thr[t].from \/ tree[q] = Dir

DirInv ==
  /\ TypeOK
  /\ \A t \in Threads : CallOk(thr[t]) /\ (HoldsMtx(thr[t]) => mtx = t)
  /\ \A t \in Threads : StillSo(t)

-----------------------------------------------------------------------------
(* What a step does to the thread that makes it.                            *)

USE DirectoryAssumption

\* The state of one thread, of its locks, and the locks of the others.
ThreadStep(t) ==
  /\ thr' = [thr EXCEPT ![t] = thr'[t]]
  /\ thr'[t] \in ThreadStates /\ CallOk(thr'[t])
  /\ HoldsMtx(thr'[t]) => mtx' = t
  /\ mtx' = mtx \/ (mtx = None /\ mtx' = t) \/ (mtx = t /\ mtx' = None)
  /\ inst' \in Threads \cup {None}

\* A thread that does nothing.
LEMMA IdleIs == Idle \in ThreadStates /\ CallOk(Idle) /\ ~HoldsMtx(Idle)
<1>1. <<>> \in Seq(Names) /\ <<>> \in Paths /\ <<>> \in Seq(Frames)
  BY PathsAre, EmptySeq
<1> QED
  BY <1>1 DEF Idle, ThreadStates, Places, CallOk, HoldsMtx, Holding, Copying

\* The end of a call.
LEMMA EndIs ==
  ASSUME DirInv, NEW t \in Threads, End(t)
  PROVE  ThreadStep(t) /\ thr'[t].pc = "idle"
<1>1. thr \in [Threads -> ThreadStates] /\ thr' = [thr EXCEPT ![t] = Idle]
  BY DEF End, DirInv, TypeOK, ThreadStates
<1>2. thr'[t] = Idle
  BY <1>1
<1>3. /\ mtx' = mtx \/ (mtx = t /\ mtx' = None)
      /\ inst' \in Threads \cup {None}
  BY DEF End, Unlock, DirInv, TypeOK
<1> QED
  BY <1>1, <1>2, <1>3, IdleIs DEF ThreadStep, Idle

\* One field of the state of a thread changes, or several.
LEMMA UpdateIs ==
  ASSUME DirInv, NEW t \in Threads, NEW y \in ThreadStates,
         thr' = [thr EXCEPT ![t] = y], CallOk(y), HoldsMtx(y) => mtx' = t,
         mtx' = mtx \/ (mtx = None /\ mtx' = t), inst' \in Threads \cup {None}
  PROVE  ThreadStep(t) /\ thr'[t] = y
<1>1. thr \in [Threads -> ThreadStates]
  BY DEF DirInv, TypeOK, ThreadStates
<1>2. thr'[t] = y
  BY <1>1
<1> QED
  BY <1>2 DEF ThreadStep

\* A step to another place in the program, with mtx_ or without.
LEMMA GotoIs ==
  ASSUME DirInv, NEW t \in Threads, NEW pc \in Places, Goto(t, pc), Keep,
         LET y == [thr[t] EXCEPT !.pc = pc]
         IN  CallOk(y) /\ (HoldsMtx(y) => mtx = t)
  PROVE  ThreadStep(t) /\ thr'[t].pc = pc
<1> DEFINE y == [thr[t] EXCEPT !.pc = pc]
<1>1. thr[t] \in ThreadStates /\ thr \in [Threads -> ThreadStates]
  BY DEF DirInv, TypeOK, ThreadStates
<1>2. y \in ThreadStates /\ y.pc = pc
  BY <1>1 DEF ThreadStates
<1>3. thr' = [thr EXCEPT ![t] = y]
  BY <1>1 DEF Goto
<1>4. mtx' = mtx /\ inst' = inst /\ inst \in Threads \cup {None}
  BY DEF Keep, DirInv, TypeOK
<1>5. CallOk(y) /\ (HoldsMtx(y) => mtx' = t)
  BY <1>4
<1> HIDE DEF y
<1> QED
  BY <1>2, <1>3, <1>4, <1>5, UpdateIs

\* The end of an operation: of the call, or of one entry.
LEMMA DoneIs ==
  ASSUME DirInv, NEW t \in Threads, Done(t), HoldsMtx(thr[t]),
         thr[t].pc # "idle", thr[t].req.call \in {"copy", "move", "remove"}
  PROVE  ThreadStep(t) /\ thr'[t].pc \in {"idle", "next"}
<1>1. CASE thr[t].req.wild
  <2> DEFINE y == [Idle EXCEPT !.pc = "next", !.req = thr[t].req,
                               !.at = thr[t].at, !.todo = thr[t].todo]
  <2>1. thr[t] \in ThreadStates /\ thr[t].req \in Requests
    BY DEF DirInv, TypeOK, ThreadStates, CallOk
  <2>2. y \in ThreadStates /\ y.pc = "next" /\ y.req = thr[t].req
    BY <2>1, IdleIs DEF ThreadStates, Places, Idle
  <2>3. thr' = [thr EXCEPT ![t] = y] /\ Keep
    BY <1>1 DEF Done
  <2>4. mtx' = mtx /\ inst' = inst /\ inst \in Threads \cup {None} /\ mtx = t
    BY <2>3 DEF Keep, DirInv, TypeOK
  <2> HIDE DEF y
  <2>5. CallOk(y)
    BY <2>1, <2>2 DEF CallOk, CallsAt, Copying
  <2> QED
    BY <2>2, <2>3, <2>4, <2>5, UpdateIs
<1>2. CASE ~thr[t].req.wild
  BY <1>2, EndIs DEF Done
<1> QED
  BY <1>1, <1>2

\* The facts about one thread.
LEMMA ThreadIs ==
  ASSUME DirInv, NEW t \in Threads
  PROVE  /\ thr \in [Threads -> ThreadStates] /\ thr[t] \in ThreadStates
         /\ CallOk(thr[t]) /\ (HoldsMtx(thr[t]) => mtx = t)
         /\ inst \in Threads \cup {None} /\ FileSystem(tree)
  BY DEF DirInv, TypeOK, ThreadStates

\* The beginning of a call without wildcards.
LEMMA BeginIs ==
  ASSUME DirInv, NEW t \in Threads, NEW call, NEW pc, Begin(t, call, pc),
         \/ call = "copy" /\ pc = "lock"
         \/ call = "move" /\ pc = "look"
         \/ call = "make_dir" /\ pc = "make_dir"
         \/ call = "change_dir" /\ pc = "lock"
         \/ call = "remove_self" /\ pc = "remove_self"
         \/ call = "remove" /\ pc = "lock"
  PROVE  ThreadStep(t)
<1>1. PICK r \in Requests :
        /\ r.call = call /\ ~r.wild
        /\ thr' = [thr EXCEPT ![t] = [Idle EXCEPT !.pc = pc, !.req = r,
                                                 !.from = r.src, !.to = r.dst]]
  BY DEF Begin
<1> DEFINE y == [Idle EXCEPT !.pc = pc, !.req = r, !.from = r.src, !.to = r.dst]
<1>2. r.src \in Seq(Names) /\ r.dst \in Seq(Names)
  BY PathsAre
<1>3. pc \in Places
  BY DEF Places
<1>4. /\ y \in ThreadStates /\ y.pc = pc /\ y.req = r /\ y.from = r.src /\ y.to = r.dst
  BY <1>2, <1>3, IdleIs DEF ThreadStates, Idle
<1>5. /\ "Overwrite" \in r.flags => r.dst # <<>>
      /\ r.call = "remove" /\ ~r.wild => r.src # <<>>
  OBVIOUS
<1>6. mtx' = mtx /\ inst' \in Threads \cup {None} /\ thr' = [thr EXCEPT ![t] = y]
  BY <1>1 DEF Begin
<1> HIDE DEF y
<1>7. CallOk(y)
  BY <1>1, <1>4, <1>5 DEF CallOk, CallsAt, Copying
<1>8. ~HoldsMtx(y)
  BY <1>1, <1>4 DEF HoldsMtx, Holding
<1> QED
  BY <1>4, <1>6, <1>7, <1>8, UpdateIs

\* The beginning of a call with wildcards.
LEMMA BeginWildIs ==
  ASSUME DirInv, NEW t \in Threads, NEW call \in {"copy", "move", "remove"}, BeginWild(t, call)
  PROVE  ThreadStep(t)
<1>1. PICK r \in Requests :
        /\ r.call = call /\ r.wild
        /\ thr' = [thr EXCEPT ![t] = [Idle EXCEPT !.pc = "wild_lock", !.req = r, !.at = loc]]
  BY DEF BeginWild
<1> DEFINE y == [Idle EXCEPT !.pc = "wild_lock", !.req = r, !.at = loc]
<1>2. loc \in Paths
  BY DEF DirInv, TypeOK
<1>3. y \in ThreadStates /\ y.pc = "wild_lock" /\ y.req = r
  BY <1>2, IdleIs DEF ThreadStates, Idle, Places
<1>4. mtx' = mtx /\ inst' \in Threads \cup {None} /\ thr' = [thr EXCEPT ![t] = y]
  BY <1>1, ThreadIs DEF BeginWild, Keep
<1> HIDE DEF y
<1>5. CallOk(y) /\ ~HoldsMtx(y)
  BY <1>1, <1>3 DEF CallOk, CallsAt, Copying, HoldsMtx, Holding
<1> QED
  BY <1>3, <1>4, <1>5, UpdateIs

\* The lock of the calls without wildcards.
LEMMA LockIs ==
  ASSUME DirInv, NEW t \in Threads, Lock(t)
  PROVE  ThreadStep(t) /\ thr'[t].pc \in {"look", "clear", "remove_check", "change_dir"}
<1> DEFINE pc == AfterLock[thr[t].req.call]
           y == [thr[t] EXCEPT !.pc = pc]
<1>1. /\ thr[t].pc = "lock" /\ mtx = None /\ mtx' = t /\ inst' = inst
      /\ thr' = [thr EXCEPT ![t].pc = pc]
  BY DEF Lock, At, Goto
<1>2. thr[t] \in ThreadStates /\ thr \in [Threads -> ThreadStates] /\ inst \in Threads \cup {None}
  BY ThreadIs
<1>3. thr[t].req.call \in {"copy", "move", "remove", "change_dir"}
  BY <1>1, ThreadIs DEF CallOk, CallsAt
<1>4. /\ thr[t].req.call = "copy" => pc = "look"
      /\ thr[t].req.call = "move" => pc = "clear"
      /\ thr[t].req.call = "remove" => pc = "remove_check"
      /\ thr[t].req.call = "change_dir" => pc = "change_dir"
  BY DEF AfterLock
<1> HIDE DEF pc
<1>5. pc \in {"look", "clear", "remove_check", "change_dir"}
  BY <1>3, <1>4
<1>6. y \in ThreadStates /\ y.pc = pc /\ y.req = thr[t].req /\ y.from = thr[t].from /\ y.to = thr[t].to
  BY <1>2, <1>5 DEF ThreadStates, Places
<1>7. thr' = [thr EXCEPT ![t] = y]
  BY <1>1, <1>2
<1> HIDE DEF y
<1>8. CallOk(y)
  BY <1>1, <1>3, <1>4, <1>6, ThreadIs DEF CallOk, CallsAt, Copying
<1> QED
  BY <1>1, <1>2, <1>5, <1>6, <1>7, <1>8, UpdateIs

\* The lock of the calls with wildcards, and one entry after the other.
LEMMA WildIs ==
  ASSUME DirInv, NEW t \in Threads, WildLock(t) \/ WildNext(t)
  PROVE  ThreadStep(t) /\ thr'[t].pc \in {"idle", "next", "remove_check", "look"}
<1>1. thr[t] \in ThreadStates /\ thr \in [Threads -> ThreadStates] /\ inst \in Threads \cup {None}
  BY ThreadIs
<1>2. CASE WildLock(t) /\ IsDir(thr[t].at)
  <2> DEFINE y == [thr[t] EXCEPT !.pc = "next",
                                 !.todo = Children(thr[t].at) \cap thr[t].req.names]
  <2>1. thr[t].pc = "wild_lock" /\ mtx = None /\ mtx' = t /\ inst' = inst
    BY <1>2 DEF WildLock, WildLockFree, At
  <2>2. Children(thr[t].at) \cap thr[t].req.names \subseteq Names
    BY DEF Children
  <2>3. y \in ThreadStates /\ y.pc = "next" /\ y.req = thr[t].req
    BY <1>1, <2>2 DEF ThreadStates, Places
  <2>4. thr' = [thr EXCEPT ![t] = y]
    BY <1>1, <1>2 DEF WildLock
  <2> HIDE DEF y
  <2>5. CallOk(y)
    BY <2>1, <2>3, ThreadIs DEF CallOk, CallsAt, Copying
  <2> QED
    BY <1>1, <2>1, <2>3, <2>4, <2>5, UpdateIs
<1>3. CASE WildLock(t) /\ ~IsDir(thr[t].at)
  BY <1>3, EndIs DEF WildLock
<1>4. CASE WildNext(t) /\ (thr[t].todo = {} \/ ~isOpen)
  BY <1>4, EndIs DEF WildNext
<1>5. CASE WildNext(t) /\ ~(thr[t].todo = {} \/ ~isOpen)
  <2>1. PICK n \in thr[t].todo :
          thr' = [thr EXCEPT ![t].pc = IF Do(t, "remove") THEN "remove_check" ELSE "look",
                             ![t].todo = @ \ {n},
                             ![t].from = Append(thr[t].at, n),
                             ![t].to = thr[t].req.dst]
    BY <1>5 DEF WildNext
  <2> DEFINE pc == IF Do(t, "remove") THEN "remove_check" ELSE "look"
             y == [thr[t] EXCEPT !.pc = pc, !.todo = @ \ {n},
                                 !.from = Append(thr[t].at, n), !.to = thr[t].req.dst]
  <2>2. /\ thr[t].pc = "next" /\ mtx' = mtx /\ inst' = inst /\ mtx = t
        /\ thr[t].req \in Requests /\ thr[t].req.call \in {"copy", "move", "remove"}
    <3>1. thr[t].pc = "next"
      BY <1>5 DEF WildNext, At
    <3>2. mtx' = mtx /\ inst' = inst
      BY <1>5 DEF WildNext, Keep
    <3>3. thr[t].req \in Requests /\ thr[t].req.call \in {"copy", "move", "remove"}
      BY <3>1, ThreadIs DEF CallOk, CallsAt
    <3>4. mtx = t
      BY <3>1, ThreadIs DEF HoldsMtx, Holding
    <3> QED
      BY <3>1, <3>2, <3>3, <3>4
  <2>3. /\ n \in Names /\ thr[t].todo \ {n} \subseteq Names
        /\ thr[t].at \in Seq(Names) /\ thr[t].req.dst \in Seq(Names)
    BY <1>1, <2>2, PathsAre DEF ThreadStates
  <2>4. Append(thr[t].at, n) \in Seq(Names) /\ Append(thr[t].at, n) # <<>>
    BY <2>3, AppendIs
  <2>5. pc \in {"remove_check", "look"} /\ (Do(t, "remove") <=> pc = "remove_check")
    OBVIOUS
  <2> HIDE DEF pc
  <2>6. /\ y \in ThreadStates /\ y.pc = pc /\ y.req = thr[t].req
        /\ y.from = Append(thr[t].at, n) /\ y.to = thr[t].req.dst
    BY <1>1, <2>3, <2>4, <2>5 DEF ThreadStates, Places
  <2>7. thr' = [thr EXCEPT ![t] = y]
    BY <1>1, <2>1 DEF pc
  <2> HIDE DEF y
  <2>8. CallOk(y)
    BY <2>2, <2>4, <2>5, <2>6 DEF CallOk, CallsAt, Copying, Do
  <2> QED
    BY <1>1, <2>2, <2>5, <2>6, <2>7, <2>8, UpdateIs
<1> QED
  BY <1>2, <1>3, <1>4, <1>5

\* The look at what is where; the root is always there.
LEMMA LookIs ==
  ASSUME DirInv, NEW t \in Threads, Look(t)
  PROVE  ThreadStep(t) /\ thr'[t].pc \in {"enter", "lock", "clear"}
<1> DEFINE from == thr[t].from
           to   == thr[t].to
<1>1. /\ thr[t] \in ThreadStates /\ thr \in [Threads -> ThreadStates]
      /\ inst \in Threads \cup {None}
      /\ from \in Seq(Names) /\ to \in Seq(Names)
  BY ThreadIs DEF ThreadStates
<1>2. /\ thr[t].pc = "look" /\ mtx' = mtx /\ inst' = inst
  BY DEF Look, At, Keep
<1>3. /\ thr[t].req \in Requests /\ thr[t].req.call \in {"copy", "move"}
      /\ "Overwrite" \in thr[t].req.flags => to # <<>>
  BY <1>2, ThreadIs DEF CallOk, CallsAt
<1>4. thr[t].req.call = "copy" \/ thr[t].req.wild => mtx = t
  BY <1>2, ThreadIs DEF HoldsMtx
<1>5. CASE Do(t, "copy") /\ IsDir(from)
  <2> DEFINE stack == <<[src |-> from, dst |-> to, left |-> {}, cur |-> None]>>
             y == [thr[t] EXCEPT !.pc = "enter", !.stack = stack]
  <2>1. stack \in Seq(Frames) /\ stack # <<>>
    BY <1>1 DEF Frames
  <2> HIDE DEF stack
  <2>2. y \in ThreadStates /\ y.pc = "enter" /\ y.req = thr[t].req /\ y.stack = stack
    BY <1>1, <2>1 DEF ThreadStates, Places
  <2>3. thr' = [thr EXCEPT ![t] = y]
    BY <1>1, <1>5 DEF Look, stack
  <2> HIDE DEF y
  <2>4. CallOk(y)
    BY <1>3, <1>5, <2>1, <2>2 DEF CallOk, CallsAt, Copying, Do
  <2> QED
    BY <1>1, <1>2, <1>4, <1>5, <2>2, <2>3, <2>4, UpdateIs DEF Do
<1>6. CASE ~(Do(t, "copy") /\ IsDir(from))
  <2> DEFINE into == ~IsDir(from) /\ IsDir(to)
             pc   == IF Do(t, "move") /\ ~thr[t].req.wild THEN "lock" ELSE "clear"
             new  == IF into THEN Append(to, Last(from)) ELSE to
             y    == [thr[t] EXCEPT !.pc = pc, !.to = new, !.dirTo = IsDir(to)]
  <2>1. new \in Seq(Names) /\ (to # <<>> => new # <<>>)
    <3>1. CASE into
      <4>1. from # <<>>
        BY <3>1, ThreadIs, TreeIs DEF IsDir, Exists
      <4>2. Last(from) \in Names
        BY <1>1, <4>1, FrontIs
      <4> QED
        BY <1>1, <3>1, <4>2, AppendIs
    <3>2. CASE ~into
      BY <1>1, <3>2
    <3> QED
      BY <3>1, <3>2
  <2>2. IsDir(to) \in BOOLEAN
    BY DEF IsDir, Exists
  <2>3. pc \in {"lock", "clear"} /\ (pc = "clear" => mtx = t)
    BY <1>3, <1>4 DEF Do
  <2>4. thr' = [thr EXCEPT ![t].pc = pc, ![t].to = new, ![t].dirTo = IsDir(to)]
    BY <1>6 DEF Look
  <2> HIDE DEF pc, new
  <2>5. y \in ThreadStates /\ y.pc = pc /\ y.req = thr[t].req /\ y.to = new
    BY <1>1, <2>1, <2>2, <2>3 DEF ThreadStates, Places
  <2>6. thr' = [thr EXCEPT ![t] = y]
    BY <1>1, <2>4
  <2> HIDE DEF y
  <2>7. CallOk(y)
    BY <1>3, <2>1, <2>3, <2>5 DEF CallOk, CallsAt, Copying
  <2>8. HoldsMtx(y) => mtx' = t
    BY <1>2, <2>3, <2>5 DEF HoldsMtx, Holding
  <2> QED
    BY <1>1, <1>2, <2>3, <2>5, <2>6, <2>7, <2>8, UpdateIs
<1> QED
  BY <1>5, <1>6

\* Removing what is in the way.
LEMMA ClearIs ==
  ASSUME DirInv, NEW t \in Threads, Clear(t)
  PROVE  ThreadStep(t) /\ thr'[t].pc \in {"idle", "check", "copy_file"}
<1> DEFINE next == IF Checks(t) THEN "check" ELSE "copy_file"
<1>1. thr[t] \in ThreadStates /\ thr[t].pc = "clear" /\ mtx = t
  BY ThreadIs DEF Clear, At, HoldsMtx, Holding
<1>2. thr[t].req \in Requests /\ thr[t].req.call \in {"copy", "move"}
  BY <1>1, ThreadIs DEF CallOk, CallsAt
<1>3. CASE Goto(t, next) /\ Keep
  <2> DEFINE y == [thr[t] EXCEPT !.pc = next]
  <2>1. next \in {"check", "copy_file"} /\ (next = "copy_file" => thr[t].req.call = "copy")
    BY <1>2 DEF Checks, Do
  <2> HIDE DEF next
  <2>2. y.pc = next /\ y.req = thr[t].req
    BY <1>1 DEF ThreadStates
  <2> HIDE DEF y
  <2>3. CallOk(y)
    BY <1>2, <2>1, <2>2 DEF CallOk, CallsAt, Copying
  <2>4. next \in Places
    BY <2>1 DEF Places
  <2> QED
    BY <1>1, <1>3, <2>1, <2>3, <2>4, GotoIs DEF y
<1>4. CASE End(t)
  BY <1>4, EndIs
<1> QED
  BY <1>3, <1>4 DEF Clear

\* The second look.
LEMMA CheckIs ==
  ASSUME DirInv, NEW t \in Threads, Check(t)
  PROVE  /\ ThreadStep(t)
         /\ \/ thr'[t].pc \in {"idle", "copy_file"}
            \/ /\ thr'[t] = [thr[t] EXCEPT !.pc = "rename"] /\ thr'[t].to = thr[t].to
               /\ ~Exists(thr[t].to)
<1>1. thr[t] \in ThreadStates /\ thr[t].pc = "check" /\ mtx = t
  BY ThreadIs DEF Check, At, HoldsMtx, Holding
<1>2. thr[t].req \in Requests /\ thr[t].req.call \in {"copy", "move"}
  BY <1>1, ThreadIs DEF CallOk, CallsAt
<1>3. CASE Exists(thr[t].to)
  BY <1>3, EndIs DEF Check
<1>4. CASE ~Exists(thr[t].to)
  <2> DEFINE pc == IF Do(t, "move") THEN "rename" ELSE "copy_file"
             y  == [thr[t] EXCEPT !.pc = pc]
  <2>1. Goto(t, pc) /\ Keep
    BY <1>4 DEF Check
  <2>2. pc \in {"rename", "copy_file"} /\ (pc = "rename" <=> thr[t].req.call = "move")
    BY DEF Do
  <2> HIDE DEF pc
  <2>3. y.pc = pc /\ y.req = thr[t].req /\ y.to = thr[t].to
    BY <1>1 DEF ThreadStates
  <2>4. thr[t].to # <<>>
    BY <1>4, ThreadIs, TreeIs DEF Exists
  <2>5. thr'[t] = y
    BY <2>1, ThreadIs DEF Goto
  <2>6. CallOk(y)
    <3> HIDE DEF y
    <3> QED
      BY <1>2, <2>2, <2>3, <2>4 DEF CallOk, CallsAt, Copying
  <2>7. pc \in Places
    BY <2>2 DEF Places
  <2>8. ThreadStep(t) /\ thr'[t].pc = pc
    BY <1>1, <2>1, <2>6, <2>7, GotoIs
  <2>9. CASE pc = "rename"
    BY <1>4, <2>3, <2>5, <2>8, <2>9
  <2>10. CASE pc = "copy_file"
    BY <2>8, <2>10
  <2> QED
    BY <2>2, <2>9, <2>10
<1> QED
  BY <1>3, <1>4

\* The end of a move, and of the copy of a file.
LEMMA EntryEndIs ==
  ASSUME DirInv, NEW t \in Threads, RenameEntry(t) \/ CopyEntry(t)
  PROVE  ThreadStep(t) /\ thr'[t].pc \in {"idle", "next"}
<1>1. thr[t].pc \in {"rename", "copy_file"}
  BY DEF RenameEntry, CopyEntry, At
<1>2. thr[t].req.call \in {"copy", "move"} /\ HoldsMtx(thr[t])
  BY <1>1, ThreadIs DEF CallOk, CallsAt, HoldsMtx, Holding
<1>3. Done(t) \/ End(t)
  BY DEF RenameEntry, CopyEntry
<1> QED
  BY <1>1, <1>2, <1>3, DoneIs, EndIs

\* The steps of remove(url).
LEMMA RemoveIs ==
  ASSUME DirInv, NEW t \in Threads, RemoveCheck(t) \/ RemoveDo(t)
  PROVE  /\ ThreadStep(t)
         /\ \/ thr'[t].pc \in {"idle", "next"}
            \/ /\ RemoveCheck(t) /\ thr'[t].pc = "remove_do"
               /\ thr'[t].from = thr[t].from /\ thr'[t].req = thr[t].req
<1>1. thr[t].pc \in {"remove_check", "remove_do"}
  BY DEF RemoveCheck, RemoveDo, At
<1>2. thr[t].req.call = "remove" /\ thr[t].req \in Requests /\ thr[t].from # <<>>
  BY <1>1, ThreadIs DEF CallOk, CallsAt
<1>3. HoldsMtx(thr[t])
  BY <1>1 DEF HoldsMtx, Holding
<1>4. CASE Done(t) \/ End(t)
  BY <1>1, <1>2, <1>3, <1>4, DoneIs, EndIs
<1>5. CASE ~(Done(t) \/ End(t))
  <2> DEFINE y == [thr[t] EXCEPT !.pc = "remove_do", !.dirTo = IsDir(thr[t].from)]
  <2>1. RemoveCheck(t) /\ Keep
        /\ thr' = [thr EXCEPT ![t].pc = "remove_do", ![t].dirTo = IsDir(thr[t].from)]
    BY <1>5 DEF RemoveCheck, RemoveDo
  <2>2. IsDir(thr[t].from) \in BOOLEAN
    BY DEF IsDir, Exists
  <2>3. /\ y \in ThreadStates /\ y.pc = "remove_do" /\ y.req = thr[t].req
        /\ y.from = thr[t].from
    <3>1. thr[t] \in ThreadStates /\ "remove_do" \in Places
      BY ThreadIs DEF Places
    <3> DEFINE b == IsDir(thr[t].from)
    <3> HIDE DEF b
    <3>2. [thr[t] EXCEPT !.pc = "remove_do", !.dirTo = b] \in ThreadStates
      BY <2>2, <3>1 DEF ThreadStates, b
    <3> QED
      BY <3>1, <3>2 DEF ThreadStates, b
  <2>4. thr' = [thr EXCEPT ![t] = y]
    BY <2>1, ThreadIs
  <2> HIDE DEF y
  <2>5. CallOk(y)
    BY <1>2, <2>3 DEF CallOk, CallsAt, Copying
  <2>6. mtx' = mtx /\ mtx = t /\ inst' \in Threads \cup {None}
    BY <1>3, <2>1, ThreadIs DEF Keep
  <2>7. ThreadStep(t) /\ thr'[t] = y
    BY <2>3, <2>4, <2>5, <2>6, UpdateIs
  <2> QED
    BY <2>1, <2>3, <2>7
<1> QED
  BY <1>4, <1>5

\* The active call of copy_directory.
LEMMA TopIs ==
  ASSUME DirInv, NEW t \in Threads, thr[t].pc \in Copying
  PROVE  /\ thr[t].stack \in Seq(Frames) /\ thr[t].stack # <<>> /\ Len(thr[t].stack) \in Nat \ {0}
         /\ Top(t) = thr[t].stack[1] /\ Top(t) \in Frames
         /\ Top(t).src \in Seq(Names) /\ Top(t).dst \in Seq(Names)
         /\ thr[t].pc \in {"replace", "fill"} => Top(t).cur \in Names
         /\ mtx = t /\ thr[t].req \in Requests /\ thr[t].req.call = "copy"
<1>1. thr[t].stack \in Seq(Frames) /\ thr[t].stack # <<>>
  BY ThreadIs DEF ThreadStates, CallOk
<1>2. Len(thr[t].stack) \in Nat \ {0}
  BY <1>1, EmptySeq
<1>3. Top(t) = thr[t].stack[1] /\ Top(t) \in Frames
  <2>1. Head(thr[t].stack) \in Frames
    BY <1>1, HeadTailProperties
  <2> QED
    BY <1>1, <2>1 DEF Top
<1>4. thr[t].pc \in {"replace", "fill"} => Top(t).cur \in Names
  BY ThreadIs DEF CallOk, Top
<1>5. mtx = t
  BY ThreadIs DEF Copying, HoldsMtx, Holding
<1>6. thr[t].req \in Requests /\ thr[t].req.call = "copy"
  BY ThreadIs DEF Copying, CallOk, CallsAt
<1> QED
  BY <1>1, <1>2, <1>3, <1>4, <1>5, <1>6 DEF Frames

\* A step within a copy of a directory that changes the stack.
LEMMA StackIs ==
  ASSUME DirInv, NEW t \in Threads, thr[t].pc \in Copying, NEW pc \in Copying,
         NEW stack \in Seq(Frames), stack # <<>>,
         pc \in {"replace", "fill"} => stack[1].cur \in Names,
         thr' = [thr EXCEPT ![t] = [thr[t] EXCEPT !.pc = pc, !.stack = stack]], Keep
  PROVE  ThreadStep(t) /\ thr'[t].pc = pc
<1> DEFINE y == [thr[t] EXCEPT !.pc = pc, !.stack = stack]
<1>1. pc \in Places
  BY DEF Copying, Places
<1>2. y \in ThreadStates /\ y.pc = pc /\ y.req = thr[t].req /\ y.stack = stack
  BY <1>1, ThreadIs DEF ThreadStates
<1>3. /\ mtx' = mtx /\ inst' \in Threads \cup {None} /\ mtx = t
      /\ thr[t].req \in Requests /\ thr[t].req.call = "copy"
  BY ThreadIs, TopIs DEF Keep
<1>4. thr' = [thr EXCEPT ![t] = y]
  OBVIOUS
<1> HIDE DEF y
<1>5. pc \in {"replace", "fill"} => Head(y.stack).cur \in Names
  BY <1>2
<1>6. /\ y.req.call \in CallsAt[y.pc]
      /\ y.pc \notin {"look", "lock", "clear", "remove_check", "remove_do", "rename"}
  BY <1>2, <1>3 DEF Copying, CallsAt
<1>7. CallOk(y)
  BY <1>2, <1>3, <1>5, <1>6 DEF CallOk
<1> QED
  BY <1>2, <1>3, <1>4, <1>7, UpdateIs

\* The same for a step that leaves the stack as it is.
LEMMA CopyGotoIs ==
  ASSUME DirInv, NEW t \in Threads, thr[t].pc \in Copying, NEW pc \in Copying,
         pc \in {"replace", "fill"} => Top(t).cur \in Names, Goto(t, pc), Keep
  PROVE  ThreadStep(t) /\ thr'[t].pc = pc
<1> DEFINE stack == thr[t].stack
<1>1. stack \in Seq(Frames) /\ stack # <<>> /\ stack[1] = Top(t)
  BY TopIs
<1>2. thr' = [thr EXCEPT ![t] = [thr[t] EXCEPT !.pc = pc, !.stack = stack]]
  BY ThreadIs DEF Goto, ThreadStates
<1> HIDE DEF stack
<1> QED
  BY <1>1, <1>2, StackIs

\* The steps of copy_directory: the target is made.
LEMMA EnterIs ==
  ASSUME DirInv, NEW t \in Threads, Enter(t)
  PROVE  ThreadStep(t) /\ thr'[t].pc \in {"idle", "open"}
<1>1. thr[t].pc = "enter" /\ thr[t].pc \in Copying /\ "open" \in Copying
  BY DEF Enter, At, Copying
<1>2. CASE Goto(t, "open") /\ Keep
  BY <1>1, <1>2, CopyGotoIs
<1>3. CASE End(t)
  BY <1>3, EndIs
<1> QED
  BY <1>2, <1>3 DEF Enter

\* Both directories are opened.
LEMMA OpenDirIs ==
  ASSUME DirInv, NEW t \in Threads, OpenDir(t)
  PROVE  ThreadStep(t) /\ thr'[t].pc \in {"idle", "entries"}
<1> DEFINE to  == Top(t).dst
           new == IF IsDir(to) THEN to ELSE Parent(to)
           top == [Top(t) EXCEPT !.dst = new, !.left = Children(Top(t).src)]
           stack == [thr[t].stack EXCEPT ![1] = top]
<1>1. thr[t].pc = "open" /\ thr[t].pc \in Copying /\ "entries" \in Copying
  BY DEF OpenDir, At, Copying
<1>2. /\ thr[t].stack \in Seq(Frames) /\ Len(thr[t].stack) \in Nat \ {0}
      /\ Top(t) = thr[t].stack[1] /\ Top(t) \in Frames /\ to \in Seq(Names)
  BY <1>1, TopIs
<1>3. CASE Exists(to) /\ IsDir(Top(t).src)
  <2>1. /\ thr' = [thr EXCEPT ![t].pc = "entries", ![t].stack[1] =
                [@ EXCEPT !.dst = new, !.left = Children(Top(t).src)]]
        /\ Keep
    BY <1>3 DEF OpenDir
  <2>2. new \in Seq(Names)
    <3>1. CASE IsDir(to)
      BY <1>2, <3>1
    <3>2. CASE ~IsDir(to)
      <4>1. to # <<>>
        BY <3>2, ThreadIs, TreeIs DEF IsDir, Exists
      <4> QED
        BY <1>2, <3>2, <4>1, FrontIs DEF Parent
    <3> QED
      BY <3>1, <3>2
  <2> HIDE DEF new
  <2>3. Children(Top(t).src) \in SUBSET Names
    BY DEF Children
  <2>4. top \in Frames
    BY <1>2, <2>2, <2>3 DEF Frames
  <2>5. 1 \in 1..Len(thr[t].stack)
    BY <1>2
  <2>6. thr' = [thr EXCEPT ![t] = [thr[t] EXCEPT !.pc = "entries", !.stack = stack]]
    BY <1>2, <2>1, ThreadIs DEF ThreadStates
  <2> HIDE DEF top
  <2>7. stack \in Seq(Frames) /\ Len(stack) = Len(thr[t].stack)
    BY <1>2, <2>4, <2>5, ExceptSeq
  <2>8. stack # <<>>
    BY <1>2, <2>7
  <2> HIDE DEF stack
  <2> QED
    BY <1>1, <2>1, <2>6, <2>7, <2>8, StackIs
<1>4. CASE ~(Exists(to) /\ IsDir(Top(t).src))
  BY <1>4, EndIs DEF OpenDir
<1> QED
  BY <1>3, <1>4

\* The next entry: a file, or a directory to descend into or to leave out.
LEMMA EntryIs ==
  ASSUME DirInv, NEW t \in Threads, Entry(t)
  PROVE  ThreadStep(t) /\ thr'[t].pc \in Copying
<1>1. thr[t].pc = "entries" /\ thr[t].pc \in Copying /\ Keep
  BY DEF Entry, At, Copying
<1>2. /\ thr[t].stack \in Seq(Frames) /\ Len(thr[t].stack) \in Nat \ {0}
      /\ Top(t) = thr[t].stack[1] /\ Top(t) \in Frames
      /\ Top(t).src \in Seq(Names) /\ Top(t).dst \in Seq(Names)
  BY <1>1, TopIs
<1> DEFINE from(n) == Append(Top(t).src, n)
           rest(n) == [thr[t].stack EXCEPT ![1].left = @ \ {n}]
           sub(n)  == [src |-> from(n), dst |-> Append(Top(t).dst, n), left |-> {}, cur |-> None]
<1>3. PICK n \in Top(t).left :
        thr' = [thr EXCEPT
             ![t].pc = IF ~IsDir(from(n)) THEN "replace"
                       ELSE IF Descends(t) THEN "enter" ELSE "entries",
             ![t].stack = IF ~IsDir(from(n)) THEN [rest(n) EXCEPT ![1].cur = n]
                          ELSE IF Descends(t) THEN <<sub(n)>> \o rest(n) ELSE rest(n)]
  BY DEF Entry
<1>4. n \in Names /\ Top(t).left \ {n} \in SUBSET Names
  BY <1>2 DEF Frames
<1>5. 1 \in 1..Len(thr[t].stack)
  BY <1>2
<1> DEFINE top  == [Top(t) EXCEPT !.left = @ \ {n}]
           topn == [top EXCEPT !.cur = n]
<1>6. top \in Frames /\ topn \in Frames /\ topn.cur = n
  BY <1>2, <1>4 DEF Frames
<1>7. /\ rest(n) = [thr[t].stack EXCEPT ![1] = top]
      /\ [rest(n) EXCEPT ![1].cur = n] = [thr[t].stack EXCEPT ![1] = topn]
  BY <1>2, <1>5, LenProperties
<1> HIDE DEF top, topn
<1>8. /\ rest(n) \in Seq(Frames) /\ Len(rest(n)) = Len(thr[t].stack)
      /\ [rest(n) EXCEPT ![1].cur = n] \in Seq(Frames)
      /\ Len([rest(n) EXCEPT ![1].cur = n]) = Len(thr[t].stack)
      /\ [rest(n) EXCEPT ![1].cur = n][1] = topn
  <2>1. /\ [thr[t].stack EXCEPT ![1] = top] \in Seq(Frames)
        /\ Len([thr[t].stack EXCEPT ![1] = top]) = Len(thr[t].stack)
    BY <1>2, <1>5, <1>6, ExceptSeq
  <2>2. /\ [thr[t].stack EXCEPT ![1] = topn] \in Seq(Frames)
        /\ Len([thr[t].stack EXCEPT ![1] = topn]) = Len(thr[t].stack)
    BY <1>2, <1>5, <1>6, ExceptSeq
  <2>3. [thr[t].stack EXCEPT ![1] = topn][1] = topn
    BY <1>2, <1>5, LenProperties
  <2> HIDE DEF rest
  <2> QED
    BY <1>7, <2>1, <2>2, <2>3
<1>9. sub(n) \in Frames
  BY <1>2, <1>4, AppendIs DEF Frames
<1> HIDE DEF rest, sub, from
<1>10. <<sub(n)>> \o rest(n) \in Seq(Frames) /\ Len(<<sub(n)>> \o rest(n)) = 1 + Len(rest(n))
  <2>1. <<sub(n)>> \in Seq(Frames) /\ Len(<<sub(n)>>) = 1
    BY <1>9
  <2> QED
    BY <1>8, <2>1, ConcatProperties
<1>11. thr \in [Threads -> ThreadStates]
  BY ThreadIs
<1>12. CASE ~IsDir(from(n))
  <2> DEFINE stack == [rest(n) EXCEPT ![1].cur = n]
  <2>1. thr' = [thr EXCEPT ![t] = [thr[t] EXCEPT !.pc = "replace", !.stack = stack]]
    BY <1>3, <1>11, <1>12 DEF ThreadStates
  <2>2. stack \in Seq(Frames) /\ stack # <<>> /\ stack[1].cur \in Names /\ "replace" \in Copying
    <3>1. stack \in Seq(Frames) /\ Len(stack) # 0
      BY <1>2, <1>8
    <3>2. stack[1].cur \in Names
      BY <1>4, <1>6, <1>8
    <3> QED
      BY <3>1, <3>2 DEF Copying
  <2> HIDE DEF stack
  <2> QED
    BY <1>1, <2>1, <2>2, StackIs
<1>13. CASE IsDir(from(n)) /\ Descends(t)
  <2> DEFINE stack == <<sub(n)>> \o rest(n)
  <2>1. thr' = [thr EXCEPT ![t] = [thr[t] EXCEPT !.pc = "enter", !.stack = stack]]
    BY <1>3, <1>11, <1>13 DEF ThreadStates
  <2>2. stack \in Seq(Frames) /\ Len(stack) # 0 /\ "enter" \in Copying
    BY <1>2, <1>8, <1>10 DEF Copying
  <2> HIDE DEF stack
  <2>3. stack # <<>>
    BY <2>2
  <2> QED
    BY <1>1, <2>1, <2>2, <2>3, StackIs
<1>14. CASE IsDir(from(n)) /\ ~Descends(t)
  <2> DEFINE stack == rest(n)
  <2>1. thr' = [thr EXCEPT ![t] = [thr[t] EXCEPT !.pc = "entries", !.stack = stack]]
    BY <1>3, <1>11, <1>14 DEF ThreadStates
  <2>2. stack \in Seq(Frames) /\ Len(stack) # 0 /\ "entries" \in Copying
    BY <1>2, <1>8 DEF Copying
  <2> HIDE DEF stack
  <2>3. stack # <<>>
    BY <2>2
  <2> QED
    BY <1>1, <2>1, <2>2, <2>3, StackIs
<1> QED
  BY <1>12, <1>13, <1>14

\* What is in the way of a file goes.
LEMMA ReplaceIs ==
  ASSUME DirInv, NEW t \in Threads, Replace(t)
  PROVE  ThreadStep(t) /\ thr'[t].pc \in {"idle", "fill"}
<1>1. thr[t].pc = "replace" /\ thr[t].pc \in Copying /\ "fill" \in Copying
  BY DEF Replace, At, Copying
<1>2. Top(t).cur \in Names
  BY <1>1, TopIs
<1>3. CASE Goto(t, "fill") /\ Keep
  BY <1>1, <1>2, <1>3, CopyGotoIs
<1>4. CASE End(t)
  BY <1>4, EndIs
<1> QED
  BY <1>3, <1>4 DEF Replace

\* A file is copied.
LEMMA FillIs ==
  ASSUME DirInv, NEW t \in Threads, Fill(t)
  PROVE  ThreadStep(t) /\ thr'[t].pc \in {"idle", "entries"}
<1>1. thr[t].pc = "fill" /\ thr[t].pc \in Copying /\ "entries" \in Copying
  BY DEF Fill, At, Copying
<1>2. /\ thr[t].stack \in Seq(Frames) /\ Len(thr[t].stack) \in Nat \ {0}
      /\ Top(t) = thr[t].stack[1] /\ Top(t) \in Frames
  BY <1>1, TopIs
<1> DEFINE top == [Top(t) EXCEPT !.cur = None]
           stack == [thr[t].stack EXCEPT ![1] = top]
<1>3. CASE thr' = [thr EXCEPT ![t].pc = "entries", ![t].stack[1].cur = None] /\ Keep
  <2>1. top \in Frames
    BY <1>2 DEF Frames
  <2>2. thr' = [thr EXCEPT ![t] = [thr[t] EXCEPT !.pc = "entries", !.stack = stack]]
    BY <1>2, <1>3, ThreadIs DEF ThreadStates
  <2> HIDE DEF top
  <2>3. stack \in Seq(Frames) /\ Len(stack) = Len(thr[t].stack)
    <3>1. 1 \in 1..Len(thr[t].stack)
      BY <1>2
    <3> QED
      BY <1>2, <2>1, <3>1, ExceptSeq
  <2>4. stack # <<>>
    BY <1>2, <2>3
  <2> HIDE DEF stack
  <2> QED
    BY <1>1, <1>3, <2>2, <2>3, <2>4, StackIs
<1>4. CASE End(t)
  BY <1>4, EndIs
<1> QED
  BY <1>3, <1>4 DEF Fill

\* No entries are left.
LEMMA LeaveIs ==
  ASSUME DirInv, NEW t \in Threads, Leave(t)
  PROVE  ThreadStep(t) /\ thr'[t].pc \in {"idle", "next", "entries"}
<1>1. thr[t].pc = "entries" /\ thr[t].pc \in Copying /\ "entries" \in Copying
  BY DEF Leave, At, Copying
<1>2. thr[t].stack \in Seq(Frames) /\ thr[t].stack # <<>> /\ Len(thr[t].stack) \in Nat \ {0}
  BY <1>1, TopIs
<1>3. CASE Nested(t)
  <2> DEFINE stack == Tail(thr[t].stack)
  <2>1. thr' = [thr EXCEPT ![t].stack = stack] /\ Keep
    BY <1>3 DEF Leave
  <2>2. thr' = [thr EXCEPT ![t] = [thr[t] EXCEPT !.pc = "entries", !.stack = stack]]
    BY <1>1, <2>1, ThreadIs DEF ThreadStates
  <2>3. stack \in Seq(Frames) /\ Len(stack) = Len(thr[t].stack) - 1
    BY <1>2, HeadTailProperties
  <2>4. stack # <<>>
    <3> DEFINE n == Len(thr[t].stack)
    <3>1. n > 1
      BY <1>3 DEF Nested
    <3>2. n \in Nat
      BY <1>2
    <3>3. Len(stack) = n - 1
      BY <2>3
    <3> HIDE DEF stack, n
    <3>4. n - 1 # 0
      BY <3>1, <3>2
    <3>5. Len(stack) # 0
      BY <3>3, <3>4
    <3> QED
      BY <3>5
  <2> HIDE DEF stack
  <2> QED
    BY <1>1, <2>1, <2>2, <2>3, <2>4, StackIs
<1>4. CASE ~Nested(t)
  <2>1. HoldsMtx(thr[t]) /\ thr[t].req.call = "copy" /\ thr[t].pc # "idle"
    BY <1>1, TopIs DEF HoldsMtx, Holding
  <2> QED
    BY <1>4, <2>1, DoneIs DEF Leave
<1> QED
  BY <1>3, <1>4

\* Whatever a thread does, its state and its locks stay in order; it gets to a
\* rename, or to a removal, only from the look that allows it.
LEMMA StepOfThread ==
  ASSUME DirInv, NEW t \in Threads, Step(t)
  PROVE  /\ ThreadStep(t)
         /\ thr'[t].pc = "rename" => Check(t) /\ thr'[t].to = thr[t].to /\ ~Exists(thr[t].to)
         /\ thr'[t].pc = "remove_do"
              => RemoveCheck(t) /\ thr'[t].from = thr[t].from /\ thr'[t].req = thr[t].req
<1>1. CASE CopyCall(t) \/ MoveCall(t) \/ MakeDirCall(t) \/ ChangeDirCall(t)
           \/ RemoveSelfCall(t) \/ RemoveCall(t)
  <2>1. PICK call, pc : /\ Begin(t, call, pc)
                        /\ \/ call = "copy" /\ pc = "lock"
                           \/ call = "move" /\ pc = "look"
                           \/ call = "make_dir" /\ pc = "make_dir"
                           \/ call = "change_dir" /\ pc = "lock"
                           \/ call = "remove_self" /\ pc = "remove_self"
                           \/ call = "remove" /\ pc = "lock"
    BY <1>1 DEF CopyCall, MoveCall, MakeDirCall, ChangeDirCall, RemoveSelfCall, RemoveCall
  <2>2. ThreadStep(t)
    BY <2>1, BeginIs
  <2>3. thr'[t].pc = pc
    BY <2>1, ThreadIs DEF Begin, Idle
  <2> QED
    BY <2>1, <2>2, <2>3
<1>2. CASE CopyWildcard(t) \/ MoveWildcard(t) \/ RemoveWildcard(t)
  <2>1. PICK call \in {"copy", "move", "remove"} : BeginWild(t, call)
    BY <1>2 DEF CopyWildcard, MoveWildcard, RemoveWildcard
  <2>2. ThreadStep(t)
    BY <2>1, BeginWildIs
  <2>3. thr'[t].pc = "wild_lock"
    BY <2>1, ThreadIs DEF BeginWild, Idle
  <2> QED
    BY <2>2, <2>3
<1>3. CASE Lock(t)
  BY <1>3, LockIs
<1>4. CASE ChangeDir(t) \/ MakeDir(t) \/ RemoveSelf(t)
  BY <1>4, EndIs DEF ChangeDir, MakeDir, RemoveSelf
<1>5. CASE WildLock(t) \/ WildNext(t)
  BY <1>5, WildIs
<1>6. CASE Look(t)
  BY <1>6, LookIs
<1>7. CASE Clear(t)
  BY <1>7, ClearIs
<1>8. CASE Check(t)
  <2>1. "rename" # "remove_do"
    OBVIOUS
  <2>2. thr[t] \in ThreadStates
    BY ThreadIs
  <2>3. [thr[t] EXCEPT !.pc = "rename"].pc = "rename"
    BY <2>2 DEF ThreadStates
  <2> QED
    BY <1>8, <2>1, <2>3, CheckIs
<1>9. CASE RenameEntry(t) \/ CopyEntry(t)
  BY <1>9, EntryEndIs
<1>10. CASE Enter(t)
  BY <1>10, EnterIs
<1>11. CASE OpenDir(t)
  BY <1>11, OpenDirIs
<1>12. CASE Entry(t)
  BY <1>12, EntryIs DEF Copying
<1>13. CASE Replace(t)
  BY <1>13, ReplaceIs
<1>14. CASE Fill(t)
  BY <1>14, FillIs
<1>15. CASE Leave(t)
  BY <1>15, LeaveIs
<1>16. CASE RemoveCheck(t) \/ RemoveDo(t)
  BY <1>16, RemoveIs
<1> QED
  BY <1>1, <1>2, <1>3, <1>4, <1>5, <1>6, <1>7, <1>8, <1>9, <1>10, <1>11, <1>12, <1>13, <1>14,
     <1>15, <1>16 DEF Step

-----------------------------------------------------------------------------
(* What a step does to the tree.                                            *)

\* Nothing, or a new entry, or a subtree less, or new directories on the way to
\* one, or a rename.  Without mtx_ only directories are made and subtrees removed.
PutsOne(t) ==
  \E p \in Seq(Names), what \in Contents \cup {Dir} :
    /\ ~Exists(p) /\ Room(p) /\ tree' = Put(p, what)
    /\ what = Dir \/ mtx = t
Removes(t) ==
  \E p \in Seq(Names) :
    /\ p # <<>> /\ tree' = Without(Below(p))
    /\ \/ Lossy(thr[t].req)
       \/ Do(t, "remove") /\ p = thr[t].from /\ \A q \in Below(p) : q = p \/ tree[q] = Dir
    /\ thr'[t].pc # thr[t].pc
PutsWay(t) ==
  \E p \in Seq(Names) : Creatable(p) /\ tree' = WithParents(p) /\ mtx = t
Renames(t) ==
  /\ At(t, "rename") /\ CanRename(thr[t].from, thr[t].to)
  /\ tree' = Rename(thr[t].from, thr[t].to) /\ mtx = t
TreeStep(t) == tree' = tree \/ PutsOne(t) \/ Removes(t) \/ PutsWay(t) \/ Renames(t)

\* The copy of a file is a new entry.
LEMMA CopyFilePuts ==
  ASSUME DirInv, NEW t \in Threads, NEW p \in Seq(Names), NEW to \in Seq(Names),
         CanCopy(p, to), tree' = CopyFile(p, to), mtx = t
  PROVE  PutsOne(t)
<1> DEFINE what == IF IsDir(p) THEN Empty ELSE tree[p]
<1>1. what \in Contents \cup {Dir}
  BY ThreadIs, TreeIs DEF CanCopy, Exists
<1>2. ~Exists(to) /\ Room(to) /\ tree' = Put(to, what)
  BY DEF CanCopy, CopyFile
<1> HIDE DEF what
<1> QED
  BY <1>1, <1>2 DEF PutsOne

\* The steps that change the tree, one by one.
LEMMA StepOfTree ==
  ASSUME DirInv, NEW t \in Threads, Step(t)
  PROVE  TreeStep(t)
<1>1. thr[t].from \in Seq(Names) /\ thr[t].to \in Seq(Names) /\ loc \in Seq(Names)
  BY ThreadIs, PathsAre DEF ThreadStates, DirInv, TypeOK
<1>2. CASE MakeDir(t)
  <2>1. CASE ~Exists(thr[t].from) /\ Room(thr[t].from)
    <3>1. tree' = Put(thr[t].from, Dir)
      BY <1>2, <2>1 DEF MakeDir, Becomes
    <3> QED
      BY <1>1, <2>1, <3>1 DEF TreeStep, PutsOne
  <2>2. CASE ~(~Exists(thr[t].from) /\ Room(thr[t].from))
    BY <1>2, <2>2 DEF MakeDir, Becomes, TreeStep
  <2> QED
    BY <2>1, <2>2
<1>3. CASE RemoveSelf(t)
  <2>1. Lossy(thr[t].req)
    BY <1>3, ThreadIs DEF RemoveSelf, At, CallOk, CallsAt, Lossy
  <2>2. thr'[t].pc # thr[t].pc
    <3>1. End(t) /\ thr[t].pc = "remove_self"
      BY <1>3 DEF RemoveSelf, At
    <3> QED
      BY <3>1, EndIs
  <2>3. tree' = IF loc = <<>> THEN tree ELSE Without(Below(loc))
    BY <1>3 DEF RemoveSelf, Becomes
  <2> QED
    BY <1>1, <2>1, <2>2, <2>3 DEF TreeStep, Removes
<1>4. CASE Clear(t)
  <2>1. CASE Flag(t, "Overwrite") /\ tree' = Without(Below(thr[t].to))
    <3>1. thr[t].pc = "clear"
      BY <1>4 DEF Clear, At
    <3>2. Lossy(thr[t].req)
      BY <2>1 DEF Flag, Lossy
    <3>3. thr[t].req.call \in {"copy", "move"}
      BY <3>1, ThreadIs DEF CallOk, CallsAt
    <3>4. thr[t].to # <<>>
      BY <2>1, <3>1, <3>3, ThreadIs DEF CallOk, Flag
    <3>5. thr'[t].pc # thr[t].pc
      BY <1>4, <3>1, ClearIs
    <3> QED
      BY <1>1, <2>1, <3>2, <3>4, <3>5 DEF TreeStep, Removes
  <2>2. CASE tree' = tree
    BY <2>2 DEF TreeStep
  <2> QED
    BY <1>4, <2>1, <2>2 DEF Clear, SameTree, Becomes
<1>5. CASE RenameEntry(t)
  <2>1. At(t, "rename") /\ mtx = t
    BY <1>5, ThreadIs DEF RenameEntry, At, HoldsMtx, Holding
  <2> QED
    BY <1>5, <2>1 DEF RenameEntry, SameTree, Becomes, TreeStep, Renames
<1>6. CASE CopyEntry(t)
  <2>1. mtx = t
    BY <1>6, ThreadIs DEF CopyEntry, At, HoldsMtx, Holding
  <2>2. CASE CanCopy(thr[t].from, thr[t].to)
    <3>1. tree' = CopyFile(thr[t].from, thr[t].to)
      BY <1>6, <2>2 DEF CopyEntry, Becomes
    <3> QED
      BY <1>1, <2>1, <2>2, <3>1, CopyFilePuts DEF TreeStep
  <2>3. CASE ~CanCopy(thr[t].from, thr[t].to)
    BY <1>6, <2>3 DEF CopyEntry, SameTree, TreeStep
  <2> QED
    BY <2>2, <2>3
<1>7. CASE Enter(t)
  <2> DEFINE to == Top(t).dst
  <2>1. to \in Seq(Names) /\ mtx = t
    BY <1>7, TopIs DEF Enter, At, Copying
  <2> HIDE DEF to
  <2>2. \/ tree' = tree
        \/ ~Exists(to) /\ Creatable(to) /\ tree' = WithParents(to)
        \/ ~Exists(to) /\ Room(to) /\ tree' = Put(to, Dir)
    BY <1>7 DEF Enter, SameTree, Becomes, to
  <2> QED
    BY <2>1, <2>2 DEF TreeStep, PutsWay, PutsOne
<1>8. CASE Replace(t)
  <2> DEFINE to == Append(Top(t).dst, Top(t).cur)
  <2>1. thr[t].pc = "replace" /\ thr[t].pc \in Copying
    BY <1>8 DEF Replace, At, Copying
  <2>2. Top(t).dst \in Seq(Names) /\ Top(t).cur \in Names
    BY <2>1, TopIs
  <2>3. to \in Seq(Names) /\ to # <<>>
    BY <2>2, AppendIs
  <2>4. \/ tree' = tree
        \/ Flag(t, "Overwrite") /\ Exists(to) /\ Removable(to) /\ tree' = Without({to})
    BY <1>8 DEF Replace, SameTree, Becomes
  <2> HIDE DEF to
  <2>5. CASE Flag(t, "Overwrite") /\ Exists(to) /\ Removable(to) /\ tree' = Without({to})
    <3>1. Below(to) = {to}
      BY <2>3, <2>5, ThreadIs, NothingBelow, PrefixOrder DEF Below, Exists
    <3>2. thr'[t].pc # thr[t].pc
      BY <1>8, <2>1, ReplaceIs
    <3>3. Lossy(thr[t].req)
      BY <2>5 DEF Flag, Lossy
    <3> QED
      BY <2>3, <2>5, <3>1, <3>2, <3>3 DEF TreeStep, Removes
  <2> QED
    BY <2>4, <2>5 DEF TreeStep
<1>9. CASE Fill(t)
  <2> DEFINE from == Append(Top(t).src, Top(t).cur)
             to   == Append(Top(t).dst, Top(t).cur)
  <2>1. thr[t].pc = "fill" /\ thr[t].pc \in Copying
    BY <1>9 DEF Fill, At, Copying
  <2>2. /\ Top(t).src \in Seq(Names) /\ Top(t).dst \in Seq(Names) /\ Top(t).cur \in Names
        /\ mtx = t
    BY <2>1, TopIs
  <2>3. from \in Seq(Names) /\ to \in Seq(Names)
    BY <2>2, AppendIs
  <2>4. tree' = tree \/ (CanCopy(from, to) /\ tree' = CopyFile(from, to))
    BY <1>9 DEF Fill, SameTree, Becomes
  <2> HIDE DEF from, to
  <2> QED
    BY <2>2, <2>3, <2>4, CopyFilePuts DEF TreeStep
<1>10. CASE RemoveDo(t)
  <2> DEFINE p == thr[t].from
  <2>1. /\ thr[t].pc = "remove_do" /\ HoldsMtx(thr[t])
    BY <1>10 DEF RemoveDo, At, HoldsMtx, Holding
  <2>2. thr[t].req.call = "remove" /\ p # <<>>
    BY <2>1, ThreadIs DEF CallOk, CallsAt
  <2>3. tree' = tree \/ (tree' = Without(Below(p)) /\ Done(t))
    BY <1>10 DEF RemoveDo, SameTree, Becomes
  <2>4. CASE tree' = Without(Below(p)) /\ Done(t)
    <3>1. thr'[t].pc # thr[t].pc
      BY <2>1, <2>2, <2>4, DoneIs
    <3>2. CASE Flag(t, "Recursive")
      BY <1>1, <2>2, <2>4, <3>1, <3>2 DEF TreeStep, Removes, Lossy, Flag
    <3>3. CASE ~Flag(t, "Recursive")
      <4>1. \A q \in Below(p) : q = p \/ tree[q] = Dir
        BY <2>1, <3>3 DEF DirInv, StillSo, At
      <4> QED
        BY <1>1, <2>2, <2>4, <3>1, <4>1 DEF TreeStep, Removes, Do
    <3> QED
      BY <3>2, <3>3
  <2> QED
    BY <2>3, <2>4 DEF TreeStep
<1>11. CASE tree' = tree
  BY <1>11 DEF TreeStep
<1>12. \/ MakeDir(t) \/ RemoveSelf(t) \/ Clear(t) \/ RenameEntry(t) \/ CopyEntry(t)
       \/ Enter(t) \/ Replace(t) \/ Fill(t) \/ RemoveDo(t) \/ tree' = tree
  BY DEF Step, CopyCall, MoveCall, MakeDirCall, ChangeDirCall, RemoveSelfCall, RemoveCall,
         Begin, CopyWildcard, MoveWildcard, RemoveWildcard, BeginWild, Lock, ChangeDir,
         WildLock, WildNext, Look, Check, OpenDir, Entry, Leave, RemoveCheck, SameTree
<1> QED
  BY <1>2, <1>3, <1>4, <1>5, <1>6, <1>7, <1>8, <1>9, <1>10, <1>11, <1>12

\* The tree stays one.
LEMMA TreeKept ==
  ASSUME DirInv, NEW t \in Threads, Step(t)
  PROVE  FileSystem(tree')
<1>1. FileSystem(tree) /\ TreeStep(t)
  BY ThreadIs, StepOfTree
<1>2. CASE tree' = tree
  BY <1>1, <1>2
<1>3. CASE PutsOne(t)
  BY <1>1, <1>3, PutKeeps DEF PutsOne
<1>4. CASE Removes(t)
  BY <1>1, <1>4, WithoutBelowKeeps DEF Removes
<1>5. CASE PutsWay(t)
  BY <1>1, <1>5, WithParentsKeeps DEF PutsWay
<1>6. CASE Renames(t)
  <2>1. /\ thr[t].from \in Seq(Names) /\ thr[t].to \in Seq(Names) /\ thr[t].to # <<>>
    BY <1>6, ThreadIs DEF ThreadStates, Renames, At, CallOk
  <2> QED
    BY <1>1, <1>6, <2>1, RenameKeeps DEF Renames
<1> QED
  BY <1>1, <1>2, <1>3, <1>4, <1>5, <1>6 DEF TreeStep

\* What a thread has looked at is kept from the others by mtx_, but for
\* directories they make and subtrees they remove without it.
LEMMA StillSoKept ==
  ASSUME DirInv, NEW t \in Threads, Step(t), NEW u \in Threads
  PROVE  StillSo(u)'
<1>1. ThreadStep(t)
  BY StepOfThread
<1>2. CASE u = t
  <2>1. ASSUME thr'[t].pc = "rename" PROVE NoFile(tree', thr'[t].to)
    <3>1. Check(t) /\ thr'[t].to = thr[t].to /\ ~Exists(thr[t].to)
      BY <2>1, StepOfThread
    <3>2. tree' = tree
      BY <3>1 DEF Check, SameTree
    <3> QED
      BY <3>1, <3>2 DEF NoFile, Exists
  <2>2. ASSUME thr'[t].pc = "remove_do", ~("Recursive" \in thr'[t].req.flags),
               NEW q \in DOMAIN tree', IsPrefix(thr'[t].from, q)
        PROVE  q = thr'[t].from
    <3>1. RemoveCheck(t) /\ thr'[t].from = thr[t].from /\ thr'[t].req = thr[t].req
      BY <2>2, StepOfThread
    <3>2. tree' = tree
      BY <3>1 DEF RemoveCheck, SameTree
    <3>3. ~End(t)
      BY <2>2, EndIs
    <3>4. Exists(thr[t].from) /\ (Removable(thr[t].from) \/ thr[t].req.flags = {"Recursive"})
      BY <3>1, <3>3 DEF RemoveCheck
    <3>5. Removable(thr[t].from)
      BY <2>2, <3>1, <3>4
    <3>6. thr[t].from \in Seq(Names)
      BY ThreadIs DEF ThreadStates
    <3> QED
      BY <2>2, <3>1, <3>2, <3>4, <3>5, <3>6, ThreadIs, NothingBelow
  <2> QED
    BY <1>2, <2>1, <2>2 DEF StillSo, At, Flag, Below
<1>3. CASE u # t
  <2>1. thr'[u] = thr[u]
    BY <1>1, <1>3, ThreadIs DEF ThreadStep
  <2>2. CASE thr[u].pc \notin {"rename", "remove_do"}
    BY <2>1, <2>2 DEF StillSo, At
  <2>3. CASE thr[u].pc \in {"rename", "remove_do"}
    <3>1. mtx # t
      BY <1>3, <2>3, ThreadIs DEF HoldsMtx, Holding
    <3>2. /\ DOMAIN tree' \subseteq DOMAIN tree \cup {q \in DOMAIN tree' : tree'[q] = Dir}
          /\ \A q \in DOMAIN tree' : q \in DOMAIN tree /\ tree'[q] # Dir => tree'[q] = tree[q]
          /\ \A q \in DOMAIN tree' : q \in DOMAIN tree => tree'[q] \in {tree[q], Dir}
      <4>1. tree' = tree \/ PutsOne(t) \/ Removes(t)
        BY <3>1, StepOfTree DEF TreeStep, PutsWay, Renames
      <4>2. CASE PutsOne(t)
        <5>1. PICK p \in Seq(Names) : tree' = Put(p, Dir)
          BY <3>1, <4>2 DEF PutsOne
        <5> QED
          BY <5>1 DEF Put
      <4>3. CASE Removes(t)
        BY <4>3 DEF Removes, Without
      <4> QED
        BY <4>1, <4>2, <4>3
    <3>3. StillSo(u)
      BY DEF DirInv
    <3>4. ASSUME thr[u].pc = "rename" PROVE NoFile(tree', thr[u].to)
      BY <3>2, <3>3, <3>4 DEF StillSo, At, NoFile
    <3>5. ASSUME thr[u].pc = "remove_do", ~("Recursive" \in thr[u].req.flags),
                 NEW q \in DOMAIN tree', IsPrefix(thr[u].from, q)
          PROVE  q = thr[u].from \/ tree'[q] = Dir
      BY <3>2, <3>3, <3>5 DEF StillSo, At, Flag, Below
    <3> QED
      BY <2>1, <3>4, <3>5 DEF StillSo, At, Flag, Below
  <2> QED
    BY <2>2, <2>3
<1> QED
  BY <1>2, <1>3

\* The location is a path.
LEMMA ObjectKept ==
  ASSUME DirInv, NEW t \in Threads, Step(t)
  PROVE  loc' \in Paths /\ isOpen' = isOpen
<1>1. loc \in Paths
  BY DEF DirInv, TypeOK
<1>2. CASE ChangeDir(t)
  <2>1. loc' = IF IsDir(thr[t].from) THEN thr[t].from ELSE loc
    BY <1>2 DEF ChangeDir
  <2>2. DOMAIN tree \subseteq Paths
    BY ThreadIs DEF FileSystem
  <2> QED
    BY <1>1, <1>2, <2>1, <2>2 DEF ChangeDir, IsDir, Exists
<1>3. CASE UNCHANGED Object
  BY <1>1, <1>3 DEF Object
<1>4. ChangeDir(t) \/ UNCHANGED Object
  BY DEF Step, CopyCall, MoveCall, MakeDirCall, ChangeDirCall, RemoveSelfCall, RemoveCall,
         Begin, CopyWildcard, MoveWildcard, RemoveWildcard, BeginWild, Lock, MakeDir,
         RemoveSelf, WildLock, WildNext, Look, Clear, Check, RenameEntry, CopyEntry, Enter,
         OpenDir, Entry, Replace, Fill, Leave, RemoveCheck, RemoveDo, Object
<1> QED
  BY <1>2, <1>3, <1>4

\* Initially.
LEMMA DirInit == ASSUME Init PROVE DirInv
<1>1. FileSystem(tree)
  BY DEF Init
<1>2. \A t \in Threads : thr[t] = Idle
  BY DEF Init
<1>3. thr \in [Threads -> ThreadStates]
  BY IdleIs DEF Init
<1>4. loc \in Paths /\ isOpen \in BOOLEAN
  BY PathsAre, EmptySeq DEF Init
<1>5. inst \in Threads \cup {None} /\ mtx \in Threads \cup {None}
  BY DEF Init
<1>6. TypeOK
  BY <1>1, <1>3, <1>4, <1>5 DEF TypeOK, ThreadStates
<1>7. \A t \in Threads : CallOk(thr[t]) /\ ~HoldsMtx(thr[t])
  BY <1>2, IdleIs
<1>8. \A t \in Threads : StillSo(t)
  BY <1>2 DEF StillSo, At, Idle
<1> QED
  BY <1>6, <1>7, <1>8 DEF DirInv

\* Every step keeps the invariant.
LEMMA DirStep ==
  ASSUME DirInv, [Next]_vars
  PROVE  DirInv'
<1>1. ASSUME NEW t \in Threads, Step(t) PROVE DirInv'
  <2>1. ThreadStep(t)
    BY <1>1, StepOfThread
  <2>2. thr' \in [Threads -> ThreadStates]
    BY <2>1, ThreadIs DEF ThreadStep
  <2>3. TypeOK'
    <3>1. mtx' \in Threads \cup {None} /\ inst' \in Threads \cup {None}
      BY <2>1 DEF ThreadStep, DirInv, TypeOK
    <3>2. loc' \in Paths /\ isOpen' \in BOOLEAN
      BY <1>1, ObjectKept DEF DirInv, TypeOK
    <3>3. FileSystem(tree')
      BY <1>1, TreeKept
    <3> QED
      BY <2>2, <3>1, <3>2, <3>3 DEF TypeOK, ThreadStates, FileSystem
  <2>4. ASSUME NEW u \in Threads PROVE CallOk(thr'[u]) /\ (HoldsMtx(thr'[u]) => mtx' = u)
    <3>1. CASE u = t
      BY <2>1, <3>1 DEF ThreadStep
    <3>2. CASE u # t
      <4>1. thr'[u] = thr[u]
        BY <2>1, <3>2, ThreadIs DEF ThreadStep
      <4>2. CallOk(thr[u]) /\ (HoldsMtx(thr[u]) => mtx = u)
        BY ThreadIs
      <4>3. mtx = u => mtx' = u
        BY <2>1, <3>2 DEF ThreadStep
      <4> QED
        BY <4>1, <4>2, <4>3
    <3> QED
      BY <3>1, <3>2
  <2>5. \A u \in Threads : StillSo(u)'
    BY <1>1, StillSoKept
  <2> QED
    BY <2>3, <2>4, <2>5 DEF DirInv, CallOk, HoldsMtx
<1>2. CASE Close
  BY <1>2 DEF Close, DirInv, TypeOK, FileSystem, CallOk, HoldsMtx, StillSo, At, Flag, NoFile,
              Below
<1>3. CASE UNCHANGED vars
  BY <1>3 DEF vars, DirInv, TypeOK, FileSystem, CallOk, HoldsMtx, StillSo, At, Flag, NoFile,
              Below
<1> QED
  BY <1>1, <1>2, <1>3 DEF Next

-----------------------------------------------------------------------------
(* The theorems.                                                            *)

\* It holds always: the fact the theorems below rest on.
THEOREM DirectoryInvariant == Spec => []DirInv
<1>1. Init => DirInv
  BY DirInit
<1>2. DirInv /\ [Next]_vars => DirInv'
  BY DirStep
<1> QED
  BY <1>1, <1>2, PTL DEF Spec

\* Type correctness; whatever threads copy, move, make and remove at a time, the
\* file system stays a tree (namespace_dir_cpi_impl, Boost.Filesystem).
THEOREM DirectoryTypes == Spec => []TypeOK
<1>1. DirInv => TypeOK
  BY DEF DirInv
<1> QED
  BY <1>1, DirectoryInvariant, PTL

\* Without a call that may do so no content of a file vanishes (copy, move and
\* remove, default_namespace_dir_impl.hpp): a new entry replaces nothing, a move
\* replaces no file as mtx_ is held since its second look, and a removal without
\* Recursive takes nothing with it but directories that were made meanwhile.
THEOREM ContentIsKept == Spec => NothingLost
<1> DEFINE Vanishes(p) == /\ tree[p] \notin {Dir, Empty}
                          /\ \A q \in DOMAIN tree' : tree'[q] # tree[p]
           Allowed(t, p) == /\ thr'[t] # thr[t]
                            /\ Lossy(thr[t].req) \/ (Do(t, "remove") /\ thr[t].from = p)
<1>1. ASSUME DirInv, NEW t \in Threads, Step(t), NEW p \in DOMAIN tree, Vanishes(p)
      PROVE  Allowed(t, p)
  <2>1. TreeStep(t) /\ p \in Seq(Names)
    BY <1>1, StepOfTree, ThreadIs, TreeIs
  <2>2. ASSUME NEW q \in DOMAIN tree', tree'[q] = tree[p] PROVE FALSE
    BY <1>1, <2>2
  <2>3. CASE tree' = tree
    BY <2>2, <2>3
  <2>4. CASE PutsOne(t)
    <3>1. p \in DOMAIN tree' /\ tree'[p] = tree[p]
      BY <2>4 DEF PutsOne, Put, Exists
    <3> QED
      BY <2>2, <3>1
  <2>5. CASE PutsWay(t)
    <3>1. p \in DOMAIN tree' /\ tree'[p] = tree[p]
      BY <2>5 DEF PutsWay, WithParents, Exists
    <3> QED
      BY <2>2, <3>1
  <2>6. CASE Removes(t)
    <3>1. PICK r \in Seq(Names) :
            /\ tree' = Without(Below(r)) /\ thr'[t].pc # thr[t].pc
            /\ \/ Lossy(thr[t].req)
               \/ /\ Do(t, "remove") /\ r = thr[t].from
                  /\ \A q \in Below(r) : q = r \/ tree[q] = Dir
      BY <2>6 DEF Removes
    <3>2. p \in Below(r)
      <4>1. p \notin Below(r) => p \in DOMAIN tree' /\ tree'[p] = tree[p]
        BY <3>1 DEF Without
      <4> QED
        BY <2>2, <4>1
    <3> QED
      BY <1>1, <3>1, <3>2
  <2>7. CASE Renames(t)
    <3> DEFINE from == thr[t].from
               to   == thr[t].to
               moved == {to \o Tail2(from, q) : q \in Below(from)}
    <3>1. from \in Seq(Names) /\ to \in Seq(Names) /\ NoFile(tree, to)
      BY <1>1, <2>7, ThreadIs DEF ThreadStates, Renames, DirInv, StillSo
    <3>2. /\ DOMAIN tree' = (DOMAIN tree \ Below(from)) \cup moved
          /\ \A q \in Below(from) : tree'[to \o Tail2(from, q)] = tree[q]
          /\ \A q \in DOMAIN tree \ Below(from) : q # to => tree'[q] = tree[q]
      BY <1>1, <2>7, <3>1, ThreadIs, RenameIs DEF Renames
    <3>3. CASE p \in Below(from)
      <4>1. to \o Tail2(from, p) \in moved
        BY <3>3
      <4> HIDE DEF moved
      <4> QED
        BY <2>2, <3>2, <3>3, <4>1
    <3>4. CASE p \notin Below(from)
      <4>1. p # to
        BY <1>1, <3>1 DEF NoFile
      <4> HIDE DEF moved
      <4> QED
        BY <2>2, <3>2, <3>4, <4>1
    <3> QED
      BY <3>3, <3>4
  <2> QED
    BY <2>1, <2>3, <2>4, <2>5, <2>6, <2>7 DEF TreeStep
<1>2. DirInv /\ [Next]_vars =>
        [\A p \in DOMAIN tree :
           (tree[p] \notin {Dir, Empty} /\ \A q \in DOMAIN tree' : tree'[q] # tree[p]) =>
             \E t \in Threads :
               /\ thr'[t] # thr[t]
               /\ Lossy(thr[t].req) \/ (Do(t, "remove") /\ thr[t].from = p)]_vars
  <2>1. SUFFICES ASSUME DirInv, Next, NEW p \in DOMAIN tree, Vanishes(p)
                 PROVE  \E t \in Threads : Allowed(t, p)
    OBVIOUS
  <2>2. CASE Close
    BY <2>1, <2>2 DEF Close
  <2>3. CASE \E t \in Threads : Step(t)
    BY <1>1, <2>1, <2>3
  <2> QED
    BY <2>1, <2>2, <2>3 DEF Next
<1> QED
  BY <1>2, DirectoryInvariant, PTL DEF Spec, NothingLost

-----------------------------------------------------------------------------
(* The copy of a directory: where it has come to.                           *)

HIDE DirectoryAssumption

\* Two ancestors of a path, one of them above the other.
LEMMA Comparable ==
  ASSUME NEW p \in Seq(Names), NEW q \in Seq(Names), NEW r \in Seq(Names),
         IsPrefix(p, r), IsPrefix(q, r)
  PROVE  IsPrefix(p, q) \/ IsPrefix(q, p)
<1>1. Len(p) \in Nat /\ Len(q) \in Nat /\ Len(r) \in Nat
  BY LenProperties
<1>2. /\ Len(p) <= Len(r) /\ \A i \in 1..Len(p) : p[i] = r[i]
      /\ Len(q) <= Len(r) /\ \A i \in 1..Len(q) : q[i] = r[i]
  BY PrefixPointwise
<1>3. CASE Len(p) <= Len(q)
  BY <1>1, <1>2, <1>3, PrefixPointwise
<1>4. CASE Len(q) <= Len(p)
  BY <1>1, <1>2, <1>4, PrefixPointwise
<1> QED
  BY <1>1, <1>3, <1>4

\* The first entry on the way from a directory to what is below it.
LEMMA NextOnWay ==
  ASSUME NEW p \in Seq(Names), NEW q \in Seq(Names), IsPrefix(p, q), p # q
  PROVE  \E n \in Names : IsPrefix(Append(p, n), q)
<1>1. Len(p) \in Nat /\ Len(q) \in Nat
  BY LenProperties
<1>2. Len(p) <= Len(q) /\ \A i \in 1..Len(p) : p[i] = q[i]
  BY PrefixPointwise
<1>3. Len(p) + 1 \in 1..Len(q)
  <2>1. Len(p) # Len(q)
    BY PrefixOrder
  <2> QED
    BY <1>1, <1>2, <2>1
<1> DEFINE n == q[Len(p) + 1]
           a == Append(p, n)
<1>4. n \in Names
  BY <1>3, ElementOfSeq
<1> HIDE DEF n
<1>5. /\ a \in Seq(Names) /\ Len(a) = Len(p) + 1
      /\ \A i \in 1..Len(p) : a[i] = p[i]
      /\ a[Len(p) + 1] = n
  BY <1>4, AppendProperties
<1> HIDE DEF a
<1>6. Len(a) <= Len(q) /\ \A i \in 1..Len(a) : a[i] = q[i]
  BY <1>1, <1>2, <1>3, <1>5 DEF n
<1>7. IsPrefix(a, q)
  BY <1>5, <1>6, PrefixPointwise
<1> QED
  BY <1>4, <1>7 DEF a

\* What is moved keeps its order.
LEMMA MovedPrefix ==
  ASSUME NEW p \in Seq(Names), NEW q \in Seq(Names), NEW r \in Seq(Names), NEW to \in Seq(Names),
         IsPrefix(p, q), IsPrefix(q, r)
  PROVE  IsPrefix(to \o Tail2(p, q), to \o Tail2(p, r))
<1> DEFINE a == to \o Tail2(p, q)
           c == to \o Tail2(p, r)
<1>1. IsPrefix(p, r)
  BY PrefixOrder
<1>2. /\ a \in Seq(Names) /\ Len(a) = Len(to) + Len(q) - Len(p)
      /\ \A i \in 1..Len(to) : a[i] = to[i]
      /\ \A i \in 1..(Len(q) - Len(p)) : a[Len(to) + i] = q[Len(p) + i]
  BY MovedIs
<1>3. /\ c \in Seq(Names) /\ Len(c) = Len(to) + Len(r) - Len(p)
      /\ \A i \in 1..Len(to) : c[i] = to[i]
      /\ \A i \in 1..(Len(r) - Len(p)) : c[Len(to) + i] = r[Len(p) + i]
  BY <1>1, MovedIs
<1> HIDE DEF a, c
<1>4. /\ Len(p) \in Nat /\ Len(q) \in Nat /\ Len(r) \in Nat /\ Len(to) \in Nat
      /\ Len(p) <= Len(q) /\ Len(q) <= Len(r) /\ \A i \in 1..Len(q) : q[i] = r[i]
  BY LenProperties, PrefixPointwise
<1>5. ASSUME NEW i \in 1..Len(a) PROVE a[i] = c[i]
  <2>1. CASE i <= Len(to)
    BY <1>2, <1>3, <1>4, <2>1
  <2>2. CASE ~(i <= Len(to))
    <3> DEFINE k == i - Len(to)
    <3>1. /\ k \in 1..(Len(q) - Len(p)) /\ k \in 1..(Len(r) - Len(p)) /\ i = Len(to) + k
          /\ Len(p) + k \in 1..Len(q)
      BY <1>2, <1>4, <2>2
    <3> HIDE DEF k
    <3> QED
      BY <1>2, <1>3, <1>4, <3>1
  <2> QED
    BY <2>1, <2>2
<1>6. Len(a) <= Len(c)
  BY <1>2, <1>3, <1>4
<1>7. IsPrefix(a, c)
  BY <1>2, <1>3, <1>5, <1>6, PrefixPointwise
<1> QED
  BY <1>7 DEF a, c

\* A copy of x.from to x.to: where an entry goes, and which entries are copied.
Image(x, q)  == x.to \o Tail2(x.from, q)
Origin(x, r) == x.from \o Tail2(x.to, r)
Selected(b, x) ==
  {q \in DOMAIN b : /\ IsPrefix(x.from, q) /\ q # x.from
                    /\ "Recursive" \in x.req.flags \/ (b[q] # Dir /\ Front(q) = x.from)}

\* What the calls of copy_directory on the stack have still to do.
Pending(x, q) ==
  \/ \E i \in 1..Len(x.stack) : \E n \in x.stack[i].left :
       IsPrefix(Append(x.stack[i].src, n), q)
  \/ x.pc = "enter" /\ IsPrefix(x.stack[1].src, q)
  \/ x.pc = "open" /\ IsPrefix(x.stack[1].src, q) /\ q # x.stack[1].src
  \/ x.pc \in {"replace", "fill"} /\ q = Append(x.stack[1].src, x.stack[1].cur)

\* Every call copies a directory of the tree b to its image, the oldest x.from.
FrameOk(b, x, i) ==
  LET f == x.stack[i] IN
  /\ f.dst = Image(x, f.src)
  /\ \/ i = Len(x.stack) /\ f.src = x.from
     \/ i < Len(x.stack) /\ f.src \in Selected(b, x) /\ b[f.src] = Dir
  /\ \A n \in f.left : Append(f.src, n) \in DOMAIN b
FramesOk(b, x) ==
  /\ x.from \in DOMAIN b /\ b[x.from] = Dir
  /\ \A i \in 1..Len(x.stack) : FrameOk(b, x, i)
  /\ x.pc \in {"replace", "fill"} =>
       LET q == Append(x.stack[1].src, x.stack[1].cur) IN q \in DOMAIN b /\ b[q] # Dir

\* What the tree tr, once b, has become: nothing changes but the images and
\* the way to the target, which are what they shall be when nothing is pending.
Outer(b, tr, x, p) ==
  \/ \E q \in Selected(b, x) : p = Image(x, q)
  \/ p \in DOMAIN b /\ p \in DOMAIN tr /\ tr[p] = b[p]
  \/ p \notin DOMAIN b /\ IsPrefix(p, x.to) /\ tr[p] = Dir
Opened(tr, x) == Len(x.stack) > 1 \/ x.pc \notin {"enter", "open"} => x.to \in DOMAIN tr
Inner(b, tr, x, q) ==
  /\ b[q] = Dir /\ Image(x, q) \in DOMAIN tr => tr[Image(x, q)] = Dir
  /\ Pending(x, q) \/ (Image(x, q) \in DOMAIN tr /\ tr[Image(x, q)] = b[q])
Written(b, tr, x) ==
  /\ \A p \in DOMAIN b \cup DOMAIN tr : Outer(b, tr, x, p)
  /\ Opened(tr, x)
  /\ \A q \in Selected(b, x) : Inner(b, tr, x, q)

Undisturbed(b, x) ==
  /\ ~IsPrefix(x.from, x.to) /\ ~IsPrefix(x.to, x.from)
  /\ ~FileInTheWay(b, x.from, x.to)
CopyOk(b, tr, x) == FileSystem(b) /\ FramesOk(b, x) /\ Written(b, tr, x)

\* Images: of the source, of an entry, of two entries.
LEMMA ImageIs ==
  ASSUME NEW x, x.from \in Seq(Names), x.to \in Seq(Names),
         NEW q \in Seq(Names), IsPrefix(x.from, q)
  PROVE  /\ Image(x, q) \in Seq(Names) /\ IsPrefix(x.to, Image(x, q))
         /\ Origin(x, Image(x, q)) = q
         /\ q = x.from => Image(x, q) = x.to
         /\ q # x.from => Image(x, q) # x.to
<1> DEFINE r == Image(x, q)
<1>1. r \in Seq(Names) /\ Len(r) = Len(x.to) + Len(q) - Len(x.from)
  BY MovedIs DEF Image
<1>2. IsPrefix(x.to, r) /\ Origin(x, r) = q
  BY MoveBack DEF Image, Origin
<1> HIDE DEF r
<1>3. Len(x.to) \in Nat /\ Len(q) \in Nat /\ Len(x.from) \in Nat
  BY LenProperties
<1>4. q = x.from => r = x.to
  BY <1>1, <1>2, <1>3, PrefixOrder
<1>5. q # x.from => r # x.to
  BY <1>1, <1>3, PrefixOrder
<1> QED
  BY <1>1, <1>2, <1>4, <1>5 DEF r

\* What is moved takes its entries with it.
LEMMA MovedAppend ==
  ASSUME NEW p \in Seq(Names), NEW q \in Seq(Names), NEW to \in Seq(Names), IsPrefix(p, q),
         NEW n \in Names
  PROVE  to \o Tail2(p, Append(q, n)) = Append(to \o Tail2(p, q), n)
<1> DEFINE a == Append(q, n)
           moved(s) == to \o Tail2(p, s)
           r == moved(a)
<1>1. /\ a \in Seq(Names) /\ Front(a) = q /\ IsPrefix(q, a) /\ q # a
      /\ Len(a) = Len(q) + 1 /\ a[Len(q) + 1] = n
  BY AppendIs, AppendProperties
<1> HIDE DEF a
<1>2. IsPrefix(p, a)
  BY <1>1, PrefixOrder
<1>3. p # a
  <2>1. IsPrefix(a, q) => a = q
    BY <1>1, PrefixOrder
  <2> QED
    BY <1>1, <2>1
<1>4. ASSUME NEW s \in Seq(Names), IsPrefix(p, s), p # s
      PROVE  moved(s) # <<>> /\ Front(moved(s)) = moved(Front(s))
  BY <1>4, MovedFront
<1>5. ASSUME NEW s \in Seq(Names), IsPrefix(p, s)
      PROVE  /\ moved(s) \in Seq(Names) /\ Len(moved(s)) = Len(to) + Len(s) - Len(p)
             /\ \A i \in 1..(Len(s) - Len(p)) : moved(s)[Len(to) + i] = s[Len(p) + i]
  BY <1>5, MovedIs
<1> HIDE DEF moved
<1>6. r # <<>> /\ Front(r) = moved(q)
  BY <1>1, <1>2, <1>3, <1>4
<1>7. /\ r \in Seq(Names) /\ Len(r) = Len(to) + Len(a) - Len(p)
      /\ \A i \in 1..(Len(a) - Len(p)) : r[Len(to) + i] = a[Len(p) + i]
  BY <1>1, <1>2, <1>5
<1> HIDE DEF r
<1>8. Len(to) \in Nat /\ Len(q) \in Nat /\ Len(p) \in Nat /\ Len(p) <= Len(q)
  BY LenProperties, PrefixPointwise
<1>9. Last(r) = n
  <2> DEFINE k == Len(q) + 1 - Len(p)
  <2>1. /\ k \in 1..(Len(a) - Len(p)) /\ Len(to) + k = Len(r) /\ Len(p) + k = Len(q) + 1
    BY <1>1, <1>7, <1>8
  <2> HIDE DEF k
  <2>2. r[Len(r)] = n
    BY <1>1, <1>7, <2>1
  <2> QED
    BY <2>2 DEF Last
<1> QED
  BY <1>6, <1>7, <1>9, FrontLast DEF r, moved, a

\* The image of an entry is the entry of the image.
LEMMA ImageOfEntry ==
  ASSUME NEW x, x.from \in Seq(Names), x.to \in Seq(Names),
         NEW q \in Seq(Names), IsPrefix(x.from, q), NEW n \in Names
  PROVE  Image(x, Append(q, n)) = Append(Image(x, q), n)
BY MovedAppend DEF Image

\* What lies between the target and an image is an image.
LEMMA ImageBetween ==
  ASSUME NEW x, x.from \in Seq(Names), x.to \in Seq(Names),
         NEW q \in Seq(Names), IsPrefix(x.from, q),
         NEW r \in Seq(Names), IsPrefix(x.to, r), r # x.to, IsPrefix(r, Image(x, q))
  PROVE  \E s \in Seq(Names) : /\ IsPrefix(x.from, s) /\ s # x.from /\ IsPrefix(s, q)
                               /\ r = Image(x, s)
<1> DEFINE s == x.from \o Tail2(x.to, r)
<1>1. s \in Seq(Names)
  BY MovedIs
<1>2. IsPrefix(x.from, s) /\ Image(x, s) = r
  BY MoveBack DEF Image
<1>3. /\ Image(x, q) \in Seq(Names) /\ IsPrefix(x.to, Image(x, q))
      /\ Origin(x, Image(x, q)) = q
  BY ImageIs
<1>4. IsPrefix(s, q)
  <2>1. IsPrefix(x.from \o Tail2(x.to, r), x.from \o Tail2(x.to, Image(x, q)))
    BY <1>3, MovedPrefix
  <2> QED
    BY <1>3, <2>1 DEF Origin
<1> HIDE DEF s
<1>5. s # x.from
  BY <1>1, <1>2, ImageIs
<1> QED
  BY <1>1, <1>2, <1>4, <1>5

\* The paths of a tree.
LEMMA FileSystemIs ==
  ASSUME NEW b, FileSystem(b)
  PROVE  /\ \A p \in DOMAIN b : p \in Seq(Names) /\ p \in Paths
         /\ <<>> \in DOMAIN b /\ b[<<>>] = Dir
  BY PathsAre DEF FileSystem

\* What is copied, and where to: below the target, one image for each.
LEMMA SelectedIs ==
  ASSUME NEW x \in ThreadStates, NEW b, FileSystem(b), NEW q \in Selected(b, x)
  PROVE  /\ x.from \in Seq(Names) /\ x.to \in Seq(Names)
         /\ q \in DOMAIN b /\ q \in Seq(Names) /\ IsPrefix(x.from, q) /\ q # x.from
         /\ "Recursive" \in x.req.flags \/ (b[q] # Dir /\ Front(q) = x.from)
         /\ Image(x, q) \in Seq(Names) /\ IsPrefix(x.to, Image(x, q)) /\ Image(x, q) # x.to
         /\ ~IsPrefix(Image(x, q), x.to)
         /\ Origin(x, Image(x, q)) = q
<1>1. x.from \in Seq(Names) /\ x.to \in Seq(Names)
  BY DEF ThreadStates
<1>2. /\ q \in DOMAIN b /\ q \in Seq(Names) /\ IsPrefix(x.from, q) /\ q # x.from
      /\ "Recursive" \in x.req.flags \/ (b[q] # Dir /\ Front(q) = x.from)
  BY FileSystemIs DEF Selected
<1>3. /\ Image(x, q) \in Seq(Names) /\ IsPrefix(x.to, Image(x, q)) /\ Image(x, q) # x.to
      /\ Origin(x, Image(x, q)) = q
  BY <1>1, <1>2, ImageIs
<1>4. ~IsPrefix(Image(x, q), x.to)
  BY <1>1, <1>3, PrefixOrder
<1> QED
  BY <1>1, <1>2, <1>3, <1>4

\* What is copied stays as it was.
LEMMA SourceSame ==
  ASSUME NEW x \in ThreadStates, NEW b, NEW tr, FileSystem(b), FileSystem(tr),
         Undisturbed(b, x), Written(b, tr, x), NEW p \in Seq(Names), IsPrefix(x.from, p)
  PROVE  /\ p \in DOMAIN tr <=> p \in DOMAIN b
         /\ p \in DOMAIN b => tr[p] = b[p]
<1>1. x.from \in Seq(Names) /\ x.to \in Seq(Names)
  BY DEF ThreadStates
<1>2. ~IsPrefix(p, x.to)
  BY <1>1, PrefixOrder DEF Undisturbed
<1>3. ASSUME NEW q \in Selected(b, x) PROVE p # Image(x, q)
  <2>1. SUFFICES ASSUME p = Image(x, q) PROVE FALSE
    OBVIOUS
  <2>2. IsPrefix(x.to, p)
    BY <2>1, SelectedIs
  <2> QED
    BY <1>1, <2>2, Comparable DEF Undisturbed
<1>4. p \in DOMAIN b \cup DOMAIN tr => Outer(b, tr, x, p)
  BY DEF Written
<1> QED
  BY <1>2, <1>3, <1>4 DEF Outer

\* A step of the copy: what it may change.
Allowed(b, tr, tr2, x, y, p) ==
  \/ p \in DOMAIN tr /\ p \in DOMAIN tr2 /\ tr2[p] = tr[p]
  \/ p \notin DOMAIN tr /\ p \in DOMAIN tr2 /\ IsPrefix(p, x.to) /\ tr2[p] = Dir
  \/ \E q \in Selected(b, x) :
       /\ p = Image(x, q)
       /\ b[q] = Dir /\ p \in DOMAIN tr2 => tr2[p] = Dir
       /\ Pending(y, q) \/ (p \in DOMAIN tr2 /\ tr2[p] = b[q])

\* A step that changes only what is allowed, and does what is no longer pending.
LEMMA WrittenStep ==
  ASSUME NEW x \in ThreadStates, NEW y, NEW b, NEW tr, NEW tr2, FileSystem(b),
         Written(b, tr, x),
         y.from = x.from, y.to = x.to, y.req = x.req,
         \A p \in DOMAIN tr \cup DOMAIN tr2 : Allowed(b, tr, tr2, x, y, p),
         \A q \in Selected(b, x) : Pending(x, q) =>
           Pending(y, q) \/ (Image(x, q) \in DOMAIN tr2 /\ tr2[Image(x, q)] = b[q]),
         Opened(tr2, y)
  PROVE  Written(b, tr2, y)
<1>1. Selected(b, y) = Selected(b, x) /\ \A q : Image(y, q) = Image(x, q)
  BY DEF Selected, Image
<1>2. ASSUME NEW q \in Selected(b, x), NEW r \in Selected(b, x), Image(x, q) = Image(x, r)
      PROVE  q = r
  <2>1. Origin(x, Image(x, q)) = q
    BY SelectedIs
  <2>2. Origin(x, Image(x, r)) = r
    BY SelectedIs
  <2> QED
    BY <1>2, <2>1, <2>2
<1>3. ASSUME NEW p \in DOMAIN b \cup DOMAIN tr2 PROVE Outer(b, tr2, x, p)
  <2>1. CASE \E q \in Selected(b, x) : p = Image(x, q)
    BY <2>1 DEF Outer
  <2>2. CASE ~\E q \in Selected(b, x) : p = Image(x, q)
    <3>1. CASE p \in DOMAIN tr
      <4>1. p \in DOMAIN tr2 /\ tr2[p] = tr[p]
        BY <2>2, <3>1 DEF Allowed
      <4>2. Outer(b, tr, x, p)
        BY <3>1 DEF Written
      <4> QED
        BY <2>2, <4>1, <4>2 DEF Outer
    <3>2. CASE p \notin DOMAIN tr
      <4>1. p \notin DOMAIN b
        <5>1. p \in DOMAIN b => Outer(b, tr, x, p)
          BY DEF Written
        <5> QED
          BY <2>2, <3>2, <5>1 DEF Outer
      <4>2. p \in DOMAIN tr2
        BY <1>3, <4>1
      <4>3. Allowed(b, tr, tr2, x, y, p)
        BY <4>2
      <4> QED
        BY <2>2, <3>2, <4>1, <4>3 DEF Allowed, Outer
    <3> QED
      BY <3>1, <3>2
  <2> QED
    BY <2>1, <2>2
<1>4. ASSUME NEW q \in Selected(b, x)
      PROVE  /\ b[q] = Dir /\ Image(x, q) \in DOMAIN tr2 => tr2[Image(x, q)] = Dir
             /\ Pending(y, q) \/ (Image(x, q) \in DOMAIN tr2 /\ tr2[Image(x, q)] = b[q])
  <2> DEFINE p == Image(x, q)
  <2>1. Inner(b, tr, x, q)
    BY DEF Written
  <2>2. CASE p \in DOMAIN tr /\ p \in DOMAIN tr2 /\ tr2[p] = tr[p]
    BY <2>1, <2>2 DEF Inner
  <2>3. CASE \E r \in Selected(b, x) :
               /\ p = Image(x, r)
               /\ b[r] = Dir /\ p \in DOMAIN tr2 => tr2[p] = Dir
               /\ Pending(y, r) \/ (p \in DOMAIN tr2 /\ tr2[p] = b[r])
    BY <1>2, <2>3
  <2>4. CASE p \notin DOMAIN tr /\ p \notin DOMAIN tr2
    BY <2>1, <2>4 DEF Inner
  <2>5. CASE p \notin DOMAIN tr /\ p \in DOMAIN tr2 /\ IsPrefix(p, x.to) /\ tr2[p] = Dir
    BY <2>5, SelectedIs
  <2>6. p \in DOMAIN tr \cup DOMAIN tr2 => Allowed(b, tr, tr2, x, y, p)
    OBVIOUS
  <2> QED
    BY <2>2, <2>3, <2>4, <2>5, <2>6 DEF Allowed
<1>5. \A p \in DOMAIN b \cup DOMAIN tr2 : Outer(b, tr2, y, p)
  BY <1>1, <1>3 DEF Outer
<1>6. \A q \in Selected(b, y) : Inner(b, tr2, y, q)
  BY <1>1, <1>4 DEF Inner
<1> QED
  BY <1>5, <1>6 DEF Written

\* The calls on the stack: where they copy from and to, that the copy of
\* a directory below the source is recursive.
LEMMA FrameIs ==
  ASSUME NEW x \in ThreadStates, NEW b, FileSystem(b), FramesOk(b, x),
         NEW i \in 1..Len(x.stack)
  PROVE  /\ x.stack[i].src \in Seq(Names) /\ IsPrefix(x.from, x.stack[i].src)
         /\ x.stack[i].src \in DOMAIN b /\ b[x.stack[i].src] = Dir
         /\ x.stack[i].dst = Image(x, x.stack[i].src)
         /\ x.stack[i].left \subseteq Names
         /\ x.stack[i].src # x.from => "Recursive" \in x.req.flags
<1> DEFINE f == x.stack[i]
<1>1. x.from \in Seq(Names) /\ f \in Frames
  <2>1. x.stack \in Seq(Frames)
    BY DEF ThreadStates
  <2> QED
    BY <2>1, ElementOfSeq DEF ThreadStates
<1>2. f.src \in Seq(Names) /\ f.left \subseteq Names
  BY <1>1 DEF Frames
<1>3. FrameOk(b, x, i) /\ x.from \in DOMAIN b /\ b[x.from] = Dir
  BY DEF FramesOk
<1>4. CASE f.src = x.from
  BY <1>1, <1>2, <1>3, <1>4, PrefixOrder DEF FrameOk
<1>5. CASE f.src # x.from
  <2>1. f.src \in Selected(b, x) /\ b[f.src] = Dir
    BY <1>3, <1>5 DEF FrameOk
  <2> DEFINE s == f.src
  <2>2. s \in Selected(b, x) /\ b[s] = Dir
    BY <2>1
  <2> HIDE DEF s
  <2>3. s \in DOMAIN b /\ IsPrefix(x.from, s) /\ "Recursive" \in x.req.flags
    BY <2>2, SelectedIs
  <2> QED
    BY <1>2, <1>3, <2>1, <2>3 DEF FrameOk, s
<1> QED
  BY <1>4, <1>5

\* An entry that is copied.
LEMMA EntrySelected ==
  ASSUME NEW x \in ThreadStates, NEW b, FileSystem(b), FramesOk(b, x),
         NEW i \in 1..Len(x.stack), NEW n \in Names, Append(x.stack[i].src, n) \in DOMAIN b,
         b[Append(x.stack[i].src, n)] # Dir \/ "Recursive" \in x.req.flags
  PROVE  /\ Append(x.stack[i].src, n) \in Selected(b, x)
         /\ Append(x.stack[i].dst, n) = Image(x, Append(x.stack[i].src, n))
<1> DEFINE s == x.stack[i].src
           q == Append(s, n)
<1>1. /\ s \in Seq(Names) /\ IsPrefix(x.from, s) /\ x.stack[i].dst = Image(x, s)
      /\ s # x.from => "Recursive" \in x.req.flags
      /\ x.from \in Seq(Names) /\ x.to \in Seq(Names)
  BY FrameIs DEF ThreadStates
<1> HIDE DEF s
<1>2. q \in Seq(Names) /\ Front(q) = s /\ IsPrefix(s, q) /\ s # q
  BY <1>1, AppendIs
<1>3. Append(Image(x, s), n) = Image(x, q)
  BY <1>1, ImageOfEntry
<1> HIDE DEF q
<1>4. IsPrefix(x.from, q) /\ q # x.from
  BY <1>1, <1>2, PrefixOrder
<1>5. q \in DOMAIN b /\ (b[q] # Dir \/ "Recursive" \in x.req.flags)
  BY DEF q, s
<1>6. q \in Selected(b, x)
  BY <1>1, <1>2, <1>4, <1>5 DEF Selected
<1> QED
  BY <1>1, <1>3, <1>6 DEF q, s

\* A call that ends, or that comes to its next entry, copies nothing.
LEMMA EndStack == ASSUME DirInv, NEW t \in Threads, End(t) PROVE thr'[t].stack = <<>>
  BY ThreadIs DEF End, Idle
\* The same for the end of one entry of a wildcard.
LEMMA DoneStack == ASSUME DirInv, NEW t \in Threads, Done(t) PROVE thr'[t].stack = <<>>
<1>1. CASE thr[t].req.wild
  BY <1>1, ThreadIs DEF Done, Idle
<1>2. CASE ~thr[t].req.wild
  BY <1>2, EndStack DEF Done
<1> QED
  BY <1>1, <1>2
\* A step that changes nothing but the place in the program.
LEMMA GotoStack ==
  ASSUME DirInv, NEW t \in Threads, NEW pc, Goto(t, pc)
  PROVE  thr'[t] = [thr[t] EXCEPT !.pc = pc]
  BY ThreadIs DEF Goto

\* copy_directory begins.
LEMMA EnterMakes ==
  ASSUME DirInv, NEW t \in Threads, Enter(t)
  PROVE  LET to == Top(t).dst IN
         \/ thr'[t].stack = <<>>
         \/ /\ thr'[t] = [thr[t] EXCEPT !.pc = "open"]
            /\ \/ tree' = tree /\ (Exists(to) \/ ~Nested(t))
               \/ ~Exists(to) /\ Creatable(to) /\ tree' = WithParents(to)
               \/ ~Exists(to) /\ ~Nested(t) /\ tree' = Put(to, Dir)
<1> DEFINE to == Top(t).dst
<1>1. \/ End(t)
      \/ /\ Goto(t, "open")
         /\ \/ tree' = tree /\ (Exists(to) \/ ~Nested(t))
            \/ ~Exists(to) /\ Creatable(to) /\ tree' = WithParents(to)
            \/ ~Exists(to) /\ ~Nested(t) /\ tree' = Put(to, Dir)
  BY DEF Enter, SameTree, Becomes
<1> HIDE DEF to
<1>2. CASE End(t)
  BY <1>2, EndStack
<1>3. CASE ~End(t)
  <2>1. thr'[t] = [thr[t] EXCEPT !.pc = "open"]
    BY <1>1, <1>3, GotoStack
  <2> QED
    BY <1>1, <1>3, <2>1 DEF to
<1> QED
  BY <1>2, <1>3

\* The directories it makes are images, or on the way to the target.
LEMMA EnterCopies ==
  ASSUME DirInv, NEW t \in Threads, thr[t].pc \in Copying, NEW b,
         CopyOk(b, tree, thr[t]), Undisturbed(b, thr[t]), Enter(t), thr'[t].stack # <<>>,
         FileSystem(tree')
  PROVE  CopyOk(b, tree', thr'[t])
<1> DEFINE x == thr[t]
           y == [x EXCEPT !.pc = "open"]
           src == x.stack[1].src
           to  == x.stack[1].dst
<1>1. /\ x \in ThreadStates /\ x.pc = "enter" /\ FileSystem(tree)
      /\ x.from \in Seq(Names) /\ x.to \in Seq(Names)
  BY ThreadIs DEF Enter, At, ThreadStates
<1>2. x.stack \in Seq(Frames) /\ Len(x.stack) \in Nat \ {0} /\ to = Top(t).dst
  BY TopIs
<1>3. /\ y.from = x.from /\ y.to = x.to /\ y.req = x.req /\ y.stack = x.stack /\ y.pc = "open"
  BY <1>1 DEF ThreadStates
<1>4. /\ thr'[t] = y
      /\ \/ tree' = tree /\ (Exists(to) \/ ~(Len(x.stack) > 1))
         \/ ~Exists(to) /\ Creatable(to) /\ tree' = WithParents(to)
         \/ ~Exists(to) /\ tree' = Put(to, Dir)
  BY <1>2, EnterMakes DEF Nested
<1>5. FileSystem(b) /\ FramesOk(b, x) /\ Written(b, tree, x)
  BY DEF CopyOk
<1> HIDE DEF x, y
<1>6. 1 \in 1..Len(x.stack)
  BY <1>2
<1>7. /\ src \in Seq(Names) /\ IsPrefix(x.from, src) /\ src \in DOMAIN b /\ b[src] = Dir
      /\ to = Image(x, src)
      /\ src # x.from => "Recursive" \in x.req.flags
  BY <1>1, <1>5, <1>6, FrameIs
<1>8. src = x.from \/ (Len(x.stack) > 1 /\ src \in Selected(b, x))
  BY <1>5, <1>6 DEF FramesOk, FrameOk
<1> HIDE DEF src, to
<1>9. to \in Seq(Names) /\ IsPrefix(x.to, to) /\ (src = x.from => to = x.to)
  BY <1>1, <1>7, ImageIs
<1>10. ASSUME NEW p \in DOMAIN tree PROVE p \in DOMAIN tree' /\ tree'[p] = tree[p]
  BY <1>4, <1>10 DEF WithParents, Put, Exists
<1>11. ASSUME NEW p \in DOMAIN tree', p \notin DOMAIN tree
       PROVE  p \in Seq(Names) /\ IsPrefix(p, to) /\ tree'[p] = Dir
  <2>1. p \in Seq(Names)
    BY FileSystemIs
  <2>2. IsPrefix(to, to)
    BY <1>9, PrefixOrder
  <2>3. IsPrefix(p, to) /\ tree'[p] = Dir
    BY <1>4, <1>11, <2>2 DEF WithParents, Put, Exists
  <2> QED
    BY <2>1, <2>3
<1>12. ASSUME NEW p \in DOMAIN tree \cup DOMAIN tree' PROVE Allowed(b, tree, tree', x, y, p)
  <2>1. CASE p \in DOMAIN tree
    BY <1>10, <2>1 DEF Allowed
  <2>2. CASE p \notin DOMAIN tree /\ IsPrefix(p, x.to)
    BY <1>11, <2>2 DEF Allowed
  <2>3. CASE p \notin DOMAIN tree /\ ~IsPrefix(p, x.to)
    <3>1. p \in Seq(Names) /\ IsPrefix(p, to) /\ tree'[p] = Dir /\ p \in DOMAIN tree'
      BY <1>11, <2>3
    <3>2. IsPrefix(x.to, p) /\ p # x.to
      BY <1>1, <1>9, <2>3, <3>1, Comparable, PrefixOrder
    <3>3. PICK q \in Seq(Names) : /\ IsPrefix(x.from, q) /\ q # x.from /\ IsPrefix(q, src)
                                  /\ p = Image(x, q)
      BY <1>1, <1>7, <3>1, <3>2, ImageBetween
    <3>4. q \in DOMAIN b /\ b[q] = Dir
      BY <1>5, <1>7, <3>3, Ancestors
    <3>5. src # x.from
      BY <1>1, <3>3, PrefixOrder
    <3>6. q \in Selected(b, x)
      BY <1>7, <3>3, <3>4, <3>5 DEF Selected
    <3> QED
      BY <3>1, <3>3, <3>4, <3>6 DEF Allowed
  <2> QED
    BY <2>1, <2>2, <2>3
<1>13. ASSUME NEW q \in Selected(b, x), Pending(x, q)
       PROVE  Pending(y, q) \/ (Image(x, q) \in DOMAIN tree' /\ tree'[Image(x, q)] = b[q])
  <2>1. CASE \E i \in 1..Len(x.stack) : \E n \in x.stack[i].left :
               IsPrefix(Append(x.stack[i].src, n), q)
    BY <1>3, <2>1 DEF Pending
  <2>2. CASE IsPrefix(src, q) /\ q # src
    BY <1>3, <2>2 DEF Pending, src
  <2>3. CASE q = src
    <3>1. Len(x.stack) > 1
      BY <1>1, <1>5, <1>8, <2>3, SelectedIs
    <3>2. CASE Exists(to)
      <4>1. Inner(b, tree, x, src)
        BY <1>5, <2>3 DEF Written
      <4>2. tree[to] = Dir
        BY <1>7, <3>2, <4>1 DEF Inner, Exists
      <4> QED
        BY <1>7, <1>10, <2>3, <3>2, <4>2 DEF Exists
    <3>3. CASE ~Exists(to)
      <4>1. tree' = WithParents(to) \/ tree' = Put(to, Dir)
        BY <1>4, <3>1, <3>3
      <4>2. to \in DOMAIN tree'
        <5>1. CASE tree' = WithParents(to)
          <6>1. Creatable(to) \/ tree' = Put(to, Dir)
            BY <1>4, <3>1, <3>3
          <6>2. CASE Creatable(to)
            <7>1. to \in Paths
              BY <1>9, <6>2, PathsAre DEF Creatable, Fits
            <7>2. IsPrefix(to, to)
              BY <1>9, PrefixOrder
            <7> QED
              BY <5>1, <7>1, <7>2 DEF WithParents
          <6> QED
            BY <6>1, <6>2 DEF Put
        <5>2. CASE tree' = Put(to, Dir)
          BY <5>2 DEF Put
        <5> QED
          BY <4>1, <5>1, <5>2
      <4>3. tree'[to] = Dir
        BY <1>11, <3>3, <4>2 DEF Exists
      <4> QED
        BY <1>7, <2>3, <4>2, <4>3
    <3> QED
      BY <3>2, <3>3
  <2> QED
    BY <1>1, <1>13, <2>1, <2>2, <2>3 DEF Pending, src
<1>14. Opened(tree', y)
  <2>1. Len(x.stack) > 1 => x.to \in DOMAIN tree
    BY <1>5 DEF Written, Opened
  <2> QED
    BY <1>3, <1>10, <2>1 DEF Opened
<1>15. Written(b, tree', y)
  BY <1>1, <1>3, <1>5, <1>12, <1>13, <1>14, WrittenStep
<1>16. FramesOk(b, y)
  BY <1>3, <1>5 DEF FramesOk, FrameOk, Image, Selected
<1>17. thr'[t] = y
  BY <1>4
<1> QED
  BY <1>5, <1>15, <1>16, <1>17 DEF CopyOk

\* Both directories are opened, and the entries read.
LEMMA OpenDirMakes ==
  ASSUME DirInv, NEW t \in Threads, OpenDir(t)
  PROVE  LET to == Top(t).dst  src == Top(t).src IN
         /\ tree' = tree
         /\ \/ thr'[t].stack = <<>>
            \/ /\ Exists(to)
               /\ thr'[t] = [thr[t] EXCEPT !.pc = "entries", !.stack = [thr[t].stack EXCEPT
                    ![1] = [Top(t) EXCEPT !.dst = IF IsDir(to) THEN to ELSE Parent(to),
                                          !.left = Children(src)]]]
<1> DEFINE to  == Top(t).dst
           new == IF IsDir(to) THEN to ELSE Parent(to)
           kids == Children(Top(t).src)
<1>1. thr[t].pc = "open" /\ thr[t].pc \in Copying /\ tree' = tree
  BY DEF OpenDir, At, Copying, SameTree
<1>2. /\ thr[t].stack \in Seq(Frames) /\ Len(thr[t].stack) \in Nat \ {0}
      /\ Top(t) = thr[t].stack[1]
  BY <1>1, TopIs
<1>3. CASE Exists(to) /\ IsDir(Top(t).src)
  <2>1. thr' = [thr EXCEPT ![t].pc = "entries", ![t].stack[1] =
                [@ EXCEPT !.dst = new, !.left = kids]]
    BY <1>3 DEF OpenDir
  <2> HIDE DEF new, kids
  <2>2. thr'[t] = [thr[t] EXCEPT !.pc = "entries", !.stack = [thr[t].stack EXCEPT
                     ![1] = [Top(t) EXCEPT !.dst = new, !.left = kids]]]
    BY <1>2, <2>1, ThreadIs DEF ThreadStates
  <2> QED
    BY <1>1, <1>3, <2>2 DEF new, kids
<1>4. CASE ~(Exists(to) /\ IsDir(Top(t).src))
  BY <1>1, <1>4, EndStack DEF OpenDir
<1> QED
  BY <1>3, <1>4

\* The entries it reads are those of the first tree; the target is a directory.
LEMMA OpenDirCopies ==
  ASSUME DirInv, NEW t \in Threads, thr[t].pc \in Copying, NEW b,
         CopyOk(b, tree, thr[t]), Undisturbed(b, thr[t]), OpenDir(t), thr'[t].stack # <<>>
  PROVE  CopyOk(b, tree', thr'[t])
<1> DEFINE x == thr[t]
           src == x.stack[1].src
           to  == x.stack[1].dst
           new == IF IsDir(to) THEN to ELSE Parent(to)
           kids == Children(src)
           top == [x.stack[1] EXCEPT !.dst = new, !.left = kids]
           stack == [x.stack EXCEPT ![1] = top]
           y == [x EXCEPT !.pc = "entries", !.stack = stack]
<1>1. /\ x \in ThreadStates /\ x.pc = "open" /\ FileSystem(tree)
      /\ x.from \in Seq(Names) /\ x.to \in Seq(Names)
  BY ThreadIs DEF OpenDir, At, ThreadStates
<1>2. /\ x.stack \in Seq(Frames) /\ Len(x.stack) \in Nat \ {0}
      /\ Top(t) = x.stack[1] /\ x.stack[1] \in Frames
  BY TopIs
<1>3. tree' = tree /\ Exists(to) /\ thr'[t] = y
  BY <1>2, OpenDirMakes
<1>4. FileSystem(b) /\ FramesOk(b, x) /\ Written(b, tree, x)
  BY DEF CopyOk
<1>5. y.from = x.from /\ y.to = x.to /\ y.req = x.req /\ y.stack = stack /\ y.pc = "entries"
  BY <1>1 DEF ThreadStates
<1>6. top.src = src /\ top.dst = new /\ top.left = kids
  BY <1>2 DEF Frames
<1> HIDE DEF y, top
<1>7. /\ Len(stack) = Len(x.stack) /\ stack[1] = top
      /\ \A i \in 1..Len(x.stack) : i # 1 => stack[i] = x.stack[i]
  BY <1>2
<1> HIDE DEF x, stack
<1>8. 1 \in 1..Len(x.stack)
  BY <1>2
<1>9. /\ src \in Seq(Names) /\ IsPrefix(x.from, src) /\ src \in DOMAIN b /\ b[src] = Dir
      /\ to = Image(x, src)
  BY <1>1, <1>4, <1>8, FrameIs
<1>10. src = x.from \/ (Len(x.stack) > 1 /\ src \in Selected(b, x))
  BY <1>4, <1>8 DEF FramesOk, FrameOk
<1> HIDE DEF src, to, new, kids
<1>11. x.to \in DOMAIN tree
  <2>1. CASE src = x.from
    BY <1>1, <1>3, <1>9, <2>1, ImageIs DEF Exists
  <2>2. CASE Len(x.stack) > 1
    BY <1>4, <2>2 DEF Written, Opened
  <2> QED
    BY <1>10, <2>1, <2>2
<1>12. new = to
  <2>1. CASE src = x.from
    <3>1. to = x.to
      BY <1>1, <1>9, <2>1, ImageIs
    <3>2. IsPrefix(x.to, x.to)
      BY <1>1, PrefixOrder
    <3>3. \A q \in Selected(b, x) : x.to # Image(x, q)
      BY <1>1, <1>4, SelectedIs
    <3>4. x.to \in DOMAIN b => b[x.to] = Dir
      BY <1>9, <2>1, <3>1 DEF Undisturbed, FileInTheWay, Image, x
    <3>5. Outer(b, tree, x, x.to)
      BY <1>4, <1>11 DEF Written
    <3> QED
      BY <1>11, <3>1, <3>3, <3>4, <3>5 DEF Outer, new, IsDir, Exists
  <2>2. CASE src \in Selected(b, x)
    <3>1. Inner(b, tree, x, src)
      BY <1>4, <2>2 DEF Written
    <3> QED
      BY <1>3, <1>9, <3>1 DEF Inner, Exists, IsDir, new
  <2> QED
    BY <1>10, <2>1, <2>2
<1>13. \A n \in Names : n \in kids <=> Append(src, n) \in DOMAIN b
  <2>1. ASSUME NEW n \in Names PROVE n \in kids <=> Append(src, n) \in DOMAIN b
    <3>1. /\ Append(src, n) \in Seq(Names) /\ IsPrefix(src, Append(src, n))
      BY <1>9, AppendIs
    <3>2. IsPrefix(x.from, Append(src, n))
      BY <1>1, <1>9, <3>1, PrefixOrder
    <3>3. Append(src, n) \in DOMAIN tree <=> Append(src, n) \in DOMAIN b
      BY <1>1, <1>4, <3>1, <3>2, SourceSame DEF x
    <3> QED
      BY <3>3 DEF kids, Children, Exists
  <2> QED
    BY <2>1
<1>14. \A n \in kids : n \in Names
  BY DEF kids, Children
<1>15. ASSUME NEW q \in Selected(b, x), Pending(x, q) PROVE Pending(y, q)
  <2>1. q \in Seq(Names) /\ q \in DOMAIN b
    BY <1>1, <1>4, SelectedIs
  <2>2. ASSUME IsPrefix(src, q), q # src PROVE Pending(y, q)
    <3>1. PICK n \in Names : IsPrefix(Append(src, n), q)
      BY <1>9, <2>1, <2>2, NextOnWay
    <3>2. Append(src, n) \in Seq(Names)
      BY <1>9, AppendIs
    <3>3. Append(src, n) \in DOMAIN b
      BY <1>4, <2>1, <3>1, <3>2, Ancestors
    <3>4. n \in stack[1].left /\ stack[1].src = src
      BY <1>6, <1>7, <1>13, <3>3
    <3> QED
      BY <1>5, <1>7, <1>8, <3>1, <3>4 DEF Pending
  <2>3. ASSUME NEW i \in 1..Len(x.stack), NEW n \in x.stack[i].left,
               IsPrefix(Append(x.stack[i].src, n), q)
        PROVE  Pending(y, q)
    <3>1. CASE i = 1
      <4>1. n \in Names /\ x.stack[i].src = src
        BY <1>1, <1>4, <3>1, FrameIs DEF src
      <4>2. Append(src, n) \in Seq(Names) /\ IsPrefix(src, Append(src, n)) /\ src # Append(src, n)
        BY <1>9, <4>1, AppendIs
      <4>3. IsPrefix(Append(src, n), q)
        BY <2>3, <4>1
      <4>4. IsPrefix(src, q)
        BY <1>9, <2>1, <4>2, <4>3, PrefixOrder
      <4>5. q # src
        <5>1. IsPrefix(Append(src, n), src) => Append(src, n) = src
          BY <1>9, <4>2, PrefixOrder
        <5> QED
          BY <4>2, <4>3, <5>1
      <4> QED
        BY <2>2, <4>4, <4>5
    <3>2. CASE i # 1
      <4>1. stack[i] = x.stack[i] /\ i \in 1..Len(stack)
        BY <1>7, <3>2
      <4> QED
        BY <1>5, <2>3, <4>1 DEF Pending
    <3> QED
      BY <3>1, <3>2
  <2> QED
    BY <1>1, <1>15, <2>2, <2>3 DEF Pending, src
<1>16. Opened(tree, y)
  BY <1>5, <1>11 DEF Opened
<1>17. \A p \in DOMAIN tree \cup DOMAIN tree : Allowed(b, tree, tree, x, y, p)
  BY DEF Allowed
<1>18. Written(b, tree, y)
  BY <1>1, <1>4, <1>5, <1>15, <1>16, <1>17, WrittenStep
<1>19. FramesOk(b, y)
  <2>1. ASSUME NEW i \in 1..Len(y.stack) PROVE FrameOk(b, y, i)
    <3>1. i \in 1..Len(x.stack) /\ y.stack = stack /\ Len(y.stack) = Len(x.stack)
      BY <1>5, <1>7
    <3>2. FrameOk(b, x, i)
      BY <1>4, <3>1 DEF FramesOk
    <3>3. CASE i # 1
      <4>1. y.stack[i] = x.stack[i]
        BY <1>7, <3>1, <3>3
      <4> QED
        BY <1>5, <3>1, <3>2, <4>1 DEF FrameOk, Image, Selected
    <3>4. CASE i = 1
      <4>1. /\ y.stack[i].src = x.stack[i].src /\ y.stack[i].dst = x.stack[i].dst
            /\ y.stack[i].left = kids
        BY <1>6, <1>7, <1>12, <3>1, <3>4 DEF src, to
      <4>2. \A n \in kids : Append(x.stack[i].src, n) \in DOMAIN b
        BY <1>13, <1>14, <3>4 DEF src
      <4> QED
        BY <1>5, <3>1, <3>2, <4>1, <4>2 DEF FrameOk, Image, Selected
    <3> QED
      BY <3>3, <3>4
  <2> QED
    BY <1>4, <1>5, <2>1 DEF FramesOk
<1> QED
  BY <1>3, <1>4, <1>18, <1>19 DEF CopyOk

\* The next entry.
LEMMA EntryMakes ==
  ASSUME DirInv, NEW t \in Threads, Entry(t)
  PROVE  \E n \in Top(t).left :
           LET from == Append(Top(t).src, n)
               top  == [Top(t) EXCEPT !.left = @ \ {n}]
               rest == [thr[t].stack EXCEPT ![1] = top]
               sub  == [src |-> from, dst |-> Append(Top(t).dst, n), left |-> {}, cur |-> None]
           IN  /\ tree' = tree
               /\ \/ /\ ~IsDir(from)
                     /\ thr'[t] = [thr[t] EXCEPT !.pc = "replace",
                          !.stack = [thr[t].stack EXCEPT ![1] = [top EXCEPT !.cur = n]]]
                  \/ /\ IsDir(from) /\ Flag(t, "Recursive")
                     /\ thr'[t] = [thr[t] EXCEPT !.pc = "enter", !.stack = <<sub>> \o rest]
                  \/ /\ IsDir(from) /\ ~Flag(t, "Recursive")
                     /\ thr'[t] = [thr[t] EXCEPT !.pc = "entries", !.stack = rest]
<1>1. thr[t].pc = "entries" /\ thr[t].pc \in Copying /\ tree' = tree
  BY DEF Entry, At, Copying, SameTree
<1>2. /\ thr[t].stack \in Seq(Frames) /\ Len(thr[t].stack) \in Nat \ {0}
      /\ Top(t) = thr[t].stack[1] /\ Top(t) \in Frames
  BY <1>1, TopIs
<1> DEFINE from(n) == Append(Top(t).src, n)
           old(n)  == [thr[t].stack EXCEPT ![1].left = @ \ {n}]
           top(n)  == [Top(t) EXCEPT !.left = @ \ {n}]
           rest(n) == [thr[t].stack EXCEPT ![1] = top(n)]
           sub(n)  == [src |-> from(n), dst |-> Append(Top(t).dst, n), left |-> {}, cur |-> None]
<1>3. PICK n \in Top(t).left :
        thr' = [thr EXCEPT
             ![t].pc = IF ~IsDir(from(n)) THEN "replace"
                       ELSE IF Descends(t) THEN "enter" ELSE "entries",
             ![t].stack = IF ~IsDir(from(n)) THEN [old(n) EXCEPT ![1].cur = n]
                          ELSE IF Descends(t) THEN <<sub(n)>> \o old(n) ELSE old(n)]
  BY DEF Entry
<1>4. /\ old(n) = rest(n)
      /\ [old(n) EXCEPT ![1].cur = n] = [thr[t].stack EXCEPT ![1] = [top(n) EXCEPT !.cur = n]]
  BY <1>2, LenProperties
<1> DEFINE a == [old(n) EXCEPT ![1].cur = n]
           c == <<sub(n)>> \o old(n)
           d == old(n)
<1>5. thr'[t] = [thr[t] EXCEPT
        !.pc = IF ~IsDir(from(n)) THEN "replace"
               ELSE IF Descends(t) THEN "enter" ELSE "entries",
        !.stack = IF ~IsDir(from(n)) THEN a ELSE IF Descends(t) THEN c ELSE d]
  <2> HIDE DEF a, c, d, from
  <2>1. thr' = [thr EXCEPT
             ![t].pc = IF ~IsDir(from(n)) THEN "replace"
                       ELSE IF Descends(t) THEN "enter" ELSE "entries",
             ![t].stack = IF ~IsDir(from(n)) THEN a ELSE IF Descends(t) THEN c ELSE d]
    BY <1>3 DEF a, c, d
  <2> QED
    BY <2>1, ThreadIs DEF ThreadStates
<1> HIDE DEF a, c, d, from
<1>6. \/ ~IsDir(from(n)) /\ thr'[t] = [thr[t] EXCEPT !.pc = "replace", !.stack = a]
      \/ /\ IsDir(from(n)) /\ Flag(t, "Recursive")
         /\ thr'[t] = [thr[t] EXCEPT !.pc = "enter", !.stack = c]
      \/ /\ IsDir(from(n)) /\ ~Flag(t, "Recursive")
         /\ thr'[t] = [thr[t] EXCEPT !.pc = "entries", !.stack = d]
  BY <1>5 DEF Descends
<1>7. /\ a = [thr[t].stack EXCEPT ![1] = [top(n) EXCEPT !.cur = n]]
      /\ c = <<sub(n)>> \o rest(n) /\ d = rest(n)
  BY <1>4 DEF a, c, d
<1> QED
  BY <1>1, <1>6, <1>7 DEF from

\* The entry goes to a file's copy, to a new call, or is left out.
LEMMA EntryCopies ==
  ASSUME DirInv, NEW t \in Threads, thr[t].pc \in Copying, NEW b,
         CopyOk(b, tree, thr[t]), Undisturbed(b, thr[t]), Entry(t)
  PROVE  CopyOk(b, tree', thr'[t])
<1> DEFINE x == thr[t]
           src == x.stack[1].src
           dst == x.stack[1].dst
<1>1. /\ x \in ThreadStates /\ x.pc = "entries" /\ FileSystem(tree)
      /\ x.from \in Seq(Names) /\ x.to \in Seq(Names)
  BY ThreadIs DEF Entry, At, ThreadStates
<1>2. /\ x.stack \in Seq(Frames) /\ Len(x.stack) \in Nat \ {0}
      /\ Top(t) = x.stack[1] /\ x.stack[1] \in Frames
  BY TopIs
<1>3. FileSystem(b) /\ FramesOk(b, x) /\ Written(b, tree, x)
  BY DEF CopyOk
<1>4. PICK n \in Top(t).left :
           LET from == Append(Top(t).src, n)
               top  == [Top(t) EXCEPT !.left = @ \ {n}]
               rest == [thr[t].stack EXCEPT ![1] = top]
               sub  == [src |-> from, dst |-> Append(Top(t).dst, n), left |-> {}, cur |-> None]
           IN  /\ tree' = tree
               /\ \/ /\ ~IsDir(from)
                     /\ thr'[t] = [thr[t] EXCEPT !.pc = "replace",
                          !.stack = [thr[t].stack EXCEPT ![1] = [top EXCEPT !.cur = n]]]
                  \/ /\ IsDir(from) /\ Flag(t, "Recursive")
                     /\ thr'[t] = [thr[t] EXCEPT !.pc = "enter", !.stack = <<sub>> \o rest]
                  \/ /\ IsDir(from) /\ ~Flag(t, "Recursive")
                     /\ thr'[t] = [thr[t] EXCEPT !.pc = "entries", !.stack = rest]
  BY EntryMakes
<1> DEFINE from == Append(src, n)
           top  == [x.stack[1] EXCEPT !.left = @ \ {n}]
           rest == [x.stack EXCEPT ![1] = top]
           sub  == [src |-> from, dst |-> Append(dst, n), left |-> {}, cur |-> None]
           stack == [x.stack EXCEPT ![1] = [top EXCEPT !.cur = n]]
           y1 == [x EXCEPT !.pc = "replace", !.stack = stack]
           y2 == [x EXCEPT !.pc = "enter", !.stack = <<sub>> \o rest]
           y3 == [x EXCEPT !.pc = "entries", !.stack = rest]
<1>5. /\ tree' = tree
      /\ \/ ~IsDir(from) /\ thr'[t] = y1
         \/ IsDir(from) /\ "Recursive" \in x.req.flags /\ thr'[t] = y2
         \/ IsDir(from) /\ "Recursive" \notin x.req.flags /\ thr'[t] = y3
      /\ n \in x.stack[1].left
  BY <1>2, <1>4 DEF Flag
<1>6. /\ y1.from = x.from /\ y1.to = x.to /\ y1.req = x.req /\ y1.stack = stack /\ y1.pc = "replace"
      /\ y2.from = x.from /\ y2.to = x.to /\ y2.req = x.req /\ y2.stack = <<sub>> \o rest
      /\ y2.pc = "enter"
      /\ y3.from = x.from /\ y3.to = x.to /\ y3.req = x.req /\ y3.stack = rest /\ y3.pc = "entries"
  BY <1>1 DEF ThreadStates
<1>7. /\ top.src = src /\ top.dst = dst /\ top.left = x.stack[1].left \ {n} /\ top \in Frames
      /\ [top EXCEPT !.cur = n].src = src /\ [top EXCEPT !.cur = n].dst = dst
      /\ [top EXCEPT !.cur = n].left = x.stack[1].left \ {n} /\ [top EXCEPT !.cur = n].cur = n
  BY <1>2 DEF Frames
<1>8. sub.src = from /\ sub.dst = Append(dst, n) /\ sub.left = {}
  OBVIOUS
<1> HIDE DEF y1, y2, y3, sub
<1>9. /\ Len(stack) = Len(x.stack) /\ stack[1].src = src /\ stack[1].dst = dst
      /\ stack[1].left = x.stack[1].left \ {n} /\ stack[1].cur = n
      /\ \A i \in 1..Len(x.stack) : i # 1 => stack[i] = x.stack[i]
  BY <1>2, <1>7
<1>10. /\ Len(rest) = Len(x.stack) /\ rest[1].src = src /\ rest[1].dst = dst
       /\ rest[1].left = x.stack[1].left \ {n}
       /\ \A i \in 1..Len(x.stack) : i # 1 => rest[i] = x.stack[i]
  BY <1>2, <1>7
<1>11. /\ Len(<<sub>> \o rest) = Len(x.stack) + 1 /\ (<<sub>> \o rest)[1] = sub
       /\ \A i \in 1..Len(x.stack) : (<<sub>> \o rest)[i + 1] = rest[i]
  <2>1. rest \in Seq(Frames)
    <3>1. 1 \in 1..Len(x.stack)
      BY <1>2
    <3> HIDE DEF x, top
    <3> QED
      BY <1>2, <1>7, <3>1, ExceptSeq
  <2>2. sub \in Frames
    <3>1. n \in Names /\ src \in Seq(Names) /\ dst \in Seq(Names)
      BY <1>2, <1>5 DEF Frames
    <3> QED
      BY <3>1, AppendIs DEF Frames, sub
  <2>3. <<sub>> \in Seq(Frames) /\ Len(<<sub>>) = 1 /\ <<sub>>[1] = sub
    BY <2>2
  <2> HIDE DEF rest, x
  <2> QED
    BY <1>2, <1>10, <2>1, <2>3, ConcatProperties
<1> HIDE DEF x, top, stack, rest
<1>12. 1 \in 1..Len(x.stack)
  BY <1>2
<1>13. /\ src \in Seq(Names) /\ IsPrefix(x.from, src) /\ src \in DOMAIN b /\ b[src] = Dir
       /\ dst = Image(x, src) /\ n \in Names
  BY <1>1, <1>3, <1>5, <1>12, FrameIs
<1>14. from \in DOMAIN b
  BY <1>3, <1>5, <1>12 DEF FramesOk, FrameOk
<1>15. b[from] # Dir \/ "Recursive" \in x.req.flags
         => from \in Selected(b, x) /\ Append(dst, n) = Image(x, from)
  BY <1>1, <1>3, <1>12, <1>13, <1>14, EntrySelected
<1> HIDE DEF src, dst
<1>16. /\ from \in Seq(Names) /\ IsPrefix(src, from) /\ src # from /\ Front(from) = src
  BY <1>13, AppendIs
<1> HIDE DEF from
<1>17. IsPrefix(x.from, from)
  BY <1>1, <1>13, <1>16, PrefixOrder
<1>18. IsDir(from) <=> b[from] = Dir
  BY <1>1, <1>3, <1>14, <1>16, <1>17, SourceSame DEF IsDir, Exists, x
<1>19. x.to \in DOMAIN tree
  BY <1>1, <1>3 DEF Written, Opened
<1>20. ASSUME NEW y PROVE \A p \in DOMAIN tree \cup DOMAIN tree : Allowed(b, tree, tree, x, y, p)
  BY DEF Allowed
<1>21. ASSUME NEW q, Pending(x, q)
       PROVE  \/ IsPrefix(from, q)
              \/ \E m \in x.stack[1].left \ {n} : IsPrefix(Append(src, m), q)
              \/ \E i \in 2..Len(x.stack) : \E m \in x.stack[i].left :
                   IsPrefix(Append(x.stack[i].src, m), q)
  <2>1. PICK i \in 1..Len(x.stack) :
          \E m \in x.stack[i].left : IsPrefix(Append(x.stack[i].src, m), q)
    BY <1>1, <1>21 DEF Pending
  <2>2. CASE i = 1
    BY <2>1, <2>2 DEF from, src
  <2>3. CASE i # 1
    <3>1. i \in 2..Len(x.stack)
      BY <1>2, <2>3
    <3> QED
      BY <2>1, <3>1
  <2> QED
    BY <2>2, <2>3
<1>22. ASSUME NEW i \in 2..Len(x.stack)
       PROVE  i \in 1..Len(x.stack) /\ i # 1 /\ i + 1 \in 1..(Len(x.stack) + 1)
  BY <1>2
<1>23. ASSUME NEW i \in 1..Len(x.stack) PROVE FrameOk(b, x, i)
  BY <1>3 DEF FramesOk
<1>24. CASE ~IsDir(from)
  <2>1. ASSUME NEW q \in Selected(b, x), Pending(x, q) PROVE Pending(y1, q)
    <3>1. CASE IsPrefix(from, q)
      <4>1. q \in DOMAIN b
        BY DEF Selected
      <4>2. q = from
        BY <1>3, <1>16, <1>18, <1>24, <3>1, <4>1, Ancestors
      <4> QED
        BY <1>6, <1>9, <4>2 DEF Pending, from
    <3>2. CASE \E m \in x.stack[1].left \ {n} : IsPrefix(Append(src, m), q)
      BY <1>6, <1>9, <1>12, <3>2 DEF Pending
    <3>3. CASE \E i \in 2..Len(x.stack) : \E m \in x.stack[i].left :
                 IsPrefix(Append(x.stack[i].src, m), q)
      BY <1>6, <1>9, <1>22, <3>3 DEF Pending
    <3> QED
      BY <1>21, <2>1, <3>1, <3>2, <3>3
  <2>2. Written(b, tree, y1)
    <3>1. Opened(tree, y1)
      BY <1>6, <1>19 DEF Opened
    <3> QED
      BY <1>1, <1>3, <1>6, <1>20, <2>1, <3>1, WrittenStep
  <2>3. ASSUME NEW i \in 1..Len(y1.stack) PROVE FrameOk(b, y1, i)
    <3>1. i \in 1..Len(x.stack) /\ Len(y1.stack) = Len(x.stack) /\ y1.stack = stack
      BY <1>6, <1>9
    <3>2. /\ y1.stack[i].src = x.stack[i].src /\ y1.stack[i].dst = x.stack[i].dst
          /\ y1.stack[i].left \subseteq x.stack[i].left
      <4>1. CASE i = 1
        BY <1>9, <3>1, <4>1 DEF src, dst
      <4>2. CASE i # 1
        BY <1>9, <3>1, <4>2
      <4> QED
        BY <4>1, <4>2
    <3> QED
      BY <1>6, <1>23, <3>1, <3>2 DEF FrameOk, Image, Selected
  <2>4. Append(y1.stack[1].src, y1.stack[1].cur) = from
    BY <1>6, <1>9 DEF from
  <2>5. FramesOk(b, y1)
    BY <1>3, <1>6, <1>14, <1>18, <1>24, <2>3, <2>4 DEF FramesOk
  <2> QED
    BY <1>3, <1>5, <1>24, <2>2, <2>5 DEF CopyOk
<1>25. CASE IsDir(from) /\ "Recursive" \in x.req.flags
  <2>1. ASSUME NEW q \in Selected(b, x), Pending(x, q) PROVE Pending(y2, q)
    <3>1. CASE IsPrefix(from, q)
      BY <1>6, <1>8, <1>11, <3>1 DEF Pending
    <3>2. CASE \E m \in x.stack[1].left \ {n} : IsPrefix(Append(src, m), q)
      <4>1. y2.stack[1 + 1] = rest[1] /\ 1 + 1 \in 1..Len(y2.stack)
        BY <1>2, <1>6, <1>11, <1>12
      <4> QED
        BY <1>10, <3>2, <4>1 DEF Pending
    <3>3. CASE \E i \in 2..Len(x.stack) : \E m \in x.stack[i].left :
                 IsPrefix(Append(x.stack[i].src, m), q)
      <4>1. PICK i \in 2..Len(x.stack) :
              \E m \in x.stack[i].left : IsPrefix(Append(x.stack[i].src, m), q)
        BY <3>3
      <4>2. y2.stack[i + 1] = x.stack[i] /\ i + 1 \in 1..Len(y2.stack)
        BY <1>6, <1>10, <1>11, <1>22
      <4> QED
        BY <4>1, <4>2 DEF Pending
    <3> QED
      BY <1>21, <2>1, <3>1, <3>2, <3>3
  <2>2. Written(b, tree, y2)
    <3>1. Opened(tree, y2)
      BY <1>6, <1>19 DEF Opened
    <3> QED
      BY <1>1, <1>3, <1>6, <1>20, <2>1, <3>1, WrittenStep
  <2>3. ASSUME NEW i \in 1..Len(y2.stack) PROVE FrameOk(b, y2, i)
    <3>1. Len(y2.stack) = Len(x.stack) + 1
      BY <1>6, <1>11
    <3>2. CASE i = 1
      <4>1. y2.stack[i].src = from /\ y2.stack[i].dst = Append(dst, n) /\ y2.stack[i].left = {}
        BY <1>6, <1>8, <1>11, <3>2
      <4>2. i < Len(y2.stack)
        BY <1>2, <3>1, <3>2
      <4>3. from \in Selected(b, x) /\ Append(dst, n) = Image(x, from) /\ b[from] = Dir
        BY <1>15, <1>18, <1>25
      <4> QED
        BY <1>6, <4>1, <4>2, <4>3 DEF FrameOk, Image, Selected
    <3>3. CASE i # 1
      <4> DEFINE k == i - 1
      <4>1. k \in 1..Len(x.stack) /\ i = k + 1
        BY <1>2, <3>1, <3>3
      <4> HIDE DEF k
      <4>2. y2.stack[i] = rest[k]
        BY <1>6, <1>11, <4>1
      <4>3. /\ rest[k].src = x.stack[k].src /\ rest[k].dst = x.stack[k].dst
            /\ rest[k].left \subseteq x.stack[k].left
        <5>1. CASE k = 1
          BY <1>10, <4>1, <5>1 DEF src, dst
        <5>2. CASE k # 1
          BY <1>10, <4>1, <5>2
        <5> QED
          BY <5>1, <5>2
      <4>4. /\ k = Len(x.stack) <=> i = Len(y2.stack)
            /\ k < Len(x.stack) <=> i < Len(y2.stack)
        BY <1>2, <3>1, <4>1
      <4> QED
        BY <1>6, <1>23, <4>1, <4>2, <4>3, <4>4 DEF FrameOk, Image, Selected
    <3> QED
      BY <3>2, <3>3
  <2>4. FramesOk(b, y2)
    BY <1>3, <1>6, <2>3 DEF FramesOk
  <2> QED
    BY <1>3, <1>5, <1>25, <2>2, <2>4 DEF CopyOk
<1>26. CASE IsDir(from) /\ "Recursive" \notin x.req.flags
  <2>1. ASSUME NEW q \in Selected(b, x), Pending(x, q) PROVE Pending(y3, q)
    <3>1. ~IsPrefix(from, q)
      \* Below a directory that is left out there is nothing to copy.
      <4>1. SUFFICES ASSUME IsPrefix(from, q) PROVE FALSE
        OBVIOUS
      <4>2. q \in Seq(Names) /\ b[q] # Dir /\ Front(q) = x.from /\ IsPrefix(x.from, q) /\ q # x.from
        <5>1. /\ q \in Seq(Names) /\ IsPrefix(x.from, q) /\ q # x.from
              /\ "Recursive" \in x.req.flags \/ (b[q] # Dir /\ Front(q) = x.from)
          BY <1>1, <1>3, <2>1, SelectedIs
        <5> QED
          BY <1>26, <5>1
      <4>3. q # from
        BY <1>18, <1>26, <4>2
      <4>4. q # <<>>
        BY <1>1, <4>2, PrefixOrder
      <4>5. IsPrefix(from, x.from)
        BY <1>16, <4>1, <4>2, <4>3, <4>4, PrefixOfFront
      <4>6. IsPrefix(from, src)
        BY <1>1, <1>13, <1>16, <4>5, PrefixOrder
      <4> QED
        BY <1>13, <1>16, <4>6, PrefixOrder
    <3>2. CASE \E m \in x.stack[1].left \ {n} : IsPrefix(Append(src, m), q)
      BY <1>6, <1>10, <1>12, <3>2 DEF Pending
    <3>3. CASE \E i \in 2..Len(x.stack) : \E m \in x.stack[i].left :
                 IsPrefix(Append(x.stack[i].src, m), q)
      BY <1>6, <1>10, <1>22, <3>3 DEF Pending
    <3> QED
      BY <1>21, <2>1, <3>1, <3>2, <3>3
  <2>2. Written(b, tree, y3)
    <3>1. Opened(tree, y3)
      BY <1>19, <1>6 DEF Opened
    <3> QED
      BY <1>1, <1>3, <1>6, <1>20, <2>1, <3>1, WrittenStep
  <2>3. ASSUME NEW i \in 1..Len(y3.stack) PROVE FrameOk(b, y3, i)
    <3>1. i \in 1..Len(x.stack) /\ Len(y3.stack) = Len(x.stack) /\ y3.stack = rest
      BY <1>6, <1>10
    <3>2. /\ y3.stack[i].src = x.stack[i].src /\ y3.stack[i].dst = x.stack[i].dst
          /\ y3.stack[i].left \subseteq x.stack[i].left
      <4>1. CASE i = 1
        BY <1>10, <3>1, <4>1 DEF src, dst
      <4>2. CASE i # 1
        BY <1>10, <3>1, <4>2
      <4> QED
        BY <4>1, <4>2
    <3> QED
      BY <1>6, <1>23, <3>1, <3>2 DEF FrameOk, Image, Selected
  <2>4. FramesOk(b, y3)
    BY <1>3, <1>6, <2>3 DEF FramesOk
  <2> QED
    BY <1>3, <1>5, <1>26, <2>2, <2>4 DEF CopyOk
<1> QED
  BY <1>24, <1>25, <1>26

\* What is in the way of a file goes: its content is still to be copied.
LEMMA ReplaceCopies ==
  ASSUME DirInv, NEW t \in Threads, thr[t].pc \in Copying, NEW b,
         CopyOk(b, tree, thr[t]), Undisturbed(b, thr[t]), Replace(t), thr'[t].stack # <<>>
  PROVE  CopyOk(b, tree', thr'[t])
<1> DEFINE x == thr[t]
           y == [x EXCEPT !.pc = "fill"]
           q0 == Append(x.stack[1].src, x.stack[1].cur)
           to == Append(x.stack[1].dst, x.stack[1].cur)
<1>1. /\ x \in ThreadStates /\ x.pc = "replace"
      /\ x.from \in Seq(Names) /\ x.to \in Seq(Names)
  BY ThreadIs DEF Replace, At, ThreadStates
<1>2. /\ x.stack \in Seq(Frames) /\ Len(x.stack) \in Nat \ {0}
      /\ Top(t) = x.stack[1] /\ x.stack[1].cur \in Names
  BY <1>1, TopIs
<1>3. tree' = tree \/ tree' = Without({to})
  BY <1>2 DEF Replace, Becomes, SameTree
<1>4. thr'[t] = y
  <2>1. End(t) \/ Goto(t, "fill")
    BY DEF Replace
  <2> QED
    BY <2>1, EndStack, GotoStack
<1>5. FileSystem(b) /\ FramesOk(b, x) /\ Written(b, tree, x)
  BY DEF CopyOk
<1>6. /\ y.from = x.from /\ y.to = x.to /\ y.req = x.req /\ y.stack = x.stack /\ y.pc = "fill"
  BY <1>1 DEF ThreadStates
<1> HIDE DEF x, y
<1>7. 1 \in 1..Len(x.stack)
  BY <1>2
<1>8. q0 \in DOMAIN b /\ b[q0] # Dir
  BY <1>1, <1>5 DEF FramesOk
<1>9. q0 \in Selected(b, x) /\ to = Image(x, q0)
  BY <1>1, <1>2, <1>5, <1>7, <1>8, EntrySelected
<1>10. Pending(x, q0) /\ Pending(y, q0)
  BY <1>1, <1>6 DEF Pending
<1> HIDE DEF q0, to
<1>11. x.to \in DOMAIN tree /\ to # x.to
  BY <1>1, <1>5, <1>9, SelectedIs DEF Written, Opened
<1>12. Opened(tree', y)
  BY <1>3, <1>6, <1>11 DEF Opened, Without
<1>13. ASSUME NEW p \in DOMAIN tree \cup DOMAIN tree' PROVE Allowed(b, tree, tree', x, y, p)
  <2>1. CASE p = to
    BY <1>8, <1>9, <1>10, <2>1 DEF Allowed
  <2>2. CASE p # to
    BY <1>3, <2>2 DEF Allowed, Without
  <2> QED
    BY <2>1, <2>2
<1>14. ASSUME NEW q \in Selected(b, x), Pending(x, q) PROVE Pending(y, q)
  BY <1>1, <1>6, <1>14 DEF Pending
<1>15. Written(b, tree', y)
  BY <1>1, <1>5, <1>6, <1>12, <1>13, <1>14, WrittenStep
<1>16. FramesOk(b, y)
  BY <1>1, <1>5, <1>6 DEF FramesOk, FrameOk, Image, Selected
<1> QED
  BY <1>4, <1>5, <1>15, <1>16 DEF CopyOk

\* A file is copied.
LEMMA FillMakes ==
  ASSUME DirInv, NEW t \in Threads, Fill(t)
  PROVE  LET from == Append(Top(t).src, Top(t).cur)
             to   == Append(Top(t).dst, Top(t).cur)
         IN  \/ thr'[t].stack = <<>>
             \/ /\ tree' = Put(to, tree[from]) /\ ~Exists(to)
                /\ thr'[t] = [thr[t] EXCEPT !.pc = "entries", !.stack =
                     [thr[t].stack EXCEPT ![1] = [Top(t) EXCEPT !.cur = None]]]
<1> DEFINE from == Append(Top(t).src, Top(t).cur)
           to   == Append(Top(t).dst, Top(t).cur)
<1>1. thr[t].pc = "fill" /\ thr[t].pc \in Copying
  BY DEF Fill, At, Copying
<1>2. /\ thr[t].stack \in Seq(Frames) /\ Len(thr[t].stack) \in Nat \ {0}
      /\ Top(t) = thr[t].stack[1]
  BY <1>1, TopIs
<1>3. CASE CanCopy(from, to) /\ ~IsDir(from)
  <2>1. /\ thr' = [thr EXCEPT ![t].pc = "entries", ![t].stack[1].cur = None]
        /\ tree' = CopyFile(from, to)
    BY <1>3 DEF Fill, Becomes
  <2>2. thr'[t] = [thr[t] EXCEPT !.pc = "entries", !.stack =
                     [thr[t].stack EXCEPT ![1] = [Top(t) EXCEPT !.cur = None]]]
    BY <1>2, <2>1, ThreadIs DEF ThreadStates
  <2> HIDE DEF from, to
  <2>3. tree' = Put(to, tree[from]) /\ ~Exists(to)
    BY <1>3, <2>1 DEF CopyFile, CanCopy
  <2> QED
    BY <2>2, <2>3 DEF from, to
<1>4. CASE ~(CanCopy(from, to) /\ ~IsDir(from))
  <2>1. End(t)
    BY <1>4 DEF Fill
  <2> QED
    BY <2>1, EndStack
<1> QED
  BY <1>3, <1>4

\* Its content is that of the first tree.
LEMMA FillCopies ==
  ASSUME DirInv, NEW t \in Threads, thr[t].pc \in Copying, NEW b,
         CopyOk(b, tree, thr[t]), Undisturbed(b, thr[t]), Fill(t), thr'[t].stack # <<>>
  PROVE  CopyOk(b, tree', thr'[t])
<1> DEFINE x == thr[t]
           top == [x.stack[1] EXCEPT !.cur = None]
           stack == [x.stack EXCEPT ![1] = top]
           y == [x EXCEPT !.pc = "entries", !.stack = stack]
           q0 == Append(x.stack[1].src, x.stack[1].cur)
           to == Append(x.stack[1].dst, x.stack[1].cur)
<1>1. /\ x \in ThreadStates /\ x.pc = "fill" /\ FileSystem(tree)
      /\ x.from \in Seq(Names) /\ x.to \in Seq(Names)
  BY ThreadIs DEF Fill, At, ThreadStates
<1>2. /\ x.stack \in Seq(Frames) /\ Len(x.stack) \in Nat \ {0}
      /\ Top(t) = x.stack[1] /\ x.stack[1] \in Frames /\ x.stack[1].cur \in Names
  BY <1>1, TopIs
<1>3. /\ tree' = Put(to, tree[q0]) /\ ~Exists(to)
      /\ thr'[t] = y
  BY <1>2, FillMakes
<1>4. FileSystem(b) /\ FramesOk(b, x) /\ Written(b, tree, x)
  BY DEF CopyOk
<1>5. /\ y.from = x.from /\ y.to = x.to /\ y.req = x.req /\ y.stack = stack /\ y.pc = "entries"
  BY <1>1 DEF ThreadStates
<1>6. /\ top.src = x.stack[1].src /\ top.dst = x.stack[1].dst /\ top.left = x.stack[1].left
  BY <1>2 DEF Frames
<1> HIDE DEF y, top
<1>7. /\ Len(stack) = Len(x.stack)
      /\ \A i \in 1..Len(x.stack) : /\ stack[i].src = x.stack[i].src
                                    /\ stack[i].dst = x.stack[i].dst
                                    /\ stack[i].left = x.stack[i].left
  BY <1>2, <1>6
<1> HIDE DEF x, stack
<1>8. 1 \in 1..Len(x.stack)
  BY <1>2
<1>9. q0 \in DOMAIN b /\ b[q0] # Dir
  BY <1>1, <1>4 DEF FramesOk
<1>10. q0 \in Selected(b, x) /\ to = Image(x, q0)
  BY <1>1, <1>2, <1>4, <1>8, <1>9, EntrySelected
<1>11. ASSUME NEW q, Pending(x, q) PROVE q = q0 \/ Pending(y, q)
  BY <1>1, <1>5, <1>7, <1>11 DEF Pending
<1> HIDE DEF q0, to
<1>12. tree[q0] = b[q0]
  <2>1. q0 \in Seq(Names) /\ IsPrefix(x.from, q0)
    BY <1>1, <1>4, <1>10, SelectedIs
  <2> QED
    BY <1>1, <1>4, <1>9, <2>1, SourceSame DEF x
<1>13. to \in DOMAIN tree' /\ tree'[to] = b[q0]
  BY <1>3, <1>12 DEF Put
<1>14. x.to \in DOMAIN tree
  BY <1>1, <1>4 DEF Written, Opened
<1>15. Opened(tree', y)
  BY <1>3, <1>5, <1>14 DEF Opened, Put
<1>16. ASSUME NEW p \in DOMAIN tree \cup DOMAIN tree' PROVE Allowed(b, tree, tree', x, y, p)
  <2>1. CASE p = to
    BY <1>9, <1>10, <1>13, <2>1 DEF Allowed
  <2>2. CASE p # to
    BY <1>3, <2>2 DEF Allowed, Put
  <2> QED
    BY <2>1, <2>2
<1>17. ASSUME NEW q \in Selected(b, x), Pending(x, q)
       PROVE  Pending(y, q) \/ (Image(x, q) \in DOMAIN tree' /\ tree'[Image(x, q)] = b[q])
  BY <1>10, <1>11, <1>13, <1>17
<1>18. Written(b, tree', y)
  BY <1>1, <1>4, <1>5, <1>15, <1>16, <1>17, WrittenStep
<1>19. FramesOk(b, y)
  <2>1. ASSUME NEW i \in 1..Len(y.stack) PROVE FrameOk(b, y, i)
    <3>1. FrameOk(b, x, i) /\ i \in 1..Len(x.stack) /\ y.stack = stack
      BY <1>4, <1>5, <1>7 DEF FramesOk
    <3> QED
      BY <1>5, <1>7, <3>1 DEF FrameOk, Image, Selected
  <2> QED
    BY <1>4, <1>5, <2>1 DEF FramesOk
<1> QED
  BY <1>3, <1>4, <1>18, <1>19 DEF CopyOk

\* A copy of a directory below returns.
LEMMA LeaveMakes ==
  ASSUME DirInv, NEW t \in Threads, Leave(t), thr'[t].stack # <<>>
  PROVE  /\ thr[t].pc = "entries" /\ Top(t).left = {} /\ Len(thr[t].stack) > 1 /\ tree' = tree
         /\ thr'[t] = [thr[t] EXCEPT !.stack = Tail(thr[t].stack)]
<1>1. thr[t].pc = "entries" /\ Top(t).left = {} /\ tree' = tree
  BY DEF Leave, At, SameTree
<1>2. Nested(t)
  BY DoneStack DEF Leave
<1>3. thr' = [thr EXCEPT ![t].stack = Tail(@)]
  BY <1>2 DEF Leave
<1>4. thr'[t] = [thr[t] EXCEPT !.stack = Tail(thr[t].stack)]
  BY <1>3, ThreadIs DEF ThreadStates
<1> QED
  BY <1>1, <1>2, <1>4 DEF Nested

\* Nothing it should do is left.
LEMMA LeaveCopies ==
  ASSUME DirInv, NEW t \in Threads, thr[t].pc \in Copying, NEW b,
         CopyOk(b, tree, thr[t]), Undisturbed(b, thr[t]), Leave(t), thr'[t].stack # <<>>
  PROVE  CopyOk(b, tree', thr'[t])
<1> DEFINE x == thr[t]
           y == [x EXCEPT !.stack = Tail(x.stack)]
<1>1. /\ x \in ThreadStates /\ x.pc = "entries" /\ tree' = tree /\ thr'[t] = y
      /\ Len(x.stack) > 1
  BY ThreadIs, LeaveMakes
<1>2. /\ x.stack \in Seq(Frames) /\ x.stack # <<>> /\ Len(x.stack) \in Nat \ {0}
      /\ x.stack[1].left = {}
  BY TopIs, LeaveMakes
<1>3. FileSystem(b) /\ FramesOk(b, x) /\ Written(b, tree, x)
  BY DEF CopyOk
<1>4. /\ y.from = x.from /\ y.to = x.to /\ y.req = x.req /\ y.stack = Tail(x.stack)
      /\ y.pc = "entries"
  BY <1>1 DEF ThreadStates
<1> HIDE DEF x, y
<1>5. /\ Len(y.stack) = Len(x.stack) - 1
      /\ \A i \in 1..Len(y.stack) : y.stack[i] = x.stack[i + 1]
  BY <1>2, <1>4, HeadTailProperties
<1>6. \A i \in 1..Len(x.stack) :
        i # 1 => i - 1 \in 1..Len(y.stack) /\ y.stack[i - 1] = x.stack[i]
  BY <1>2, <1>5
<1>7. ASSUME NEW q, Pending(x, q) PROVE Pending(y, q)
  BY <1>1, <1>2, <1>6, <1>7 DEF Pending
<1>8. x.to \in DOMAIN tree
  BY <1>1, <1>3 DEF Written, Opened
<1>9. Opened(tree, y)
  BY <1>4, <1>8 DEF Opened
<1>10. \A p \in DOMAIN tree \cup DOMAIN tree : Allowed(b, tree, tree, x, y, p)
  BY DEF Allowed
<1>11. Written(b, tree, y)
  BY <1>1, <1>3, <1>4, <1>7, <1>9, <1>10, WrittenStep
<1>12. ASSUME NEW i \in 1..Len(y.stack) PROVE FrameOk(b, y, i)
  <2> DEFINE k == i + 1
  <2>1. k \in 1..Len(x.stack) /\ y.stack[i] = x.stack[k]
    BY <1>2, <1>5
  <2>2. /\ k = Len(x.stack) <=> i = Len(y.stack)
        /\ k < Len(x.stack) <=> i < Len(y.stack)
    BY <1>2, <1>5
  <2> HIDE DEF k
  <2>3. FrameOk(b, x, k)
    BY <1>3, <2>1 DEF FramesOk
  <2> QED
    BY <1>4, <2>1, <2>2, <2>3 DEF FrameOk, Image, Selected
<1>13. FramesOk(b, y)
  BY <1>3, <1>4, <1>12 DEF FramesOk
<1> QED
  BY <1>1, <1>3, <1>11, <1>13 DEF CopyOk

\* Only a copy of a directory has a stack; it begins with the look at the source
\* and goes from one of its steps to another until its call ends.
StackOk(x) == x.stack # <<>> => x.pc \in Copying
CopyStep(t) == Enter(t) \/ OpenDir(t) \/ Entry(t) \/ Replace(t) \/ Fill(t) \/ Leave(t)
CopyBegins(t) ==
  /\ thr[t].pc = "look" /\ IsDir(thr[t].from) /\ tree' = tree
  /\ thr'[t] = [thr[t] EXCEPT !.pc = "enter",
       !.stack = <<[src |-> thr[t].from, dst |-> thr[t].to, left |-> {}, cur |-> None]>>]

\* The look at a directory begins a copy of it, any other look does not.
LEMMA LookBegins ==
  ASSUME DirInv, NEW t \in Threads, Look(t), thr[t].stack = <<>>
  PROVE  thr'[t].stack = <<>> \/ CopyBegins(t)
<1>1. thr[t].pc = "look" /\ tree' = tree
  BY DEF Look, At, SameTree
<1>2. CASE Do(t, "copy") /\ IsDir(thr[t].from)
  <2> DEFINE f == [src |-> thr[t].from, dst |-> thr[t].to, left |-> {}, cur |-> None]
  <2>1. thr' = [thr EXCEPT ![t].pc = "enter", ![t].stack = <<f>>]
    BY <1>2 DEF Look
  <2> HIDE DEF f
  <2>2. thr'[t] = [thr[t] EXCEPT !.pc = "enter", !.stack = <<f>>]
    BY <2>1, ThreadIs DEF ThreadStates
  <2> QED
    BY <1>1, <1>2, <2>2 DEF CopyBegins, f
<1>3. CASE ~(Do(t, "copy") /\ IsDir(thr[t].from))
  <2> DEFINE pc   == IF Do(t, "move") /\ ~thr[t].req.wild THEN "lock" ELSE "clear"
             into == ~IsDir(thr[t].from) /\ IsDir(thr[t].to)
             to   == IF into THEN Append(thr[t].to, Last(thr[t].from)) ELSE thr[t].to
             dirTo == IsDir(thr[t].to)
  <2>1. thr' = [thr EXCEPT ![t].pc = pc, ![t].to = to, ![t].dirTo = dirTo]
    BY <1>3 DEF Look
  <2> HIDE DEF pc, to, dirTo
  <2> QED
    BY <2>1, ThreadIs DEF ThreadStates
<1> QED
  BY <1>2, <1>3

\* Every step: no stack after it, or a copy that begins or goes on.
LEMMA StackStep ==
  ASSUME DirInv, NEW t \in Threads, Step(t), StackOk(thr[t])
  PROVE  \/ thr'[t].stack = <<>>
         \/ CopyBegins(t) /\ thr[t].stack = <<>>
         \/ CopyStep(t) /\ thr[t].pc \in Copying
<1>1. CASE CopyCall(t) \/ MoveCall(t) \/ MakeDirCall(t) \/ ChangeDirCall(t)
           \/ RemoveSelfCall(t) \/ RemoveCall(t)
  <2>1. \E call, pc : Begin(t, call, pc)
    BY <1>1 DEF CopyCall, MoveCall, MakeDirCall, ChangeDirCall, RemoveSelfCall, RemoveCall
  <2> QED
    BY <2>1, ThreadIs DEF Begin, Idle
<1>2. CASE CopyWildcard(t) \/ MoveWildcard(t) \/ RemoveWildcard(t)
  <2>1. \E call : BeginWild(t, call)
    BY <1>2 DEF CopyWildcard, MoveWildcard, RemoveWildcard
  <2> QED
    BY <2>1, ThreadIs DEF BeginWild, Idle
<1>3. CASE CopyStep(t)
  BY <1>3 DEF CopyStep, Enter, OpenDir, Entry, Replace, Fill, Leave, At, Copying
<1>4. CASE ChangeDir(t) \/ MakeDir(t) \/ RemoveSelf(t)
  BY <1>4, EndStack DEF ChangeDir, MakeDir, RemoveSelf
<1>5. CASE Lock(t) \/ WildLock(t) \/ WildNext(t) \/ Look(t) \/ Clear(t) \/ Check(t)
           \/ RenameEntry(t) \/ CopyEntry(t) \/ RemoveCheck(t) \/ RemoveDo(t)
  <2>1. thr[t].stack = <<>>
    BY <1>5 DEF Lock, WildLock, WildNext, Look, Clear, Check, RenameEntry, CopyEntry, RemoveCheck,
                RemoveDo, At, StackOk, Copying
  <2>2. thr[t] \in ThreadStates /\ thr \in [Threads -> ThreadStates]
    BY ThreadIs
  <2>3. ASSUME NEW pc, Goto(t, pc) PROVE thr'[t].stack = <<>>
    BY <2>1, <2>2, <2>3, GotoStack DEF ThreadStates
  <2>4. CASE Lock(t)
    BY <2>3, <2>4 DEF Lock
  <2>5. CASE WildLock(t)
    <3>1. End(t) \/ thr' = [thr EXCEPT ![t].pc = "next",
                                 ![t].todo = Children(thr[t].at) \cap thr[t].req.names]
      BY <2>5 DEF WildLock
    <3> QED
      BY <2>1, <2>2, <3>1, EndStack DEF ThreadStates
  <2>6. CASE WildNext(t)
    <3>1. CASE End(t)
      BY <3>1, EndStack
    <3>2. CASE ~End(t)
      <4>1. PICK n \in thr[t].todo :
               thr' = [thr EXCEPT ![t].pc = IF Do(t, "remove") THEN "remove_check" ELSE "look",
                                  ![t].todo = @ \ {n},
                                  ![t].from = Append(thr[t].at, n),
                                  ![t].to = thr[t].req.dst]
        BY <2>6, <3>2 DEF WildNext
      <4> QED
        BY <2>1, <2>2, <4>1 DEF ThreadStates
    <3> QED
      BY <3>1, <3>2
  <2>7. CASE Look(t)
    BY <2>1, <2>7, LookBegins
  <2>8. CASE Clear(t)
    BY <2>3, <2>8, EndStack DEF Clear
  <2>9. CASE Check(t)
    BY <2>3, <2>9, EndStack DEF Check
  <2>10. CASE RenameEntry(t) \/ CopyEntry(t)
    <3>1. Done(t) \/ End(t)
      BY <2>10 DEF RenameEntry, CopyEntry
    <3> QED
      BY <3>1, EndStack, DoneStack
  <2>11. CASE RemoveCheck(t)
    <3>1. End(t) \/ thr' = [thr EXCEPT ![t].pc = "remove_do", ![t].dirTo = IsDir(thr[t].from)]
      BY <2>11 DEF RemoveCheck
    <3> QED
      BY <2>1, <2>2, <3>1, EndStack DEF ThreadStates
  <2>12. CASE RemoveDo(t)
    <3>1. Done(t) \/ End(t)
      BY <2>12 DEF RemoveDo
    <3> QED
      BY <3>1, EndStack, DoneStack
  <2> QED
    BY <1>5, <2>4, <2>5, <2>6, <2>7, <2>8, <2>9, <2>10, <2>11, <2>12
<1> QED
  BY <1>1, <1>2, <1>3, <1>4, <1>5 DEF Step, CopyStep

\* The copy at its beginning: all is still to be done.
LEMMA BeginCopies ==
  ASSUME DirInv, NEW t \in Threads, CopyBegins(t), Undisturbed(tree, thr'[t])
  PROVE  CopyOk(tree, tree', thr'[t])
<1> DEFINE x == thr[t]
           f == [src |-> x.from, dst |-> x.to, left |-> {}, cur |-> None]
           y == [x EXCEPT !.pc = "enter", !.stack = <<f>>]
<1>1. /\ x \in ThreadStates /\ FileSystem(tree) /\ x.from \in Seq(Names) /\ x.to \in Seq(Names)
      /\ tree' = tree /\ x.from \in DOMAIN tree /\ tree[x.from] = Dir /\ thr'[t] = y
  BY ThreadIs DEF CopyBegins, ThreadStates, IsDir, Exists
<1>2. /\ y.from = x.from /\ y.to = x.to /\ y.req = x.req /\ y.pc = "enter"
      /\ Len(y.stack) = 1 /\ y.stack[1] = f
  BY <1>1 DEF ThreadStates
<1>3. f.src = x.from /\ f.dst = x.to /\ f.left = {}
  OBVIOUS
<1> HIDE DEF x, y, f
<1>4. IsPrefix(x.from, x.from)
  BY <1>1, PrefixOrder
<1>5. Image(y, x.from) = x.to
  BY <1>1, <1>2, <1>4, ImageIs
<1>6. FramesOk(tree, y)
  <2>1. ASSUME NEW i \in 1..Len(y.stack) PROVE FrameOk(tree, y, i)
    BY <1>2, <1>3, <1>5 DEF FrameOk
  <2> QED
    BY <1>1, <1>2, <2>1 DEF FramesOk
<1>7. ASSUME NEW q \in Selected(tree, y) PROVE Inner(tree, tree, y, q)
  <2>1. q \in Seq(Names) /\ q \in DOMAIN tree /\ IsPrefix(x.from, q) /\ q # x.from
    BY <1>1, <1>2, FileSystemIs DEF Selected
  <2>2. Pending(y, q)
    BY <1>2, <1>3, <2>1 DEF Pending
  <2>3. ASSUME tree[q] = Dir, Image(y, q) \in DOMAIN tree PROVE tree[Image(y, q)] = Dir
    BY <1>1, <1>2, <2>1, <2>3 DEF Undisturbed, FileInTheWay, Image
  <2> QED
    BY <2>2, <2>3 DEF Inner
<1>8. Written(tree, tree, y)
  <2>1. Opened(tree, y)
    BY <1>2 DEF Opened
  <2>2. \A p \in DOMAIN tree \cup DOMAIN tree : Outer(tree, tree, y, p)
    BY DEF Outer
  <2> QED
    BY <1>7, <2>1, <2>2 DEF Written
<1> QED
  BY <1>1, <1>6, <1>8 DEF CopyOk

\* What a copy of a directory has done so far, unless another thread has changed
\* the tree.
CopyInv ==
  \A t \in Threads :
    /\ StackOk(thr[t])
    /\ thr[t].stack # <<>> /\ before[t] # None /\ Undisturbed(before[t], thr[t])
         => CopyOk(before[t], tree, thr[t])

\* A copy keeps its source and its target.
LEMMA CopyKeeps ==
  ASSUME DirInv, NEW t \in Threads, CopyStep(t), thr[t].pc \in Copying, thr'[t].stack # <<>>
  PROVE  thr'[t].from = thr[t].from /\ thr'[t].to = thr[t].to
<1>1. thr[t] \in ThreadStates
  BY ThreadIs
<1>2. \E pc, stack : thr'[t] = [thr[t] EXCEPT !.pc = pc, !.stack = stack]
  <2>1. ASSUME NEW pc, thr'[t] = [thr[t] EXCEPT !.pc = pc]
        PROVE  thr'[t] = [thr[t] EXCEPT !.pc = pc, !.stack = thr[t].stack]
    BY <1>1, <2>1 DEF ThreadStates
  <2>2. ASSUME NEW stack, thr'[t] = [thr[t] EXCEPT !.stack = stack]
        PROVE  thr'[t] = [thr[t] EXCEPT !.pc = thr[t].pc, !.stack = stack]
    BY <1>1, <2>2 DEF ThreadStates
  <2>3. CASE Enter(t)
    BY <2>1, <2>3, EnterMakes
  <2>4. CASE OpenDir(t)
    BY <2>4, OpenDirMakes
  <2>5. CASE Entry(t)
    BY <2>5, EntryMakes
  <2>6. CASE Replace(t)
    <3>1. End(t) \/ Goto(t, "fill")
      BY <2>6 DEF Replace
    <3>2. ASSUME Goto(t, "fill") PROVE thr'[t] = [thr[t] EXCEPT !.pc = "fill"]
      BY <3>2, GotoStack
    <3>3. End(t) => thr'[t].stack = <<>>
      BY EndStack
    <3> QED
      BY <2>1, <3>1, <3>2, <3>3
  <2>7. CASE Fill(t)
    BY <2>7, FillMakes
  <2>8. CASE Leave(t)
    BY <2>2, <2>8, LeaveMakes
  <2> QED
    BY <2>3, <2>4, <2>5, <2>6, <2>7, <2>8 DEF CopyStep
<1> QED
  BY <1>1, <1>2 DEF ThreadStates

\* A copy whose stack is not empty is at one of its steps.
LEMMA CopyStays ==
  ASSUME DirInv, NEW t \in Threads, CopyStep(t), thr[t].pc \in Copying, thr'[t].stack # <<>>
  PROVE  thr'[t].pc \in Copying
<1>1. CASE Leave(t)
  <2>1. thr[t].pc = "entries" /\ thr'[t] = [thr[t] EXCEPT !.stack = Tail(thr[t].stack)]
    BY <1>1, LeaveMakes
  <2> QED
    BY <2>1, ThreadIs DEF Copying, ThreadStates
<1>2. CASE Entry(t)
  BY <1>2, EntryIs
<1>3. CASE Enter(t) \/ OpenDir(t) \/ Replace(t) \/ Fill(t)
  <2>1. ~End(t)
    BY EndStack
  <2>2. thr[t] \in ThreadStates /\ thr \in [Threads -> ThreadStates]
    BY ThreadIs
  <2>3. CASE Enter(t)
    BY <2>1, <2>2, <2>3 DEF Enter, Goto, Copying, ThreadStates
  <2>4. CASE OpenDir(t)
    <3>1. PICK stack : thr'[t] = [thr[t] EXCEPT !.pc = "entries", !.stack = stack]
      BY <2>4, OpenDirMakes
    <3> QED
      BY <2>2, <3>1 DEF Copying, ThreadStates
  <2>5. CASE Replace(t)
    BY <2>1, <2>2, <2>5 DEF Replace, Goto, Copying, ThreadStates
  <2>6. CASE Fill(t)
    BY <2>1, <2>2, <2>6, FillMakes DEF Copying, ThreadStates
  <2> QED
    BY <1>3, <2>3, <2>4, <2>5, <2>6
<1> QED
  BY <1>1, <1>2, <1>3 DEF CopyStep

\* Every step keeps it.
LEMMA CopyInvStep ==
  ASSUME DirInv, DirInv', CopyInv, NEW t \in Threads, Step(t), Recall(t)
  PROVE  CopyInv'
<1>1. SUFFICES ASSUME NEW u \in Threads
               PROVE  /\ StackOk(thr'[u])
                      /\ /\ thr'[u].stack # <<>> /\ before'[u] # None
                         /\ Undisturbed(before'[u], thr'[u])
                         => CopyOk(before'[u], tree', thr'[u])
  BY DEF CopyInv
<1>2. /\ StackOk(thr[u])
      /\ thr[u].stack # <<>> /\ before[u] # None /\ Undisturbed(before[u], thr[u])
           => CopyOk(before[u], tree, thr[u])
  BY DEF CopyInv
<1>3. CASE u # t
  <2>1. thr'[u] = thr[u]
    BY <1>3, StepOfThread, ThreadIs DEF ThreadStep
  <2>2. before'[u] = IF tree' = tree THEN before[u] ELSE None
    BY <1>3 DEF Recall
  <2> QED
    BY <1>2, <2>1, <2>2
<1>4. CASE u = t
  <2>1. before'[t] = IF thr'[t].stack = <<>> THEN None
                     ELSE IF thr[t].stack = <<>> THEN tree ELSE before[t]
    BY DEF Recall
  <2>2. CASE thr'[t].stack = <<>>
    BY <1>4, <2>2, <2>1 DEF StackOk
  <2>3. CASE CopyBegins(t) /\ thr[t].stack = <<>> /\ thr'[t].stack # <<>>
    <3>1. thr'[t].pc = "enter"
      BY <2>3, ThreadIs DEF CopyBegins, ThreadStates
    <3>2. before'[t] = tree
      BY <2>1, <2>3
    <3> QED
      BY <1>4, <2>3, <3>1, <3>2, BeginCopies DEF StackOk, Copying
  <2>4. CASE CopyStep(t) /\ thr[t].pc \in Copying /\ thr'[t].stack # <<>>
    <3>1. thr[t].stack # <<>>
      BY <2>4, ThreadIs DEF CallOk
    <3>2. before'[t] = before[t] /\ thr'[t].from = thr[t].from /\ thr'[t].to = thr[t].to
      BY <2>1, <2>4, <3>1, CopyKeeps
    <3>3. thr'[t].pc \in Copying
      BY <2>4, CopyStays
    <3>4. ASSUME before'[t] # None, Undisturbed(before'[t], thr'[t])
          PROVE  CopyOk(before[t], tree', thr'[t])
      <4>1. Undisturbed(before[t], thr[t])
        BY <3>2, <3>4 DEF Undisturbed
      <4>2. CopyOk(before[t], tree, thr[t])
        BY <1>2, <1>4, <3>1, <3>2, <3>4, <4>1
      <4>3. FileSystem(tree')
        BY TreeKept
      <4> QED
        BY <2>4, <4>1, <4>2, <4>3, EnterCopies, OpenDirCopies, EntryCopies, ReplaceCopies,
           FillCopies, LeaveCopies DEF CopyStep
    <3> QED
      BY <1>4, <3>2, <3>3, <3>4 DEF StackOk
  <2> QED
    BY <1>2, <1>4, <2>2, <2>3, <2>4, StackStep
<1> QED
  BY <1>3, <1>4

\* At its end nothing is left to do.
LEMMA CopyEnds ==
  ASSUME NEW x \in ThreadStates, NEW b, FileSystem(b), FileSystem(tree), Undisturbed(b, x),
         CopyOk(b, tree, x), x.pc = "entries", Len(x.stack) = 1, x.stack[1].left = {}
  PROVE  tree = Copied(b, x.from, x.to, "Recursive" \in x.req.flags)
<1> DEFINE recursive == "Recursive" \in x.req.flags
           sel  == {p \in DOMAIN b : /\ IsStrictPrefix(x.from, p)
                                     /\ recursive \/ (b[p] # Dir /\ Parent(p) = x.from)}
           rels == {Tail2(x.from, q) : q \in sel}
           new  == {x.to \o r : r \in rels}
           dom  == DOMAIN b \cup new \cup {p \in Paths : IsPrefix(p, x.to)}
           val(q) == IF q \in new THEN b[x.from \o Tail2(x.to, q)]
                     ELSE IF q \in DOMAIN b THEN b[q] ELSE Dir
<1>1. Copied(b, x.from, x.to, recursive) = [q \in dom |-> val(q)]
  BY DEF Copied
<1>2. sel = Selected(b, x)
  BY DEF Selected, IsStrictPrefix, Parent
<1>3. new = {Image(x, q) : q \in Selected(b, x)}
  BY <1>2 DEF Image
<1> HIDE DEF sel, new
<1>4. x.from \in Seq(Names) /\ x.to \in Seq(Names) /\ Written(b, tree, x)
  BY DEF ThreadStates, CopyOk
<1>5. ASSUME NEW q PROVE ~Pending(x, q)
  BY DEF Pending
<1>6. ASSUME NEW q \in Selected(b, x)
      PROVE  Image(x, q) \in DOMAIN tree /\ tree[Image(x, q)] = b[q]
  BY <1>4, <1>5 DEF Written, Inner
<1>7. x.to \in DOMAIN tree
  BY <1>4 DEF Written, Opened
<1>8. ASSUME NEW p \in DOMAIN b \cup DOMAIN tree
      PROVE  p \in DOMAIN tree /\ p \in dom /\ tree[p] = val(p)
  <2>1. Outer(b, tree, x, p)
    BY <1>4 DEF Written
  <2>2. CASE p \in new
    <3>1. PICK q \in Selected(b, x) : p = Image(x, q)
      BY <1>3, <2>2
    <3>2. Origin(x, p) = q
      BY <3>1, SelectedIs
    <3> QED
      BY <1>6, <2>2, <3>1, <3>2 DEF Origin
  <2>3. CASE p \notin new /\ p \in DOMAIN b /\ p \in DOMAIN tree /\ tree[p] = b[p]
    BY <2>3
  <2>4. CASE p \notin new /\ p \notin DOMAIN b /\ IsPrefix(p, x.to) /\ tree[p] = Dir
    <3>1. p \in DOMAIN tree
      BY <2>4
    <3>2. p \in Paths
      BY <3>1, FileSystemIs
    <3> QED
      BY <2>4, <3>1, <3>2
  <2> QED
    BY <1>3, <2>1, <2>2, <2>3, <2>4 DEF Outer
<1>9. ASSUME NEW p \in dom PROVE p \in DOMAIN tree
  <2>1. CASE p \in DOMAIN b
    BY <1>8, <2>1
  <2>2. CASE p \in new
    BY <1>3, <1>6, <2>2
  <2>3. CASE p \in Paths /\ IsPrefix(p, x.to)
    <3>1. p \in Seq(Names)
      BY <2>3, PathsAre
    <3> QED
      BY <1>4, <1>7, <2>3, <3>1, Ancestors
  <2> QED
    BY <1>9, <2>1, <2>2, <2>3
<1>10. DOMAIN tree = dom
  BY <1>8, <1>9
<1>11. tree = [q \in DOMAIN tree |-> tree[q]]
  BY DEF FileSystem
<1> HIDE DEF dom, val
<1>12. \A q \in DOMAIN tree : tree[q] = val(q)
  BY <1>8
<1> QED
  BY <1>1, <1>10, <1>11, <1>12

\* It holds always.
LEMMA CopyInvariant == Spec => []CopyInv
<1>1. Init => CopyInv
  BY DEF Init, CopyInv, StackOk, Idle
<1>2. DirInv /\ DirInv' /\ CopyInv /\ [Next]_vars => CopyInv'
  <2>1. SUFFICES ASSUME DirInv, DirInv', CopyInv, [Next]_vars PROVE CopyInv'
    OBVIOUS
  <2>2. CASE \E t \in Threads : Step(t) /\ Recall(t)
    BY <2>1, <2>2, CopyInvStep
  <2>3. CASE UNCHANGED <<tree, thr, before>>
    BY <2>1, <2>3 DEF CopyInv, CopyOk, Written, Outer, Opened, Inner
  <2> QED
    BY <2>1, <2>2, <2>3 DEF Next, Close, vars
<1> QED
  BY <1>1, <1>2, DirectoryInvariant, PTL DEF Spec

\* A copy of a directory that gets to its end has copied what was there when it
\* began, all of it and nothing else, at any depth and in whichever order the
\* entries came, unless another thread has changed the tree (copy_directory of
\* default_namespace_dir_impl.hpp and its recursion).
THEOREM CopiesAreUnions == Spec => []CopyIsUnion
<1>1. ASSUME DirInv, CopyInv PROVE CopyIsUnion
  <2>1. SUFFICES ASSUME NEW t \in Threads, At(t, "entries"), ~Nested(t), Top(t).left = {},
                        before[t] # None, Undisturbed(before[t], thr[t])
                 PROVE  tree = Copied(before[t], thr[t].from, thr[t].to, Flag(t, "Recursive"))
    BY DEF CopyIsUnion, Undisturbed
  <2>2. thr[t].pc = "entries" /\ thr[t].pc \in Copying
    BY <2>1 DEF At, Copying
  <2>3. /\ thr[t].stack # <<>> /\ Len(thr[t].stack) \in Nat \ {0} /\ Top(t) = thr[t].stack[1]
        /\ thr[t] \in ThreadStates /\ FileSystem(tree)
    BY <1>1, <2>2, TopIs, ThreadIs
  <2>4. CopyOk(before[t], tree, thr[t])
    BY <1>1, <2>1, <2>3 DEF CopyInv
  <2>5. Len(thr[t].stack) = 1 /\ thr[t].stack[1].left = {}
    <3>1. ~(Len(thr[t].stack) > 1)
      BY <2>1 DEF Nested
    <3>2. Len(thr[t].stack) = 1
      <4> DEFINE n == Len(thr[t].stack)
      <4>1. n \in Nat /\ n # 0 /\ ~(n > 1)
        BY <2>3, <3>1
      <4> HIDE DEF n
      <4>2. n = 1
        BY <4>1
      <4> QED
        BY <4>2 DEF n
    <3>3. thr[t].stack[1].left = {}
      BY <2>1, <2>3
    <3> QED
      BY <3>2, <3>3
  <2>6. FileSystem(before[t])
    BY <2>4 DEF CopyOk
  <2> QED
    BY <2>1, <2>2, <2>3, <2>4, <2>5, <2>6, CopyEnds DEF Flag
<1> QED
  BY <1>1, CopyInvariant, DirectoryInvariant, PTL

=============================================================================
