---------------------------- MODULE RewriterProofs ----------------------------
(***************************************************************************)
(* Theorems about Rewriter, for all descriptions and all schedule trees:   *)
(* lemmas about positions, about the operations on trees, then the         *)
(* recursion of insertAt and the walk of mergeIfTilable.                   *)
(***************************************************************************)
EXTENDS Rewriter, WellFoundedInduction, TLAPS, SequenceTheorems, FiniteSetTheorems

-----------------------------------------------------------------------------
(* Natural numbers *)

\* A non-empty set of natural numbers has a least element: what a CHOOSE of the
\* least position with some property selects exists.
LEMMA LeastElement ==
  ASSUME NEW S, S \subseteq Nat, S # {}
  PROVE  \E x \in S : \A y \in S : x <= y
<1>. DEFINE Less == OpToRel(<, Nat)
<1>1. IsWellFoundedOn(Less, Nat)
  BY NatLessThanWellFounded
<1>2. \A a, b \in Nat : a < b => <<a, b>> \in Less
  BY DEF OpToRel
<1>. HIDE DEF Less
<1>3. PICK x \in S : \A y \in S : ~ (<<y, x>> \in Less)
  BY <1>1, WFMin
<1>4. \A y \in S : ~ (y < x)
  BY <1>2, <1>3
<1>. QED  BY <1>4

-----------------------------------------------------------------------------
(* Positions *)

LEMMA PrefixEntries ==
  ASSUME NEW p \in Position, NEW q \in Position
  PROVE  IsPrefix(p, q) <=> Len(p) <= Len(q) /\ \A i \in 1..Len(p) : p[i] = q[i]
<1>1. /\ Len(p) \in Nat /\ Len(q) \in Nat
      /\ p \in Seq(Nat \ {0}) /\ q \in Seq(Nat \ {0})
  BY DEF Position
<1>2. ASSUME Len(p) <= Len(q)
      PROVE  SubSeq(p, 1, Len(p)) = SubSeq(q, 1, Len(p))
               <=> \A i \in 1..Len(p) : p[i] = q[i]
  <2>1. SubSeq(p, 1, Len(p)) = p
    BY <1>1, SubSeqFull
  <2>2. SubSeq(q, 1, Len(p)) = [i \in 1..Len(p) |-> q[i]]
    BY <1>1, <1>2, SubSeqRestrict
  <2>3. p = [i \in 1..Len(p) |-> p[i]]
    BY <1>1
  <2>. QED  BY <2>1, <2>2, <2>3
<1>. QED  BY <1>2 DEF IsPrefix

LEMMA AppendPosition ==
  ASSUME NEW p \in Position, NEW i \in Nat \ {0}
  PROVE  /\ Append(p, i) \in Position /\ Append(p, i) # << >>
         /\ Front(Append(p, i)) = p /\ Last(Append(p, i)) = i
         /\ Len(Append(p, i)) = Len(p) + 1
         /\ p \o <<i>> = Append(p, i)
<1>1. p \in Seq(Nat \ {0}) /\ Len(p) \in Nat
  BY DEF Position
<1>2. /\ Append(p, i) \in Seq(Nat \ {0}) /\ Append(p, i) # << >>
      /\ Len(Append(p, i)) = Len(p) + 1
      /\ \A j \in 1..Len(p) : Append(p, i)[j] = p[j]
      /\ Append(p, i)[Len(p) + 1] = i
  BY <1>1, AppendProperties
<1>3. Front(Append(p, i)) = p
  <2>1. SubSeq(Append(p, i), 1, Len(p)) = p
    BY <1>1
  <2>. QED  BY <1>1, <1>2, <2>1 DEF Front
<1>. QED  BY <1>1, <1>2, <1>3, AppendIsConcat DEF Position, Last

LEMMA FrontPosition ==
  ASSUME NEW q \in Position, q # << >>
  PROVE  /\ Front(q) \in Position /\ Last(q) \in Nat \ {0}
         /\ Len(Front(q)) = Len(q) - 1 /\ Len(q) \in Nat \ {0}
         /\ \A i \in 1..(Len(q) - 1) : Front(q)[i] = q[i]
         /\ q = Append(Front(q), Last(q))
<1>1. q \in Seq(Nat \ {0}) /\ Len(q) \in Nat \ {0}
  BY DEF Position
<1>2. PICK s \in Seq(Nat \ {0}), e \in Nat \ {0} : q = Append(s, e)
  BY <1>1, SequenceEmptyOrAppend
<1>3. Front(q) = s /\ Last(q) = e /\ Len(q) = Len(s) + 1
  BY <1>2, AppendPosition DEF Position
<1>4. \A i \in 1..Len(s) : s[i] = q[i]
  BY <1>2, AppendProperties
<1>. QED  BY <1>1, <1>2, <1>3, <1>4, LenProperties DEF Position

LEMMA PrefixOrder ==
  ASSUME NEW p \in Position, NEW q \in Position, NEW r \in Position
  PROVE  /\ IsPrefix(p, p) /\ IsPrefix(<< >>, p)
         /\ IsPrefix(p, q) /\ IsPrefix(q, r) => IsPrefix(p, r)
         /\ IsPrefix(p, q) /\ IsPrefix(q, p) => p = q
         /\ IsPrefix(p, r) /\ IsPrefix(q, r) => IsPrefix(p, q) \/ IsPrefix(q, p)
         /\ IsPrefix(p, << >>) => p = << >>
<1>1. << >> \in Position /\ Len(<< >>) = 0
  BY DEF Position
<1>2. /\ Len(p) \in Nat /\ Len(q) \in Nat /\ Len(r) \in Nat
      /\ p = [i \in 1..Len(p) |-> p[i]] /\ q = [i \in 1..Len(q) |-> q[i]]
  BY DEF Position
<1>3. IsPrefix(p, p) /\ IsPrefix(<< >>, p)
  BY <1>1, <1>2, PrefixEntries
<1>4. IsPrefix(p, q) /\ IsPrefix(q, r) => IsPrefix(p, r)
  BY <1>2, PrefixEntries
<1>5. IsPrefix(p, q) /\ IsPrefix(q, p) => p = q
  <2>1. SUFFICES ASSUME IsPrefix(p, q), IsPrefix(q, p) PROVE p = q
    OBVIOUS
  <2>3. Len(p) <= Len(q) /\ \A i \in 1..Len(p) : p[i] = q[i]
    BY <2>1, PrefixEntries
  <2>4. Len(q) <= Len(p)
    BY <2>1, PrefixEntries
  <2>2. Len(p) = Len(q) /\ \A i \in 1..Len(p) : p[i] = q[i]
    <3>1. Len(p) \in Nat /\ Len(q) \in Nat
      BY <1>2
    <3>. QED  BY <2>3, <2>4, <3>1
  <2>. QED  BY <1>2, <2>2
<1>6. IsPrefix(p, r) /\ IsPrefix(q, r) => IsPrefix(p, q) \/ IsPrefix(q, p)
  <2>1. SUFFICES ASSUME IsPrefix(p, r), IsPrefix(q, r)
                 PROVE  IsPrefix(p, q) \/ IsPrefix(q, p)
    OBVIOUS
  <2>2. Len(p) <= Len(r) /\ \A i \in 1..Len(p) : p[i] = r[i]
    BY <2>1, PrefixEntries
  <2>3. Len(q) <= Len(r) /\ \A i \in 1..Len(q) : q[i] = r[i]
    BY <2>1, PrefixEntries
  <2>4. CASE Len(p) <= Len(q)
    <3>1. \A i \in 1..Len(p) : p[i] = q[i]
      BY <1>2, <2>2, <2>3, <2>4
    <3>. QED  BY <2>4, <3>1, PrefixEntries
  <2>5. CASE Len(q) <= Len(p)
    <3>1. \A i \in 1..Len(q) : q[i] = p[i]
      BY <1>2, <2>2, <2>3, <2>5
    <3>. QED  BY <2>5, <3>1, PrefixEntries
  <2>. QED  BY <1>2, <2>4, <2>5
<1>7. IsPrefix(p, << >>) => p = << >>
  <2>1. IsPrefix(p, << >>) => Len(p) <= 0
    BY <1>1, PrefixEntries
  <2>. QED  BY <1>2, <2>1 DEF Position
<1>. QED  BY <1>3, <1>4, <1>5, <1>6, <1>7

LEMMA ConcatPosition ==
  ASSUME NEW p \in Position, NEW r \in Position
  PROVE  /\ p \o r \in Position /\ IsPrefix(p, p \o r) /\ From(p, p \o r) = r
         /\ r # << >> => p \o r # p
         /\ p \o << >> = p /\ << >> \o p = p
<1>1. p \in Seq(Nat \ {0}) /\ r \in Seq(Nat \ {0}) /\ Len(p) \in Nat /\ Len(r) \in Nat
  BY DEF Position
<1>2. p \o r \in Position
  BY <1>1, ConcatProperties DEF Position
<1>3. /\ Len(p \o r) = Len(p) + Len(r)
      /\ \A i \in 1..Len(p) : (p \o r)[i] = p[i]
  BY <1>1, ConcatProperties
<1>4. IsPrefix(p, p \o r)
  <2>. DEFINE q == p \o r
  <2>1. q \in Position /\ Len(p) <= Len(q) /\ \A i \in 1..Len(p) : p[i] = q[i]
    BY <1>1, <1>2, <1>3
  <2>. HIDE DEF q
  <2>2. IsPrefix(p, q)
    BY <2>1, PrefixEntries
  <2>. QED  BY <2>2 DEF q
<1>5. From(p, p \o r) = r
  BY <1>1, <1>3, ConcatProperties, SubSeqOfConcat2, SubSeqFull DEF From
<1>6. r # << >> => p \o r # p
  BY <1>1, <1>3
<1>7. p \o << >> = p /\ << >> \o p = p
  BY <1>1, ConcatEmptySeq
<1>. QED  BY <1>2, <1>4, <1>5, <1>6, <1>7

LEMMA PrefixFrom ==
  ASSUME NEW p \in Position, NEW q \in Position, IsPrefix(p, q)
  PROVE  /\ From(p, q) \in Position /\ p \o From(p, q) = q
         /\ From(p, q) = << >> => p = q
<1>1. p \in Seq(Nat \ {0}) /\ q \in Seq(Nat \ {0}) /\ Len(p) \in Nat /\ Len(q) \in Nat
  BY DEF Position
<1>2. Len(p) <= Len(q) /\ p = SubSeq(q, 1, Len(p))
  BY <1>1, SubSeqFull DEF IsPrefix
<1>3. From(p, q) \in Seq(Nat \ {0})
  BY <1>1, <1>2, SubSeqProperties DEF From
<1>4. SubSeq(q, 1, Len(p)) \o SubSeq(q, Len(p) + 1, Len(q)) = SubSeq(q, 1, Len(q))
  <2>1. Len(p) \in 0..Len(q) /\ Len(p) \in 1-1..Len(q) /\ 1 \in 1..(Len(q) + 1)
        /\ Len(q) \in Len(p)..Len(q)
    BY <1>1, <1>2
  <2>. QED  BY <1>1, <2>1, ConcatAdjacentSubSeq
<1>5. p \o From(p, q) = q
  BY <1>1, <1>2, <1>4, SubSeqFull DEF From
<1>. QED  BY <1>1, <1>3, <1>5, ConcatEmptySeq DEF Position

LEMMA ConcatAppend ==
  ASSUME NEW p \in Position, NEW r \in Position, NEW i \in Nat \ {0}
  PROVE  p \o Append(r, i) = Append(p \o r, i)
<1>1. p \o (r \o <<i>>) = (p \o r) \o <<i>>
  BY ConcatAssociative DEF Position
<1>. QED  BY <1>1, AppendPosition, ConcatPosition

LEMMA ConcatFront ==
  ASSUME NEW p \in Position, NEW r \in Position, r # << >>
  PROVE  Front(p \o r) = p \o Front(r) /\ Last(p \o r) = Last(r) /\ p \o r # << >>
<1>1. Front(r) \in Position /\ Last(r) \in Nat \ {0} /\ r = Append(Front(r), Last(r))
  BY FrontPosition
<1>2. p \o r = Append(p \o Front(r), Last(r))
  <2>. DEFINE f == Front(r)
              l == Last(r)
  <2>1. f \in Position /\ l \in Nat \ {0} /\ r = Append(f, l)
    BY <1>1
  <2>. HIDE DEF f, l
  <2>2. p \o Append(f, l) = Append(p \o f, l)
    BY <2>1, ConcatAppend
  <2>3. p \o r = Append(p \o f, l)
    BY <2>1, <2>2
  <2>. QED  BY <2>3 DEF f, l
<1>3. p \o Front(r) \in Position
  BY <1>1, ConcatPosition
<1>. DEFINE b == p \o Front(r)
            i == Last(r)
<1>4. b \in Position /\ i \in Nat \ {0} /\ p \o r = Append(b, i)
  BY <1>1, <1>2, <1>3
<1>. HIDE DEF b, i
<1>5. Front(p \o r) = b /\ Last(p \o r) = i /\ p \o r # << >>
  BY <1>4, AppendPosition
<1>. QED  BY <1>5 DEF b, i

LEMMA PrefixFront ==
  ASSUME NEW p \in Position, NEW q \in Position, q # << >>
  PROVE  /\ IsPrefix(p, q) <=> p = q \/ IsPrefix(p, Front(q))
         /\ IsPrefix(Front(q), q) /\ Front(q) # q
<1>1. /\ Front(q) \in Position /\ Len(q) \in Nat \ {0} /\ Len(p) \in Nat
      /\ Len(Front(q)) = Len(q) - 1
      /\ \A i \in 1..(Len(q) - 1) : Front(q)[i] = q[i]
  BY FrontPosition DEF Position
<1>2. IsPrefix(Front(q), q) /\ Front(q) # q
  BY <1>1, PrefixEntries
<1>3. ASSUME IsPrefix(p, Front(q)) PROVE IsPrefix(p, q)
  BY <1>1, <1>2, <1>3, PrefixOrder
<1>4. ASSUME IsPrefix(p, q) PROVE p = q \/ IsPrefix(p, Front(q))
  <2>1. Len(p) <= Len(q) /\ \A i \in 1..Len(p) : p[i] = q[i]
    BY <1>4, PrefixEntries
  <2>2. CASE Len(p) = Len(q)
    <3>1. IsPrefix(q, p)
      BY <2>1, <2>2, PrefixEntries
    <3>. QED  BY <1>4, <3>1, PrefixOrder
  <2>3. CASE Len(p) # Len(q)
    <3>1. Len(p) <= Len(Front(q))
      BY <1>1, <2>1, <2>3
    <3>2. \A i \in 1..Len(p) : p[i] = Front(q)[i]
      BY <1>1, <2>1, <3>1
    <3>. QED  BY <1>1, <3>1, <3>2, PrefixEntries
  <2>. QED  BY <2>2, <2>3
<1>5. IsPrefix(p, p)
  BY PrefixOrder
<1>. QED  BY <1>2, <1>3, <1>4, <1>5

LEMMA PrefixAppend ==
  ASSUME NEW p \in Position, NEW q \in Position, NEW i \in Nat \ {0}
  PROVE  /\ IsPrefix(p, Append(q, i)) <=> p = Append(q, i) \/ IsPrefix(p, q)
         /\ IsPrefix(q, Append(q, i)) /\ Append(q, i) # q
<1>. DEFINE r == Append(q, i)
<1>1. r \in Position /\ r # << >> /\ Front(r) = q
  BY AppendPosition
<1>. HIDE DEF r
<1>2. (IsPrefix(p, r) <=> p = r \/ IsPrefix(p, Front(r))) /\ IsPrefix(Front(r), r) /\ Front(r) # r
  BY <1>1, PrefixFront
<1>. QED  BY <1>1, <1>2 DEF r

LEMMA PrefixConcat ==
  ASSUME NEW b \in Position, NEW p \in Position, NEW q \in Position
  PROVE  IsPrefix(b \o p, b \o q) <=> IsPrefix(p, q)
<1>1. /\ b \in Seq(Nat \ {0}) /\ p \in Seq(Nat \ {0}) /\ q \in Seq(Nat \ {0})
      /\ Len(b) \in Nat /\ Len(p) \in Nat /\ Len(q) \in Nat
      /\ b \o p \in Position /\ b \o q \in Position
  BY ConcatPosition DEF Position
<1>2. /\ Len(b \o p) = Len(b) + Len(p) /\ Len(b \o q) = Len(b) + Len(q)
      /\ \A i \in 1..Len(b) : (b \o p)[i] = b[i] /\ (b \o q)[i] = b[i]
      /\ \A i \in 1..Len(p) : (b \o p)[Len(b) + i] = p[i]
      /\ \A i \in 1..Len(q) : (b \o q)[Len(b) + i] = q[i]
  BY <1>1, ConcatProperties
<1>3. ASSUME IsPrefix(p, q) PROVE IsPrefix(b \o p, b \o q)
  <2>1. From(p, q) \in Position /\ p \o From(p, q) = q
    BY <1>3, PrefixFrom
  <2>. DEFINE f == From(p, q)
  <2>4. f \in Seq(Nat \ {0})
    BY <2>1 DEF Position
  <2>. HIDE DEF f
  <2>5. (b \o p) \o f = b \o (p \o f)
    BY ONLY <1>1, <2>4, ConcatAssociative, SMTT(30)
  <2>2. b \o (p \o From(p, q)) = (b \o p) \o From(p, q)
    BY <2>5 DEF f
  <2>3. IsPrefix(b \o p, (b \o p) \o From(p, q))
    BY <1>1, <2>1, ConcatPosition
  <2>. QED  BY <2>1, <2>2, <2>3
<1>4. ASSUME IsPrefix(b \o p, b \o q) PROVE IsPrefix(p, q)
  <2>1. /\ Len(b \o p) <= Len(b \o q)
        /\ \A i \in 1..Len(b \o p) : (b \o p)[i] = (b \o q)[i]
    BY <1>1, <1>4, PrefixEntries
  <2>2. Len(p) <= Len(q)
    BY <1>1, <1>2, <2>1
  <2>3. ASSUME NEW i \in 1..Len(p) PROVE p[i] = q[i]
    <3>1. Len(b) + i \in 1..Len(b \o p) /\ i \in 1..Len(q)
      BY <1>1, <1>2, <2>2
    <3>. QED  BY <1>2, <2>1, <3>1
  <2>. QED  BY <2>2, <2>3, PrefixEntries
<1>. QED  BY <1>3, <1>4

\* The step from a position to one below it.
LEMMA NextBelow ==
  ASSUME NEW p \in Position, NEW q \in Position, IsPrefix(p, q), p # q
  PROVE  /\ Len(p) < Len(q) /\ q[Len(p) + 1] \in Nat \ {0}
         /\ IsPrefix(Append(p, q[Len(p) + 1]), q)
<1>1. /\ p \in Seq(Nat \ {0}) /\ q \in Seq(Nat \ {0}) /\ Len(p) \in Nat /\ Len(q) \in Nat
  BY DEF Position
<1>2. Len(p) <= Len(q) /\ \A i \in 1..Len(p) : p[i] = q[i]
  BY PrefixEntries
<1>3. Len(p) # Len(q)
  <2>1. SUFFICES ASSUME Len(p) = Len(q) PROVE FALSE
    OBVIOUS
  <2>2. IsPrefix(q, p)
    BY <1>1, <1>2, <2>1, PrefixEntries
  <2>. QED  BY <2>2, PrefixOrder
<1>4. Len(p) < Len(q) /\ Len(p) + 1 \in 1..Len(q)
  BY <1>1, <1>2, <1>3
<1>. DEFINE i == q[Len(p) + 1]
            r == Append(p, i)
<1>5. i \in Nat \ {0}
  BY <1>1, <1>4
<1>6. r \in Position /\ Len(r) = Len(p) + 1
  BY <1>5, AppendPosition
<1>7. \A j \in 1..Len(r) : r[j] = q[j]
  BY <1>1, <1>2, <1>5, <1>6, AppendProperties
<1>. HIDE DEF r
<1>8. IsPrefix(r, q)
  BY <1>1, <1>4, <1>6, <1>7, PrefixEntries
<1>. QED  BY <1>4, <1>5, <1>8 DEF r

-----------------------------------------------------------------------------
(* Shapes *)

LEMMA ShapeFacts ==
  ASSUME NEW tree, IsShape(tree)
  PROVE  /\ IsFiniteSet(DOMAIN tree) /\ << >> \in DOMAIN tree
         /\ \A q \in DOMAIN tree : q \in Position
         /\ \A q \in DOMAIN tree : q # << >> =>
              Front(q) \in DOMAIN tree
              /\ \A i \in 1..Last(q) : Append(Front(q), i) \in DOMAIN tree
BY DEF IsShape

\* All positions above one of a tree are in the tree.
LEMMA AboveAreThere ==
  ASSUME NEW tree, IsShape(tree), NEW q \in DOMAIN tree, NEW p \in Position,
         IsPrefix(p, q)
  PROVE  p \in DOMAIN tree
<1>. DEFINE S == {n \in Nat : \E r \in DOMAIN tree : Len(r) = n /\ IsPrefix(p, r)}
<1>1. \A r \in DOMAIN tree : r \in Position /\ Len(r) \in Nat
  BY ShapeFacts DEF Position
<1>2. Len(q) \in S
  BY <1>1
<1>3. PICK n \in S : \A m \in S : n <= m
  <2>1. S \subseteq Nat /\ S # {}
    BY <1>2
  <2>. QED  BY <2>1, LeastElement
<1>4. PICK r \in DOMAIN tree : Len(r) = n /\ IsPrefix(p, r)
  BY <1>3
<1>5. CASE p = r
  BY <1>4, <1>5
<1>6. CASE p # r
  <2>1. r # << >>
    BY <1>1, <1>4, <1>6, PrefixOrder
  <2>2. Front(r) \in DOMAIN tree /\ Len(Front(r)) = n - 1 /\ n \in Nat \ {0}
    BY <1>1, <1>4, <2>1, ShapeFacts, FrontPosition
  <2>3. IsPrefix(p, Front(r))
    BY <1>1, <1>4, <1>6, <2>1, PrefixFront
  <2>4. n - 1 \in S
    BY <2>2, <2>3
  <2>. QED  BY <1>3, <2>2, <2>4
<1>. QED  BY <1>5, <1>6

\* Children are numbered from one.
LEMMA ChildrenAreNumbered ==
  ASSUME NEW tree, IsShape(tree), NEW p \in DOMAIN tree
  PROVE  /\ NChildren(tree, p) \in Nat
         /\ \A i \in Nat \ {0} : Append(p, i) \in DOMAIN tree <=> i <= NChildren(tree, p)
<1>. DEFINE K == {i \in Nat \ {0} : Append(p, i) \in DOMAIN tree}
            C == Children(tree, p)
            f == [i \in K |-> Append(p, i)]
<1>1. p \in Position /\ Len(p) \in Nat
  BY ShapeFacts DEF Position
<1>2. \A i \in K : Append(p, i) \in C
  <2>1. SUFFICES ASSUME NEW i \in K PROVE Append(p, i) \in C
    OBVIOUS
  <2>2. Append(p, i) \in DOMAIN tree /\ Len(Append(p, i)) = Len(p) + 1
    BY <1>1, AppendPosition
  <2>3. IsPrefix(p, Append(p, i))
    BY <1>1, PrefixAppend
  <2>. QED  BY <2>2, <2>3 DEF Children
<1>3. \A q \in C : \E i \in K : q = Append(p, i)
  <2>1. SUFFICES ASSUME NEW q \in C PROVE \E i \in K : q = Append(p, i)
    OBVIOUS
  <2>2. q \in DOMAIN tree /\ q \in Position /\ Len(q) = Len(p) + 1 /\ IsPrefix(p, q)
    BY ShapeFacts DEF Children
  <2>3. q # << >>
    BY <1>1, <2>2
  <2>4. /\ Front(q) \in Position /\ Last(q) \in Nat \ {0} /\ Len(Front(q)) = Len(q) - 1
        /\ q = Append(Front(q), Last(q))
    BY <2>2, <2>3, FrontPosition
  <2>5. p # q
    BY <1>1, <2>2
  <2>6. IsPrefix(p, Front(q))
    BY <1>1, <2>2, <2>3, <2>5, PrefixFront
  <2>7. p = Front(q)
    <3>1. SUFFICES ASSUME p # Front(q) PROVE FALSE
      OBVIOUS
    <3>2. Len(p) < Len(Front(q))
      BY <1>1, <2>4, <2>6, <3>1, NextBelow
    <3>. QED  BY <1>1, <2>2, <2>4, <3>2
  <2>. QED  BY <2>2, <2>4, <2>7
<1>4. f \in Bijection(K, C)
  <2>1. f \in [K -> C]
    BY <1>2
  <2>2. ASSUME NEW i \in K, NEW j \in K, f[i] = f[j] PROVE i = j
    <3>1. Last(Append(p, i)) = i /\ Last(Append(p, j)) = j
      BY <1>1, AppendPosition
    <3>. QED  BY <2>2, <3>1
  <2>3. \A q \in C : \E i \in K : f[i] = q
    BY <1>3
  <2>. HIDE DEF f, K, C
  <2>. QED  BY <2>1, <2>2, <2>3 DEF Bijection, Injection, Surjection, IsInjective
<1>5. IsFiniteSet(C)
  BY ShapeFacts, FS_Subset DEF Children
<1>6. IsFiniteSet(K) /\ Cardinality(K) = Cardinality(C)
  <2>. HIDE DEF f, K, C
  <2>1. f \in Injection(K, C)
    BY <1>4 DEF Bijection
  <2>2. IsFiniteSet(K)
    BY <1>5, <2>1, FS_Injection
  <2>3. ExistsBijection(K, C)
    BY <1>4 DEF ExistsBijection
  <2>. QED  BY <2>2, <2>3, FS_Bijection
<1>7. ASSUME NEW i \in K, NEW j \in Nat \ {0}, j <= i PROVE j \in K
  <2>1. Append(p, i) \in DOMAIN tree /\ Append(p, i) # << >>
        /\ Front(Append(p, i)) = p /\ Last(Append(p, i)) = i
    BY <1>1, AppendPosition
  <2>2. j \in 1..Last(Append(p, i))
    BY <1>7, <2>1
  <2>. QED  BY <2>1, <2>2, ShapeFacts
<1>8. \E n \in Nat : K = 1..n
  <2>1. PICK m \in Nat : m \notin K /\ m # 0
    <3>1. SUFFICES ASSUME \A m \in Nat : m # 0 => m \in K PROVE FALSE
      OBVIOUS
    <3>. DEFINE c == Cardinality(K)
    <3>2. c \in Nat
      BY <1>6, FS_CardinalityType
    <3>3. 1..(c + 1) \subseteq K
      BY <3>1, <3>2
    <3>4. Cardinality(1..(c + 1)) = c + 1
      BY <3>2, FS_Interval
    <3>5. Cardinality(1..(c + 1)) <= Cardinality(K)
      BY <1>6, <3>3, FS_Subset
    <3>. QED  BY <3>2, <3>4, <3>5
  <2>. DEFINE S == {n \in Nat : n # 0 /\ n \notin K}
  <2>2. PICK n \in S : \A k \in S : n <= k
    <3>1. S \subseteq Nat /\ S # {}
      BY <2>1
    <3>. QED  BY <3>1, LeastElement
  <2>3. \A k \in K : k < n
    BY <1>7, <2>2
  <2>4. \A k \in 1..(n - 1) : k \in K
    BY <2>2
  <2>5. K = 1..(n - 1) /\ n - 1 \in Nat
    BY <2>2, <2>3, <2>4
  <2>. QED  BY <2>5
<1>9. PICK n \in Nat : K = 1..n
  BY <1>8
<1>10. Cardinality(C) = n
  <2>1. Cardinality(1..n) = n
    BY FS_Interval
  <2>. QED  BY <1>6, <1>9, <2>1
<1>11. NChildren(tree, p) = n
  BY <1>10 DEF NChildren
<1>12. \A i \in Nat \ {0} : Append(p, i) \in DOMAIN tree <=> i \in K
  OBVIOUS
<1>. HIDE DEF K
<1>. QED  BY <1>9, <1>11, <1>12

LEMMA WithoutChildren ==
  ASSUME NEW tree, IsShape(tree), NEW p \in DOMAIN tree, Append(p, 1) \notin DOMAIN tree,
         NEW q \in DOMAIN tree, IsPrefix(p, q)
  PROVE  q = p
<1>1. SUFFICES ASSUME q # p PROVE FALSE
  OBVIOUS
<1>2. p \in Position /\ q \in Position
  BY ShapeFacts
<1>. DEFINE i == q[Len(p) + 1]
<1>3. i \in Nat \ {0} /\ IsPrefix(Append(p, i), q)
  BY <1>1, <1>2, NextBelow
<1>. HIDE DEF i
<1>4. Append(p, i) \in Position
  BY <1>2, <1>3, AppendPosition
<1>5. Append(p, i) \in DOMAIN tree
  BY <1>3, <1>4, AboveAreThere
<1>6. 1 <= i /\ i <= NChildren(tree, p) /\ NChildren(tree, p) \in Nat
  BY <1>3, <1>5, ChildrenAreNumbered
<1>7. 1 <= NChildren(tree, p) <=> Append(p, 1) \in DOMAIN tree
  BY ChildrenAreNumbered
<1>8. 1 <= NChildren(tree, p)
  BY <1>3, <1>6
<1>. QED  BY <1>7, <1>8

-----------------------------------------------------------------------------
(* Subtrees and grafts *)

LEMMA SubtreeFacts ==
  ASSUME NEW tree, IsShape(tree), NEW p \in DOMAIN tree
  PROVE  /\ \A r \in Position :
              r \in DOMAIN Subtree(tree, p) <=> p \o r \in DOMAIN tree
         /\ \A r \in DOMAIN Subtree(tree, p) :
              /\ r \in Position /\ p \o r \in DOMAIN tree
              /\ Subtree(tree, p)[r] = tree[p \o r]
         /\ << >> \in DOMAIN Subtree(tree, p)
         /\ Subtree(tree, p)[<< >>] = tree[p]
<1>. DEFINE D == {From(p, q) : q \in Below(tree, p)}
<1>1. p \in Position /\ << >> \in Position
  BY ShapeFacts DEF Position
<1>2. \A q \in Below(tree, p) :
        q \in DOMAIN tree /\ q \in Position /\ From(p, q) \in Position /\ p \o From(p, q) = q
  BY <1>1, ShapeFacts, PrefixFrom DEF Below
<1>3. ASSUME NEW r \in Position PROVE r \in D <=> p \o r \in DOMAIN tree
  <2>1. p \o r \in Position /\ IsPrefix(p, p \o r) /\ From(p, p \o r) = r
    BY <1>1, ConcatPosition
  <2>2. r \in D => p \o r \in DOMAIN tree
    BY <1>2
  <2>3. p \o r \in DOMAIN tree => p \o r \in Below(tree, p)
    BY <2>1 DEF Below
  <2>4. p \o r \in DOMAIN tree => From(p, p \o r) \in D
    BY <2>3
  <2>. QED  BY <2>1, <2>2, <2>4
<1>4. DOMAIN Subtree(tree, p) = D
  BY DEF Subtree
<1>5. \A r \in D : Subtree(tree, p)[r] = tree[p \o r]
  BY DEF Subtree
<1>6. \A r \in D : r \in Position
  BY <1>2
<1>7. p \o << >> = p
  BY <1>1, ConcatPosition
<1>8. << >> \in D
  BY <1>1, <1>3, <1>7
<1>. HIDE DEF D
<1>. QED  BY <1>3, <1>4, <1>5, <1>6, <1>7, <1>8

LEMMA SubtreeShape ==
  ASSUME NEW tree, IsShape(tree), NEW p \in DOMAIN tree
  PROVE  IsShape(Subtree(tree, p))
<1>. DEFINE sub == Subtree(tree, p)
            B == Below(tree, p)
            f == [q \in B |-> From(p, q)]
<1>1. p \in Position
  BY ShapeFacts
<1>2. IsFiniteSet(DOMAIN sub)
  <2>1. IsFiniteSet(B)
    BY ShapeFacts, FS_Subset DEF Below
  <2>2. DOMAIN sub = {From(p, q) : q \in B}
    BY DEF Subtree
  <2>3. f \in Surjection(B, DOMAIN sub)
    <3>1. f \in [B -> DOMAIN sub] /\ \A t \in DOMAIN sub : \E q \in B : f[q] = t
      BY <2>2
    <3>. HIDE DEF f, B, sub
    <3>. QED  BY <3>1 DEF Surjection
  <2>. HIDE DEF f, B, sub
  <2>. QED  BY <2>1, <2>3, FS_Surjection
<1>3. ASSUME NEW r \in DOMAIN sub, r # << >>
      PROVE  /\ Front(r) \in DOMAIN sub
             /\ \A i \in 1..Last(r) : Append(Front(r), i) \in DOMAIN sub
  <2>1. r \in Position /\ p \o r \in DOMAIN tree
    BY SubtreeFacts
  <2>2. Front(r) \in Position /\ Last(r) \in Nat \ {0}
    BY <1>3, <2>1, FrontPosition
  <2>3. Front(p \o r) = p \o Front(r) /\ Last(p \o r) = Last(r) /\ p \o r # << >>
    BY <1>1, <1>3, <2>1, ConcatFront
  <2>4. p \o Front(r) \in DOMAIN tree
        /\ \A i \in 1..Last(r) : Append(p \o Front(r), i) \in DOMAIN tree
    BY <2>1, <2>3, ShapeFacts
  <2>5. Front(r) \in DOMAIN sub
    BY <2>2, <2>4, SubtreeFacts
  <2>6. ASSUME NEW i \in 1..Last(r) PROVE Append(Front(r), i) \in DOMAIN sub
    <3>1. i \in Nat \ {0}
      BY <2>2
    <3>2. Append(Front(r), i) \in Position
          /\ p \o Append(Front(r), i) = Append(p \o Front(r), i)
      BY <1>1, <2>2, <3>1, AppendPosition, ConcatAppend
    <3>. QED  BY <2>4, <3>2, SubtreeFacts
  <2>. QED  BY <2>5, <2>6
<1>4. << >> \in DOMAIN sub /\ \A r \in DOMAIN sub : r \in Position
  BY SubtreeFacts
<1>. HIDE DEF sub
<1>5. IsShape(sub)
  BY <1>2, <1>3, <1>4 DEF IsShape
<1>. QED  BY <1>5 DEF sub

LEMMA SubtreeIsTree ==
  ASSUME NEW tree, IsTree(tree), NEW p \in DOMAIN tree
  PROVE  IsTree(Subtree(tree, p))
<1>. DEFINE sub == Subtree(tree, p)
<1>1. IsShape(tree) /\ IsShape(sub)
  BY SubtreeShape DEF IsTree
<1>4. sub = [r \in DOMAIN sub |-> sub[r]]
  BY DEF Subtree
<1>2. ASSUME NEW r \in DOMAIN sub
      PROVE  IsNode(sub[r]) /\ (sub[r].type = "leaf" <=> Append(r, 1) \notin DOMAIN sub)
  <2>1. r \in Position /\ p \o r \in DOMAIN tree /\ sub[r] = tree[p \o r] /\ p \in Position
    BY <1>1, SubtreeFacts, ShapeFacts
  <2>2. Append(r, 1) \in Position /\ p \o Append(r, 1) = Append(p \o r, 1)
    <3>1. 1 \in Nat \ {0}
      OBVIOUS
    <3>. QED  BY <2>1, <3>1, AppendPosition, ConcatAppend
  <2>3. Append(r, 1) \in DOMAIN sub <=> Append(p \o r, 1) \in DOMAIN tree
    BY <1>1, <2>2, SubtreeFacts
  <2>4. IsNode(tree[p \o r])
        /\ (tree[p \o r].type = "leaf" <=> Append(p \o r, 1) \notin DOMAIN tree)
    BY <2>1 DEF IsTree
  <2>. QED  BY <2>1, <2>3, <2>4
<1>. HIDE DEF sub
<1>3. IsTree(sub)
  BY <1>1, <1>2, <1>4 DEF IsTree
<1>. QED  BY <1>3 DEF sub

LEMMA GraftFacts ==
  ASSUME NEW tree, IsShape(tree), NEW p \in DOMAIN tree, NEW sub, IsShape(sub)
  PROVE  /\ \A q \in Position :
              q \in DOMAIN Graft(tree, p, sub) <=>
                IF IsPrefix(p, q) THEN From(p, q) \in DOMAIN sub ELSE q \in DOMAIN tree
         /\ \A q \in DOMAIN Graft(tree, p, sub) : q \in Position
         /\ \A q \in DOMAIN tree : ~ IsPrefix(p, q) =>
              /\ q \in DOMAIN Graft(tree, p, sub)
              /\ Graft(tree, p, sub)[q] = tree[q]
         /\ \A r \in DOMAIN sub :
              /\ p \o r \in DOMAIN Graft(tree, p, sub)
              /\ Graft(tree, p, sub)[p \o r] = sub[r]
         /\ p \in DOMAIN Graft(tree, p, sub)
         /\ Graft(tree, p, sub)[p] = sub[<< >>]
<1>. DEFINE kept == DOMAIN tree \ Below(tree, p)
            new == {p \o r : r \in DOMAIN sub}
            G == Graft(tree, p, sub)
<1>1. p \in Position /\ << >> \in DOMAIN sub /\ p \o << >> = p
      /\ \A q \in DOMAIN tree : q \in Position
      /\ \A r \in DOMAIN sub : r \in Position
  BY ShapeFacts, ConcatPosition
<1>2. DOMAIN G = kept \cup new
  BY DEF Graft
<1>3. \A r \in DOMAIN sub :
        p \o r \in Position /\ IsPrefix(p, p \o r) /\ From(p, p \o r) = r /\ p \o r \notin kept
  BY <1>1, ConcatPosition DEF Below
<1>4. \A q \in kept \cup new : G[q] = IF q \in kept THEN tree[q] ELSE sub[From(p, q)]
  BY DEF Graft
<1>5. ASSUME NEW q \in Position
      PROVE  q \in kept \cup new <=>
               IF IsPrefix(p, q) THEN From(p, q) \in DOMAIN sub ELSE q \in DOMAIN tree
  <2>1. CASE IsPrefix(p, q)
    <3>1. q \notin kept
      BY <2>1 DEF Below
    <3>2. p \o From(p, q) = q
      BY <1>1, <2>1, PrefixFrom
    <3>3. q \in new <=> From(p, q) \in DOMAIN sub
      BY <1>3, <3>2
    <3>. QED  BY <2>1, <3>1, <3>3
  <2>2. CASE ~ IsPrefix(p, q)
    <3>1. q \notin new
      BY <1>3, <2>2
    <3>2. q \in kept <=> q \in DOMAIN tree
      BY <2>2 DEF Below
    <3>. QED  BY <2>2, <3>1, <3>2
  <2>. QED  BY <2>1, <2>2
<1>6. \A q \in kept \cup new : q \in Position
  BY <1>1, <1>3
<1>7. \A q \in DOMAIN tree : ~ IsPrefix(p, q) => q \in kept \cup new /\ G[q] = tree[q]
  BY <1>4 DEF Below
<1>8. \A r \in DOMAIN sub : p \o r \in kept \cup new /\ G[p \o r] = sub[r]
  BY <1>3, <1>4
<1>9. p \in kept \cup new /\ G[p] = sub[<< >>]
  BY <1>1, <1>8
<1>. HIDE DEF kept, new, G
<1>. QED  BY <1>2, <1>5, <1>6, <1>7, <1>8, <1>9 DEF G

\* Nothing is lost but what was below the place.
LEMMA GraftKeeps ==
  ASSUME NEW tree, IsShape(tree), NEW p \in DOMAIN tree, NEW sub, IsShape(sub),
         NEW q \in DOMAIN tree, IsPrefix(p, q) => q = p
  PROVE  q \in DOMAIN Graft(tree, p, sub)
BY GraftFacts

LEMMA GraftShape ==
  ASSUME NEW tree, IsShape(tree), NEW p \in DOMAIN tree, NEW sub, IsShape(sub)
  PROVE  IsShape(Graft(tree, p, sub))
<1>. DEFINE G == Graft(tree, p, sub)
            f == [r \in DOMAIN sub |-> p \o r]
            new == {p \o r : r \in DOMAIN sub}
            kept == DOMAIN tree \ Below(tree, p)
<1>1. p \in Position
  BY ShapeFacts
<1>2. IsFiniteSet(DOMAIN G)
  <2>1. IsFiniteSet(kept)
    BY ShapeFacts, FS_Subset
  <2>2. f \in Surjection(DOMAIN sub, new)
    <3>1. f \in [DOMAIN sub -> new] /\ \A t \in new : \E q \in DOMAIN sub : f[q] = t
      OBVIOUS
    <3>. HIDE DEF f, new
    <3>. QED  BY <3>1 DEF Surjection
  <2>3. IsFiniteSet(DOMAIN sub)
    BY ShapeFacts
  <2>4. DOMAIN G = kept \cup new
    BY DEF Graft
  <2>. HIDE DEF f, new, kept, G
  <2>5. IsFiniteSet(new)
    BY <2>2, <2>3, FS_Surjection
  <2>6. IsFiniteSet(kept \cup new)
    BY <2>1, <2>5, FS_Union
  <2>. QED  BY <2>4, <2>6
<1>3. << >> \in DOMAIN G
  <2>1. CASE p = << >>
    BY <2>1, GraftFacts
  <2>2. CASE p # << >>
    BY <1>1, <2>2, GraftFacts, ShapeFacts, PrefixOrder
  <2>. QED  BY <2>1, <2>2
<1>4. ASSUME NEW q \in DOMAIN G, q # << >>
      PROVE  Front(q) \in DOMAIN G /\ \A i \in 1..Last(q) : Append(Front(q), i) \in DOMAIN G
  <2>1. q \in Position /\ Front(q) \in Position /\ Last(q) \in Nat \ {0}
    BY <1>4, GraftFacts, FrontPosition
  <2>2. CASE IsPrefix(p, q) /\ p # q
    <3>. DEFINE r == From(p, q)
    <3>1. r \in Position /\ p \o r = q /\ r \in DOMAIN sub /\ r # << >>
      BY <1>1, <2>1, <2>2, PrefixFrom, GraftFacts
    <3>. HIDE DEF r
    <3>2. Front(r) \in Position /\ Last(r) \in Nat \ {0}
      BY <3>1, FrontPosition
    <3>3. Front(q) = p \o Front(r) /\ Last(q) = Last(r)
      BY <1>1, <3>1, ConcatFront
    <3>4. Front(r) \in DOMAIN sub /\ \A i \in 1..Last(r) : Append(Front(r), i) \in DOMAIN sub
      BY <3>1, ShapeFacts
    <3>5. Front(q) \in DOMAIN G
      BY <3>3, <3>4, GraftFacts
    <3>6. ASSUME NEW i \in 1..Last(q) PROVE Append(Front(q), i) \in DOMAIN G
      <4>1. i \in Nat \ {0} /\ i \in 1..Last(r)
        BY <2>1, <3>3
      <4>2. p \o Append(Front(r), i) = Append(Front(q), i)
        BY <1>1, <3>2, <3>3, <4>1, ConcatAppend
      <4>3. p \o Append(Front(r), i) \in DOMAIN G
        BY <3>4, <4>1, GraftFacts
      <4>. QED  BY <4>2, <4>3
    <3>. QED  BY <3>5, <3>6
  <2>3. CASE ~ IsPrefix(p, q) \/ p = q
    <3>1. q \in DOMAIN tree
      BY <2>1, <2>3, GraftFacts
    <3>2. Front(q) \in DOMAIN tree /\ \A i \in 1..Last(q) : Append(Front(q), i) \in DOMAIN tree
      BY <1>4, <3>1, ShapeFacts
    <3>3. ~ IsPrefix(p, Front(q))
      <4>1. IsPrefix(p, q) <=> p = q \/ IsPrefix(p, Front(q))
        BY <1>1, <1>4, <2>1, PrefixFront
      <4>2. IsPrefix(Front(q), q) /\ Front(q) # q
        BY <1>1, <1>4, <2>1, PrefixFront
      <4>3. CASE p = q
        BY <2>1, <4>2, <4>3, PrefixOrder
      <4>4. CASE ~ IsPrefix(p, q)
        BY <4>1, <4>4
      <4>. QED  BY <2>3, <4>3, <4>4
    <3>4. ASSUME NEW i \in 1..Last(q) PROVE Append(Front(q), i) \in DOMAIN G
      <4>1. i \in Nat \ {0}
        BY <2>1
      <4>. DEFINE s == Append(Front(q), i)
      <4>2. IsPrefix(p, s) => p = s
        BY <1>1, <2>1, <3>3, <4>1, PrefixAppend
      <4>3. s \in DOMAIN tree
        BY <3>2
      <4>. HIDE DEF s
      <4>4. s \in DOMAIN G
        BY <4>2, <4>3, GraftKeeps
      <4>. QED  BY <4>4 DEF s
    <3>5. Front(q) \in DOMAIN G
      BY <3>2, <3>3, GraftFacts
    <3>. QED  BY <3>4, <3>5
  <2>. QED  BY <2>2, <2>3
<1>5. \A q \in DOMAIN G : q \in Position
  BY GraftFacts
<1>. HIDE DEF G
<1>6. IsShape(G)
  BY <1>2, <1>3, <1>4, <1>5 DEF IsShape
<1>. QED  BY <1>6 DEF G

LEMMA GraftIsTree ==
  ASSUME NEW tree, IsTree(tree), NEW p \in DOMAIN tree, NEW sub, IsTree(sub)
  PROVE  IsTree(Graft(tree, p, sub))
<1>. DEFINE G == Graft(tree, p, sub)
<1>1. IsShape(tree) /\ IsShape(sub) /\ IsShape(G) /\ p \in Position /\ 1 \in Nat \ {0}
  BY GraftShape, ShapeFacts DEF IsTree
<1>4. G = [q \in DOMAIN G |-> G[q]]
  BY DEF Graft
<1>2. ASSUME NEW q \in DOMAIN G
      PROVE  IsNode(G[q]) /\ (G[q].type = "leaf" <=> Append(q, 1) \notin DOMAIN G)
  <2>1. q \in Position /\ Append(q, 1) \in Position
    BY <1>1, GraftFacts, AppendPosition
  <2>2. CASE IsPrefix(p, q)
    <3>. DEFINE r == From(p, q)
    <3>1. r \in Position /\ p \o r = q /\ r \in DOMAIN sub
      BY <1>1, <2>1, <2>2, PrefixFrom, GraftFacts
    <3>. HIDE DEF r
    <3>6. Append(r, 1) \in Position
      BY <1>1, <3>1, AppendPosition
    <3>7. p \o Append(r, 1) = Append(p \o r, 1)
      BY <1>1, <3>1, ConcatAppend
    <3>2. p \o Append(r, 1) = Append(q, 1)
      BY <3>1, <3>7
    <3>. DEFINE s == Append(r, 1)
                t == Append(q, 1)
    <3>8. s \in Position /\ t \in Position /\ p \o s = t
      BY <2>1, <3>2, <3>6
    <3>. HIDE DEF s, t
    <3>3. IsPrefix(p, t) /\ From(p, t) = s
      BY <1>1, <3>8, ConcatPosition
    <3>9. t \in DOMAIN G <=> s \in DOMAIN sub
      BY <1>1, <3>3, <3>8, GraftFacts
    <3>4. Append(q, 1) \in DOMAIN G <=> Append(r, 1) \in DOMAIN sub
      BY <3>9 DEF s, t
    <3>10. \A a \in DOMAIN sub : G[p \o a] = sub[a]
      BY <1>1, GraftFacts
    <3>5. G[q] = sub[r]
      BY <3>1, <3>10
    <3>. QED  BY <3>1, <3>4, <3>5 DEF IsTree
  <2>3. CASE ~ IsPrefix(p, q)
    <3>1. q \in DOMAIN tree /\ G[q] = tree[q]
      BY <1>1, <2>1, <2>3, GraftFacts
    <3>2. CASE IsPrefix(p, Append(q, 1))
      <4>1. p = Append(q, 1)
        BY <1>1, <2>1, <2>3, <3>2, PrefixAppend
      <4>. QED  BY <1>1, <3>1, <4>1, GraftFacts DEF IsTree
    <3>3. CASE ~ IsPrefix(p, Append(q, 1))
      <4>1. Append(q, 1) \in DOMAIN G <=> Append(q, 1) \in DOMAIN tree
        BY <1>1, <2>1, <3>3, GraftFacts
      <4>. QED  BY <3>1, <4>1 DEF IsTree
    <3>. QED  BY <3>2, <3>3
  <2>. QED  BY <2>2, <2>3
<1>. HIDE DEF G
<1>3. IsTree(G)
  BY <1>1, <1>2, <1>4 DEF IsTree
<1>. QED  BY <1>3 DEF G

-----------------------------------------------------------------------------
(* Nodes above trees *)

LEMMA OneConcat ==
  ASSUME NEW i \in Nat \ {0}, NEW q \in Position
  PROVE  /\ <<i>> \o q \in Position /\ <<i>> \o q # << >> /\ <<i>> \in Position
         /\ Head(<<i>> \o q) = i /\ Tail(<<i>> \o q) = q
         /\ <<i>> = Append(<< >>, i)
<1>1. q \in Seq(Nat \ {0}) /\ <<i>> \in Seq(Nat \ {0}) /\ Len(<<i>>) = 1 /\ Len(q) \in Nat
  BY DEF Position
<1>2. <<i>> \o q \in Seq(Nat \ {0}) /\ Len(<<i>> \o q) = Len(q) + 1
  BY <1>1, ConcatProperties
<1>3. (<<i>> \o q)[1] = i /\ \A j \in 1..Len(q) : (<<i>> \o q)[j + 1] = q[j]
  BY <1>1, ConcatProperties
<1>4. <<i>> \o q # << >>
  BY <1>2
<1>5. Head(<<i>> \o q) = i
  BY <1>2, <1>3, <1>4, HeadTailProperties
<1>6. Tail(<<i>> \o q) = q
  <2>. DEFINE s == <<i>> \o q
  <2>1. /\ s \in Seq(Nat \ {0}) /\ Len(s) = Len(q) + 1 /\ s # << >>
        /\ \A j \in 1..Len(q) : s[j + 1] = q[j]
    BY <1>2, <1>3, <1>4
  <2>. HIDE DEF s
  <2>2. Tail(s) \in Seq(Nat \ {0}) /\ Len(Tail(s)) = Len(q)
        /\ \A j \in 1..Len(Tail(s)) : Tail(s)[j] = s[j + 1]
    BY <1>1, <2>1, HeadTailProperties
  <2>3. Tail(s) = q
    BY <1>1, <2>1, <2>2, SeqEqual
  <2>. QED  BY <2>3 DEF s
<1>. QED  BY <1>1, <1>2, <1>4, <1>5, <1>6 DEF Position

\* A position is the root or below some child of it.
LEMMA HeadPosition ==
  ASSUME NEW q \in Position, q # << >>
  PROVE  /\ Head(q) \in Nat \ {0} /\ Tail(q) \in Position
         /\ q = <<Head(q)>> \o Tail(q)
<1>1. q \in Seq(Nat \ {0}) /\ Len(q) \in Nat \ {0}
  BY DEF Position
<1>2. Head(q) \in Nat \ {0} /\ Tail(q) \in Seq(Nat \ {0}) /\ Len(Tail(q)) = Len(q) - 1
      /\ \A i \in 1..Len(Tail(q)) : Tail(q)[i] = q[i + 1]
  BY <1>1, HeadTailProperties
<1>3. Head(q) = q[1]
  BY <1>1
<1>. DEFINE s == <<Head(q)>> \o Tail(q)
<1>4. /\ s \in Seq(Nat \ {0}) /\ Len(s) = Len(q)
      /\ s[1] = q[1] /\ \A i \in 1..Len(Tail(q)) : s[i + 1] = Tail(q)[i]
  BY <1>1, <1>2, <1>3, ConcatProperties
<1>. HIDE DEF s
<1>5. \A i \in 1..Len(q) : s[i] = q[i]
  <2>1. SUFFICES ASSUME NEW i \in 1..Len(q) PROVE s[i] = q[i]
    OBVIOUS
  <2>2. CASE i = 1
    BY <1>4, <2>2
  <2>3. CASE i # 1
    <3>1. i - 1 \in 1..Len(Tail(q)) /\ (i - 1) + 1 = i
      BY <1>1, <1>2, <2>3
    <3>2. s[(i - 1) + 1] = Tail(q)[i - 1] /\ Tail(q)[i - 1] = q[(i - 1) + 1]
      BY <1>2, <1>4, <3>1
    <3>. QED  BY <3>1, <3>2
  <2>. QED  BY <2>2, <2>3
<1>6. s = q
  BY <1>1, <1>4, <1>5, SeqEqual
<1>. QED  BY <1>2, <1>6 DEF s, Position

LEMMA OverFacts ==
  ASSUME NEW node, NEW n \in Nat, NEW children,
         DOMAIN children = 1..n, \A i \in 1..n : IsShape(children[i])
  PROVE  /\ \A i \in 1..n, q \in Position :
              <<i>> \o q \in DOMAIN Over(node, children) <=> q \in DOMAIN children[i]
         /\ \A q \in DOMAIN Over(node, children) :
              /\ q \in Position
              /\ q # << >> => Head(q) \in 1..n /\ Tail(q) \in DOMAIN children[Head(q)]
         /\ << >> \in DOMAIN Over(node, children)
         /\ Over(node, children)[<< >>] = node
         /\ \A i \in 1..n : <<i>> \in DOMAIN Over(node, children)
<1>. DEFINE below == UNION {{<<i>> \o q : q \in DOMAIN children[i]} : i \in DOMAIN children}
            O == Over(node, children)
<1>1. \A i \in 1..n : i \in Nat \ {0} /\ << >> \in DOMAIN children[i]
                      /\ \A q \in DOMAIN children[i] : q \in Position
  BY ShapeFacts
<1>2. DOMAIN O = {<< >>} \cup below
  BY DEF Over
<1>3. \A q \in {<< >>} \cup below :
        O[q] = IF q = << >> THEN node ELSE children[Head(q)][Tail(q)]
  BY DEF Over
<1>4. \A q \in below : \E i \in 1..n : \E r \in DOMAIN children[i] : q = <<i>> \o r
  OBVIOUS
<1>5. \A i \in 1..n : \A r \in DOMAIN children[i] : <<i>> \o r \in below
  OBVIOUS
<1>. HIDE DEF below, O
<1>6. ASSUME NEW q \in below
      PROVE  q \in Position /\ q # << >> /\ Head(q) \in 1..n
             /\ Tail(q) \in DOMAIN children[Head(q)]
  <2>1. PICK i \in 1..n : \E r \in DOMAIN children[i] : q = <<i>> \o r
    BY <1>4
  <2>2. PICK r \in DOMAIN children[i] : q = <<i>> \o r
    BY <2>1
  <2>3. i \in Nat \ {0} /\ r \in Position
    BY <1>1
  <2>4. q \in Position /\ q # << >> /\ Head(q) = i /\ Tail(q) = r
    BY <2>2, <2>3, OneConcat
  <2>. QED  BY <2>4
<1>7. ASSUME NEW i \in 1..n, NEW r \in DOMAIN children[i]
      PROVE  <<i>> \o r \in DOMAIN O /\ O[<<i>> \o r] = children[i][r]
  <2>. DEFINE q == <<i>> \o r
  <2>1. q # << >> /\ Head(q) = i /\ Tail(q) = r
    BY <1>1, OneConcat
  <2>2. q \in below
    BY <1>5
  <2>. HIDE DEF q
  <2>3. q \in DOMAIN O /\ O[q] = children[i][r]
    BY <1>2, <1>3, <2>1, <2>2
  <2>. QED  BY <2>3 DEF q
<1>8. ASSUME NEW i \in 1..n, NEW q \in Position, <<i>> \o q \in DOMAIN O
      PROVE  q \in DOMAIN children[i]
  <2>. DEFINE s == <<i>> \o q
  <2>1. s # << >> /\ Head(s) = i /\ Tail(s) = q
    BY <1>1, OneConcat
  <2>2. s \in below
    BY <1>2, <1>8, <2>1
  <2>. HIDE DEF s
  <2>. QED  BY <1>6, <2>1, <2>2
<1>9. << >> \in DOMAIN O /\ O[<< >>] = node
  BY <1>2, <1>3
<1>10. ASSUME NEW i \in 1..n PROVE <<i>> \in DOMAIN O
  <2>1. << >> \in Position /\ i \in Nat \ {0} /\ <<i>> \in Position
    BY <1>1, ConcatPosition, OneConcat DEF Position
  <2>2. <<i>> \o << >> = <<i>>
    BY <2>1, ConcatPosition
  <2>3. <<i>> \o << >> \in DOMAIN O
    BY <1>1, <1>7
  <2>. QED  BY <2>2, <2>3
<1>11. << >> \in Position
  BY DEF Position
<1>. QED  BY <1>2, <1>6, <1>7, <1>8, <1>9, <1>10, <1>11 DEF O

IsCopied(over, children, i, q) ==
  <<i>> \o q \in DOMAIN over /\ over[<<i>> \o q] = children[i][q]

LEMMA OverChild ==
  ASSUME NEW node, NEW n \in Nat, NEW children,
         DOMAIN children = 1..n, \A i \in 1..n : IsShape(children[i]),
         NEW i \in 1..n, NEW q \in DOMAIN children[i]
  PROVE  IsCopied(Over(node, children), children, i, q)
<1>. DEFINE s == <<i>> \o q
            below == UNION {{<<k>> \o r : r \in DOMAIN children[k]} : k \in DOMAIN children}
<1>1. q \in Position /\ i \in Nat \ {0}
  BY ShapeFacts
<1>2. s # << >> /\ Head(s) = i /\ Tail(s) = q
  BY <1>1, OneConcat
<1>3. s \in below
  OBVIOUS
<1>4. \A r \in {<< >>} \cup below :
        /\ r \in DOMAIN Over(node, children)
        /\ Over(node, children)[r] = IF r = << >> THEN node ELSE children[Head(r)][Tail(r)]
  BY DEF Over
<1>. HIDE DEF s, below
<1>5. s \in DOMAIN Over(node, children) /\ Over(node, children)[s] = children[i][q]
  BY <1>2, <1>3, <1>4
<1>. QED  BY <1>5 DEF s, IsCopied

LEMMA OverShape ==
  ASSUME NEW node, NEW n \in Nat, NEW children,
         DOMAIN children = 1..n, \A i \in 1..n : IsShape(children[i])
  PROVE  IsShape(Over(node, children))
<1>. DEFINE O == Over(node, children)
            Under(i) == {<<i>> \o q : q \in DOMAIN children[i]}
            T == {Under(i) : i \in 1..n}
<1>1. \A i \in 1..n : i \in Nat \ {0}
  OBVIOUS
<1>2. IsFiniteSet(DOMAIN O)
  <2>1. ASSUME NEW i \in 1..n PROVE IsFiniteSet(Under(i))
    <3>. DEFINE D == DOMAIN children[i]
                U == Under(i)
                f == [q \in D |-> <<i>> \o q]
    <3>1. IsFiniteSet(D)
      BY ShapeFacts
    <3>2. f \in [D -> U] /\ \A t \in U : \E q \in D : f[q] = t
      OBVIOUS
    <3>. HIDE DEF D, U, f
    <3>3. f \in Surjection(D, U)
      BY <3>2 DEF Surjection
    <3>4. IsFiniteSet(U)
      BY <3>1, <3>3, FS_Surjection
    <3>. QED  BY <3>4 DEF U
  <2>2. IsFiniteSet(T)
    <3>. DEFINE g == [i \in 1..n |-> Under(i)]
    <3>1. g \in [1..n -> T] /\ \A t \in T : \E i \in 1..n : g[i] = t
      OBVIOUS
    <3>2. IsFiniteSet(1..n)
      BY FS_Interval
    <3>. HIDE DEF g, T
    <3>3. g \in Surjection(1..n, T)
      BY <3>1 DEF Surjection
    <3>. QED  BY <3>2, <3>3, FS_Surjection
  <2>3. \A t \in T : IsFiniteSet(t)
    BY <2>1
  <2>. HIDE DEF T, O
  <2>4. IsFiniteSet(UNION T)
    BY <2>2, <2>3, FS_UNION
  <2>5. IsFiniteSet({<< >>} \cup UNION T)
    BY <2>4, FS_Singleton, FS_Union
  <2>6. DOMAIN O = {<< >>} \cup UNION T
    BY DEF O, T, Over
  <2>. QED  BY <2>5, <2>6
<1>3. ASSUME NEW q \in DOMAIN O, q # << >>
      PROVE  Front(q) \in DOMAIN O /\ \A i \in 1..Last(q) : Append(Front(q), i) \in DOMAIN O
  <2>1. q \in Position /\ Head(q) \in 1..n /\ Tail(q) \in DOMAIN children[Head(q)]
    BY <1>3, OverFacts
  <2>. DEFINE j == Head(q)
              r == Tail(q)
  <2>2. j \in 1..n /\ j \in Nat \ {0} /\ r \in DOMAIN children[j] /\ r \in Position
        /\ q = <<j>> \o r /\ <<j>> \in Position
    BY <1>3, <2>1, HeadPosition, OneConcat
  <2>. HIDE DEF j, r
  <2>3. CASE r = << >>
    <3>1. q = <<j>>
      BY <2>2, <2>3, ConcatPosition
    <3>2. Front(q) = << >> /\ Last(q) = j
      <4>1. << >> \in Position
        BY DEF Position
      <4>2. q = Append(<< >>, j)
        BY <2>2, <3>1, <4>1, OneConcat
      <4>. QED  BY <2>2, <4>1, <4>2, AppendPosition
    <3>3. ASSUME NEW i \in 1..Last(q) PROVE Append(Front(q), i) \in DOMAIN O
      <4>1. i \in Nat \ {0} /\ i \in 1..n /\ << >> \in Position
        BY <2>2, <3>2 DEF Position
      <4>2. Append(Front(q), i) = <<i>>
        BY <3>2, <4>1, OneConcat
      <4>3. <<i>> \in DOMAIN O
        BY <4>1, OverFacts
      <4>. QED  BY <4>2, <4>3
    <3>4. << >> \in DOMAIN O
      BY OverFacts
    <3>. QED  BY <3>2, <3>3, <3>4
  <2>4. CASE r # << >>
    <3>1. Front(q) = <<j>> \o Front(r) /\ Last(q) = Last(r)
      BY <2>2, <2>4, ConcatFront
    <3>2. Front(r) \in Position /\ Last(r) \in Nat \ {0}
      BY <2>2, <2>4, FrontPosition
    <3>3. Front(r) \in DOMAIN children[j]
          /\ \A i \in 1..Last(r) : Append(Front(r), i) \in DOMAIN children[j]
      BY <2>2, <2>4, ShapeFacts
    <3>4. <<j>> \o Front(r) \in DOMAIN O
      BY <2>2, <3>2, <3>3, OverFacts
    <3>5. ASSUME NEW i \in 1..Last(r) PROVE Append(<<j>> \o Front(r), i) \in DOMAIN O
      <4>1. i \in Nat \ {0}
        BY <3>2
      <4>2. Append(Front(r), i) \in Position
        BY <3>2, <4>1, AppendPosition
      <4>3. <<j>> \o Append(Front(r), i) = Append(<<j>> \o Front(r), i)
        BY <2>2, <3>2, <4>1, ConcatAppend
      <4>4. <<j>> \o Append(Front(r), i) \in DOMAIN O
        BY <2>2, <3>3, <4>2, OverFacts
      <4>. QED  BY <4>3, <4>4
    <3>. QED  BY <3>1, <3>4, <3>5
  <2>. QED  BY <2>3, <2>4
<1>4. << >> \in DOMAIN O /\ \A q \in DOMAIN O : q \in Position
  BY OverFacts
<1>. HIDE DEF O
<1>5. IsShape(O)
  BY <1>2, <1>3, <1>4 DEF IsShape
<1>. QED  BY <1>5 DEF O

LEMMA OverIsTree ==
  ASSUME NEW node, NEW n \in Nat, NEW children,
         DOMAIN children = 1..n, \A i \in 1..n : IsTree(children[i]),
         IsNode(node), node.type = "leaf" <=> n = 0
  PROVE  IsTree(Over(node, children))
<1>. DEFINE O == Over(node, children)
<1>1. (\A i \in 1..n : i \in Nat \ {0} /\ IsShape(children[i])) /\ IsShape(O) /\ 1 \in Nat \ {0}
  BY OverShape DEF IsTree
<1>4. O = [q \in DOMAIN O |-> O[q]]
  BY DEF Over
<1>2. ASSUME NEW q \in DOMAIN O
      PROVE  IsNode(O[q]) /\ (O[q].type = "leaf" <=> Append(q, 1) \notin DOMAIN O)
  <2>1. q \in Position /\ << >> \in Position
    BY <1>1, OverFacts DEF Position
  <2>2. CASE q = << >>
    <3>1. O[q] = node
      BY <1>1, <2>2, OverFacts
    <3>2. Append(q, 1) = <<1>>
      BY <1>1, <2>1, <2>2, OneConcat
    <3>3. ASSUME n # 0 PROVE <<1>> \in DOMAIN O
      <4>1. 1 \in 1..n
        BY <3>3
      <4>. QED  BY <1>1, <4>1, OverFacts
    <3>4. ASSUME n = 0, << 1 >> \in DOMAIN O PROVE FALSE
      <4>. DEFINE one == <<1>>
      <4>1. one # << >> /\ one \in DOMAIN O
        BY <3>4
      <4>. HIDE DEF one
      <4>2. Head(one) \in 1..n
        BY <1>1, <4>1, OverFacts
      <4>. QED  BY <3>4, <4>2
    <3>. QED  BY <3>1, <3>2, <3>3, <3>4
  <2>3. CASE q # << >>
    <3>1. Head(q) \in 1..n /\ Tail(q) \in DOMAIN children[Head(q)]
      BY <1>1, <2>3, OverFacts
    <3>. DEFINE j == Head(q)
                r == Tail(q)
    <3>2. j \in 1..n /\ j \in Nat \ {0} /\ r \in DOMAIN children[j] /\ r \in Position
          /\ q = <<j>> \o r /\ <<j>> \in Position
      BY <2>1, <2>3, <3>1, HeadPosition, OneConcat
    <3>. HIDE DEF j, r
    <3>3. O[<<j>> \o r] = children[j][r]
      BY <1>1, <3>2, OverChild DEF IsCopied
    <3>4. Append(r, 1) \in Position
      BY <1>1, <3>2, AppendPosition
    <3>5. <<j>> \o Append(r, 1) = Append(<<j>> \o r, 1)
      BY <1>1, <3>2, ConcatAppend
    <3>6. <<j>> \o Append(r, 1) \in DOMAIN O <=> Append(r, 1) \in DOMAIN children[j]
      BY <1>1, <3>2, <3>4, OverFacts
    <3>7. IsNode(children[j][r])
          /\ (children[j][r].type = "leaf" <=> Append(r, 1) \notin DOMAIN children[j])
      BY <3>2 DEF IsTree
    <3>. QED  BY <3>2, <3>3, <3>5, <3>6, <3>7
  <2>. QED  BY <2>2, <2>3
<1>. HIDE DEF O
<1>3. IsTree(O)
  BY <1>1, <1>2, <1>4 DEF IsTree
<1>. QED  BY <1>3 DEF O

LEMMA LeafIsTree ==
  /\ IsTree(LeafTree) /\ LeafTree[<< >>] = NodeOf("leaf")
  /\ DOMAIN LeafTree = {<< >>}
<1>1. DOMAIN << >> = 1..0
  OBVIOUS
<1>2. NodeOf("leaf").type = "leaf" /\ IsNode(NodeOf("leaf"))
  BY DEF NodeOf, IsNode, NodeIn
<1>3. IsTree(LeafTree)
  BY <1>1, <1>2, OverIsTree DEF LeafTree
<1>4. DOMAIN LeafTree = {<< >>} /\ LeafTree[<< >>] = NodeOf("leaf")
  BY <1>1 DEF LeafTree, Over
<1>. QED  BY <1>3, <1>4

\* A node above one tree.
LEMMA OverOne ==
  ASSUME NEW node, NEW tree, IsTree(tree), IsNode(node), node.type # "leaf"
  PROVE  /\ IsTree(Over(node, <<tree>>))
         /\ Over(node, <<tree>>)[<< >>] = node
         /\ <<1>> \in DOMAIN Over(node, <<tree>>)
         /\ \A q \in Position : <<1>> \o q \in DOMAIN Over(node, <<tree>>) <=> q \in DOMAIN tree
         /\ \A q \in DOMAIN tree : Over(node, <<tree>>)[<<1>> \o q] = tree[q]
         /\ \A q \in DOMAIN Over(node, <<tree>>) : q # << >> =>
              \E r \in DOMAIN tree : q = <<1>> \o r
<1>. DEFINE children == <<tree>>
<1>1. DOMAIN children = 1..1 /\ children[1] = tree /\ 1 \in 1..1 /\ 1 \in Nat
      /\ \A i \in 1..1 : children[i] = tree
  OBVIOUS
<1>2. (\A i \in 1..1 : IsTree(children[i])) /\ (\A i \in 1..1 : IsShape(children[i]))
  BY <1>1 DEF IsTree
<1>. HIDE DEF children
<1>3. IsTree(Over(node, children))
  <2>1. node.type = "leaf" <=> 1 = 0
    OBVIOUS
  <2>. QED  BY <1>1, <1>2, <2>1, OverIsTree
<1>4. /\ Over(node, children)[<< >>] = node
      /\ <<1>> \in DOMAIN Over(node, children)
  BY <1>1, <1>2, OverFacts
<1>8. \A i \in 1..1, q \in Position :
        <<i>> \o q \in DOMAIN Over(node, children) <=> q \in DOMAIN children[i]
  BY ONLY <1>1, <1>2, OverFacts
<1>9. ASSUME NEW q \in DOMAIN children[1]
      PROVE  Over(node, children)[<<1>> \o q] = children[1][q]
  <2>1. 1 \in 1..1 /\ 1 \in Nat
    BY <1>1
  <2>2. IsCopied(Over(node, children), children, 1, q)
    BY <1>1, <1>2, <2>1, OverChild
  <2>. QED  BY <2>2 DEF IsCopied
<1>5. \A q \in Position : <<1>> \o q \in DOMAIN Over(node, children) <=> q \in DOMAIN children[1]
  BY <1>1, <1>8
<1>6. \A q \in DOMAIN children[1] : Over(node, children)[<<1>> \o q] = children[1][q]
  BY <1>1, <1>9
<1>7. ASSUME NEW q \in DOMAIN Over(node, children), q # << >>
      PROVE  \E r \in DOMAIN tree : q = <<1>> \o r
  <2>. DEFINE E == Over(node, children)
  <2>0. /\ DOMAIN children = 1..1 /\ 1 \in Nat /\ q \in DOMAIN E /\ q # << >>
        /\ \A i \in 1..1 : IsShape(children[i])
    BY <1>1, <1>2, <1>7
  <2>1. q \in Position /\ Head(q) \in 1..1 /\ Tail(q) \in DOMAIN children[Head(q)]
    BY ONLY <2>0, OverFacts
  <2>2. q = <<Head(q)>> \o Tail(q) /\ Head(q) = 1
    BY <1>7, <2>1, HeadPosition
  <2>. QED  BY <1>1, <2>1, <2>2
<1>. QED  BY <1>1, <1>3, <1>4, <1>5, <1>6, <1>7 DEF children

\* Nodes after an update keep the form of a node.
IsUpdated(old, new, stmts) == new = [old EXCEPT !.stmts = stmts]
LEMMA UpdatedNode ==
  ASSUME NEW old, IsNode(old), NEW stmts, NEW new, IsUpdated(old, new, stmts)
  PROVE  new.type = old.type /\ new.name = old.name /\ IsNode(new)
BY DEF IsUpdated, IsNode, NodeIn

LEMMA NewNodes ==
  /\ \A type : NodeOf(type).type = type /\ IsNode(NodeOf(type))
  /\ \A type, stmts : Statements(type, stmts).type = type /\ IsNode(Statements(type, stmts))
  /\ \A type, name : Named(type, name).type = type /\ IsNode(Named(type, name))
                     /\ Named(type, name).name = name
  /\ \A pairs : Expansion(pairs).type = "expansion" /\ IsNode(Expansion(pairs))
  /\ \A m, c, p : Band(m, c, p).type = "band" /\ IsNode(Band(m, c, p))
<1>1. \A type : NodeOf(type).type = type /\ IsNode(NodeOf(type))
  BY DEF NodeOf, IsNode, NodeIn
<1>2. ASSUME NEW type, NEW stmts
      PROVE  Statements(type, stmts).type = type /\ IsNode(Statements(type, stmts))
  <2>. DEFINE old == NodeOf(type)
  <2>1. old.type = type /\ IsNode(old)
    BY <1>1
  <2>2. IsUpdated(old, Statements(type, stmts), stmts)
    BY DEF IsUpdated, Statements
  <2>. HIDE DEF old
  <2>. QED  BY <2>1, <2>2, UpdatedNode
<1>3. ASSUME NEW type, NEW name
      PROVE  /\ Named(type, name).type = type /\ IsNode(Named(type, name))
             /\ Named(type, name).name = name
  <2>. DEFINE old == NodeOf(type)
              new == Named(type, name)
  <2>1. old.type = type /\ IsNode(old)
    BY <1>1
  <2>2. new = [old EXCEPT !.name = name]
    BY DEF Named
  <2>. HIDE DEF old, new
  <2>3. new.type = type /\ new.name = name /\ IsNode(new)
    BY <2>1, <2>2 DEF IsNode, NodeIn
  <2>. QED  BY <2>3 DEF new
<1>4. ASSUME NEW pairs
      PROVE  Expansion(pairs).type = "expansion" /\ IsNode(Expansion(pairs))
  <2>. DEFINE old == NodeOf("expansion")
              new == Expansion(pairs)
  <2>1. old.type = "expansion" /\ IsNode(old)
    BY <1>1
  <2>2. new = [old EXCEPT !.expands = pairs]
    BY DEF Expansion
  <2>. HIDE DEF old, new
  <2>3. new.type = "expansion" /\ IsNode(new)
    BY <2>1, <2>2 DEF IsNode, NodeIn
  <2>. QED  BY <2>3 DEF new
<1>5. ASSUME NEW m, NEW c, NEW p
      PROVE  Band(m, c, p).type = "band" /\ IsNode(Band(m, c, p))
  <2>. DEFINE old == NodeOf("band")
              new == Band(m, c, p)
  <2>1. old.type = "band" /\ IsNode(old)
    BY <1>1
  <2>2. new = [[[old EXCEPT !.members = m] EXCEPT !.coincident = c] EXCEPT !.permutable = p]
    BY DEF Band
  <2>. HIDE DEF old, new
  <2>3. new.type = "band" /\ IsNode(new)
    BY <2>1, <2>2 DEF IsNode, NodeIn
  <2>. QED  BY <2>3 DEF new
<1>. QED  BY <1>1, <1>2, <1>3, <1>4, <1>5

\* What insert_filter puts at a place is a filter with something below it.
LEMMA FilterOverFacts ==
  ASSUME NEW stmts, NEW sub, IsTree(sub)
  PROVE  /\ IsTree(FilterOver(stmts, sub))
         /\ FilterOver(stmts, sub)[<< >>].type = "filter"
         /\ <<1>> \in DOMAIN FilterOver(stmts, sub)
         /\ \A q \in DOMAIN FilterOver(stmts, sub) : q # << >> =>
              \E r \in DOMAIN sub : FilterOver(stmts, sub)[q] = sub[r]
<1>1. IsShape(sub) /\ << >> \in DOMAIN sub /\ << >> \in Position
  BY ShapeFacts DEF IsTree, Position
<1>2. CASE sub[<< >>].type = "filter"
  <2>. DEFINE node == [sub[<< >>] EXCEPT !.stmts = @ \cap stmts]
              F == [q \in DOMAIN sub |-> IF q = << >> THEN node ELSE sub[q]]
  <2>1. FilterOver(stmts, sub) = F
    BY <1>1, <1>2 DEF FilterOver
  <2>2. node.type = "filter" /\ IsNode(node)
    <3>1. IsNode(sub[<< >>])
      BY <1>1 DEF IsTree
    <3>2. IsUpdated(sub[<< >>], node, sub[<< >>].stmts \cap stmts)
      BY DEF IsUpdated
    <3>. HIDE DEF F, node
    <3>. QED  BY <1>2, <3>1, <3>2, UpdatedNode
  <2>. HIDE DEF node
  <2>3. DOMAIN F = DOMAIN sub /\ F[<< >>] = node /\ \A q \in DOMAIN sub : q # << >> => F[q] = sub[q]
    BY <1>1
  <2>4. F = [q \in DOMAIN F |-> F[q]]
    OBVIOUS
  <2>. HIDE DEF F
  <2>5. IsShape(F)
    BY <1>1, <2>3, <2>4 DEF IsShape
  <2>6. IsTree(F)
    <3>1. ASSUME NEW q \in DOMAIN F
          PROVE  IsNode(F[q]) /\ (F[q].type = "leaf" <=> Append(q, 1) \notin DOMAIN F)
      <4>1. IsNode(sub[q]) /\ (sub[q].type = "leaf" <=> Append(q, 1) \notin DOMAIN sub)
        BY <2>3 DEF IsTree
      <4>. QED  BY <1>2, <2>2, <2>3, <4>1
    <3>. QED  BY <2>4, <2>5, <3>1 DEF IsTree
  <2>7. <<1>> \in DOMAIN F
    <3>1. Append(<< >>, 1) \in DOMAIN sub
      BY <1>1, <1>2 DEF IsTree
    <3>. QED  BY <1>1, <2>3, <3>1, OneConcat
  <2>. QED  BY <2>1, <2>2, <2>3, <2>6, <2>7
<1>3. CASE sub[<< >>].type # "filter"
  <2>. DEFINE node == Statements("filter", stmts)
  <2>1. IsNode(node) /\ node.type = "filter"
    BY NewNodes
  <2>. HIDE DEF node
  <2>. DEFINE F == Over(node, <<sub>>)
  <2>2. FilterOver(stmts, sub) = F
    BY <1>3 DEF FilterOver, node
  <2>3. IsTree(F) /\ F[<< >>] = node /\ <<1>> \in DOMAIN F
    BY <2>1, OverOne
  <2>4. ASSUME NEW q \in DOMAIN F, q # << >> PROVE \E r \in DOMAIN sub : F[q] = sub[r]
    <3>1. PICK r \in DOMAIN sub : q = <<1>> \o r
      BY <2>1, <2>4, OverOne
    <3>2. F[<<1>> \o r] = sub[r]
      BY <2>1, OverOne
    <3>. QED  BY <3>1, <3>2
  <2>. HIDE DEF F
  <2>. QED  BY <2>1, <2>2, <2>3, <2>4
<1>. QED  BY <1>2, <1>3

LEMMA DeleteIsTree ==
  ASSUME NEW tree, IsTree(tree), NEW p \in DOMAIN tree, tree[p].type # "leaf"
  PROVE  /\ IsTree(Delete(tree, p))
         /\ IsTree(Subtree(tree, Append(p, 1)))
         /\ Append(p, 1) \in DOMAIN tree
         /\ p \in DOMAIN Delete(tree, p)
<1>1. Append(p, 1) \in DOMAIN tree /\ IsShape(tree)
  BY DEF IsTree
<1>2. IsTree(Subtree(tree, Append(p, 1))) /\ IsShape(Subtree(tree, Append(p, 1)))
  BY <1>1, SubtreeIsTree DEF IsTree
<1>. QED  BY <1>1, <1>2, GraftIsTree, GraftFacts DEF Delete

-----------------------------------------------------------------------------
(* Expansion of a whole schedule *)

ReachedBy(tree, pairs, sub) ==
  {q \in Leaves(tree) :
     DomainAt(tree, q) \cap {e[1] : e \in {f \in pairs : f[2] \in sub[<< >>].stmts}} # {}}

\* No other leaf is above or below a leaf.
LEMMA LeavesAreApart ==
  ASSUME NEW tree, IsTree(tree), NEW q \in Leaves(tree), NEW p \in DOMAIN tree, IsPrefix(q, p)
  PROVE  p = q
<1>1. IsShape(tree) /\ q \in DOMAIN tree /\ Append(q, 1) \notin DOMAIN tree
  BY DEF IsTree, Leaves
<1>. QED  BY <1>1, WithoutChildren

LEMMA ExpandFacts ==
  ASSUME NEW tree, IsTree(tree), NEW pairs, NEW sub, IsTree(sub), sub[<< >>].type # "leaf"
  PROVE  LET E == Expand(tree, pairs, sub)
             R == ReachedBy(tree, pairs, sub)
         IN  /\ E = [q \in DOMAIN E |-> E[q]]
             /\ R \subseteq DOMAIN tree /\ DOMAIN tree \subseteq DOMAIN E
             /\ \A q \in DOMAIN E :
                  q \in DOMAIN tree \/ \E p \in R : \E r \in DOMAIN sub : r # << >> /\ q = p \o r
             /\ \A q \in R : E[q] = Expansion(pairs)
             /\ \A q \in DOMAIN tree : q \notin R => E[q] = tree[q]
             /\ \A p \in R : \A r \in DOMAIN sub : r # << >> =>
                  /\ p \o r \in DOMAIN E /\ p \o r \notin DOMAIN tree
                  /\ E[p \o r] = sub[r]
<1>. DEFINE E == Expand(tree, pairs, sub)
            R == ReachedBy(tree, pairs, sub)
            inserted == DOMAIN sub \ {<< >>}
            new == {q \o r : q \in R, r \in inserted}
            At2(p) == CHOOSE q \in R : IsPrefix(q, p)
            Value(p) == IF p \in R THEN Expansion(pairs)
                        ELSE IF p \in DOMAIN tree THEN tree[p] ELSE sub[From(At2(p), p)]
<1>1. E = [p \in DOMAIN tree \cup new |-> Value(p)]
  BY DEF Expand, ReachedBy
<1>2. IsShape(tree) /\ IsShape(sub)
  BY DEF IsTree
<1>3. R \subseteq Leaves(tree) /\ R \subseteq DOMAIN tree
  BY DEF ReachedBy, Leaves
<1>4. \A q \in DOMAIN tree : q \in Position
  BY <1>2, ShapeFacts
<1>5. \A r \in DOMAIN sub : r \in Position
  BY <1>2, ShapeFacts
<1>6. ASSUME NEW p \in R, NEW r \in DOMAIN sub, r # << >>
      PROVE  /\ p \o r \in new /\ p \o r \notin DOMAIN tree
             /\ Value(p \o r) = sub[r]
  <2>1. p \o r \in Position /\ IsPrefix(p, p \o r) /\ From(p, p \o r) = r /\ p \o r # p
    BY <1>3, <1>4, <1>5, <1>6, ConcatPosition
  <2>. DEFINE s == p \o r
  <2>2. s \notin DOMAIN tree
    BY <1>3, <2>1, LeavesAreApart
  <2>3. At2(s) = p
    <3>. HIDE DEF s, R
    <3>1. \A q \in R : IsPrefix(q, s) => q = p
      <4>1. SUFFICES ASSUME NEW q \in R, IsPrefix(q, s) PROVE q = p
        OBVIOUS
      <4>2. IsPrefix(p, s) /\ q \in Position /\ p \in Position /\ s \in Position
        BY <1>3, <1>4, <2>1 DEF s
      <4>3. IsPrefix(q, p) \/ IsPrefix(p, q)
        BY <4>1, <4>2, PrefixOrder
      <4>. QED  BY <1>3, <4>3, LeavesAreApart
    <3>2. IsPrefix(p, s)
      BY <2>1 DEF s
    <3>. QED  BY <3>1, <3>2
  <2>4. s \in new
    BY <1>6
  <2>5. s \notin R
    BY <1>3, <2>2
  <2>. HIDE DEF s, R, new, At2
  <2>6. Value(s) = sub[From(At2(s), s)]
    BY <2>2, <2>5
  <2>7. From(p, s) = r
    BY <2>1 DEF s
  <2>. QED  BY <2>2, <2>3, <2>4, <2>6, <2>7 DEF s
<1>7. \A q \in new : \E p \in R : \E r \in DOMAIN sub : r # << >> /\ q = p \o r
  OBVIOUS
<1>. HIDE DEF R, inserted, new, At2
<1>8. \A q \in R : Value(q) = Expansion(pairs)
  OBVIOUS
<1>9. \A q \in DOMAIN tree : q \notin R => Value(q) = tree[q]
  OBVIOUS
<1>. HIDE DEF Value
<1>10. DOMAIN E = DOMAIN tree \cup new /\ E = [q \in DOMAIN E |-> E[q]]
       /\ \A q \in DOMAIN tree \cup new : E[q] = Value(q)
  BY <1>1
<1>. HIDE DEF E
<1>11. ASSUME NEW p \in R, NEW r \in DOMAIN sub, r # << >>
       PROVE  p \o r \in DOMAIN E /\ p \o r \notin DOMAIN tree /\ E[p \o r] = sub[r]
  <2>1. p \o r \in new /\ p \o r \notin DOMAIN tree /\ Value(p \o r) = sub[r]
    BY <1>6, <1>11
  <2>. QED  BY <1>10, <2>1
<1>12. \A q \in R : E[q] = Expansion(pairs)
  BY <1>3, <1>8, <1>10
<1>13. \A q \in DOMAIN tree : q \notin R => E[q] = tree[q]
  BY <1>9, <1>10
<1>14. \A q \in DOMAIN E :
         q \in DOMAIN tree \/ \E p \in R : \E r \in DOMAIN sub : r # << >> /\ q = p \o r
  BY <1>7, <1>10
<1>15. R \subseteq DOMAIN tree /\ DOMAIN tree \subseteq DOMAIN E
  BY <1>3, <1>10
<1>. QED  BY <1>10, <1>11, <1>12, <1>13, <1>14, <1>15 DEF E, R

LEMMA ExpandShape ==
  ASSUME NEW tree, IsTree(tree), NEW pairs, NEW sub, IsTree(sub), sub[<< >>].type # "leaf"
  PROVE  IsShape(Expand(tree, pairs, sub))
<1>. DEFINE E == Expand(tree, pairs, sub)
            R == ReachedBy(tree, pairs, sub)
            inserted == DOMAIN sub \ {<< >>}
            Under(q) == {q \o r : r \in inserted}
            T == {Under(q) : q \in R}
<1>1. IsShape(tree) /\ IsShape(sub)
  BY DEF IsTree
<1>2. /\ E = [q \in DOMAIN E |-> E[q]]
      /\ R \subseteq DOMAIN tree /\ DOMAIN tree \subseteq DOMAIN E
      /\ \A q \in DOMAIN E :
           q \in DOMAIN tree \/ \E p \in R : \E r \in DOMAIN sub : r # << >> /\ q = p \o r
      /\ \A q \in R : E[q] = Expansion(pairs)
      /\ \A q \in DOMAIN tree : q \notin R => E[q] = tree[q]
      /\ \A p \in R : \A r \in DOMAIN sub : r # << >> =>
           p \o r \in DOMAIN E /\ p \o r \notin DOMAIN tree /\ E[p \o r] = sub[r]
  BY ExpandFacts
<1>3. IsFiniteSet(DOMAIN E)
  <2>1. IsFiniteSet(R) /\ IsFiniteSet(inserted)
    BY <1>1, <1>2, ShapeFacts, FS_Subset
  <2>2. ASSUME NEW q \in R PROVE IsFiniteSet(Under(q))
    <3>. DEFINE U == Under(q)
                f == [r \in inserted |-> q \o r]
    <3>1. f \in Surjection(inserted, U)
      BY DEF Surjection
    <3>. HIDE DEF f, U, inserted
    <3>2. IsFiniteSet(U)
      BY <2>1, <3>1, FS_Surjection
    <3>. QED  BY <3>2 DEF U
  <2>3. IsFiniteSet(T)
    <3>. DEFINE f == [q \in R |-> Under(q)]
    <3>. HIDE DEF Under, R
    <3>1. f \in Surjection(R, T)
      BY DEF Surjection
    <3>. HIDE DEF f, T
    <3>. QED  BY <2>1, <3>1, FS_Surjection
  <2>4. \A t \in T : IsFiniteSet(t)
    BY <2>2
  <2>5. DOMAIN E \subseteq DOMAIN tree \cup UNION T
    <3>. HIDE DEF E, R
    <3>1. SUFFICES ASSUME NEW q \in DOMAIN E, q \notin DOMAIN tree PROVE q \in UNION T
      OBVIOUS
    <3>2. PICK p \in R : \E r \in DOMAIN sub : r # << >> /\ q = p \o r
      BY <1>2, <3>1
    <3>3. q \in Under(p)
      BY <3>2
    <3>. QED  BY <3>3
  <2>. HIDE DEF T, E
  <2>6. IsFiniteSet(UNION T)
    BY <2>3, <2>4, FS_UNION
  <2>7. IsFiniteSet(DOMAIN tree \cup UNION T)
    BY <1>1, <2>6, ShapeFacts, FS_Union
  <2>. QED  BY <2>5, <2>7, FS_Subset
<1>. HIDE DEF E, R
<1>4. ASSUME NEW q \in DOMAIN E
      PROVE  /\ q \in Position
             /\ q # << >> => /\ Front(q) \in DOMAIN E
                             /\ \A i \in 1..Last(q) : Append(Front(q), i) \in DOMAIN E
  <2>1. CASE q \in DOMAIN tree
    BY <1>1, <1>2, <2>1, ShapeFacts
  <2>2. CASE q \notin DOMAIN tree
    <3>1. PICK p \in R : \E r \in DOMAIN sub : r # << >> /\ q = p \o r
      BY <1>2, <2>2
    <3>2. PICK r \in DOMAIN sub : r # << >> /\ q = p \o r
      BY <3>1
    <3>3. p \in Position /\ r \in Position /\ p \in DOMAIN tree
      BY <1>1, <1>2, ShapeFacts
    <3>4. /\ Front(r) \in DOMAIN sub /\ Front(r) \in Position
          /\ \A i \in 1..Last(r) : Append(Front(r), i) \in DOMAIN sub
          /\ Last(r) \in Nat \ {0}
      BY <1>1, <3>2, <3>3, ShapeFacts, FrontPosition
    <3>5. Front(p \o r) = p \o Front(r) /\ Last(p \o r) = Last(r) /\ p \o r \in Position
      BY <3>2, <3>3, ConcatFront, ConcatPosition
    <3>6. p \o Front(r) \in DOMAIN E
      <4>1. CASE Front(r) = << >>
        <5>1. p \o << >> = p
          BY <3>3, ConcatPosition
        <5>. QED  BY <1>2, <3>3, <4>1, <5>1
      <4>2. CASE Front(r) # << >>
        BY <1>2, <3>4, <4>2
      <4>. QED  BY <4>1, <4>2
    <3>7. ASSUME NEW i \in 1..Last(r) PROVE Append(p \o Front(r), i) \in DOMAIN E
      <4>. DEFINE s == Append(Front(r), i)
      <4>1. i \in Nat \ {0}
        BY <3>4
      <4>2. s \in DOMAIN sub /\ s # << >>
        BY <3>4, <4>1, AppendPosition
      <4>3. p \o Append(Front(r), i) = Append(p \o Front(r), i)
        BY <3>3, <3>4, <4>1, ConcatAppend
      <4>. HIDE DEF s
      <4>4. p \o s \in DOMAIN E
        BY <1>2, <4>2
      <4>. QED  BY <4>3, <4>4 DEF s
    <3>. QED  BY <3>2, <3>5, <3>6, <3>7
  <2>. QED  BY <2>1, <2>2
<1>5. << >> \in DOMAIN E
  BY <1>1, <1>2, ShapeFacts
<1>6. IsShape(E)
  BY <1>3, <1>4, <1>5 DEF IsShape
<1>. QED  BY <1>6 DEF E

\* An expansion of a tree is a tree, and keeps its positions.
LEMMA ExpandIsTree ==
  ASSUME NEW tree, IsTree(tree), NEW pairs, NEW sub, IsTree(sub), sub[<< >>].type # "leaf"
  PROVE  /\ IsTree(Expand(tree, pairs, sub))
         /\ DOMAIN tree \subseteq DOMAIN Expand(tree, pairs, sub)
<1>. DEFINE E == Expand(tree, pairs, sub)
            R == ReachedBy(tree, pairs, sub)
<1>1. IsShape(tree) /\ IsShape(sub) /\ IsShape(E) /\ 1 \in Nat \ {0}
  BY ExpandShape DEF IsTree
<1>2. /\ E = [q \in DOMAIN E |-> E[q]]
      /\ R \subseteq DOMAIN tree /\ DOMAIN tree \subseteq DOMAIN E
      /\ \A q \in DOMAIN E :
           q \in DOMAIN tree \/ \E p \in R : \E r \in DOMAIN sub : r # << >> /\ q = p \o r
      /\ \A q \in R : E[q] = Expansion(pairs)
      /\ \A q \in DOMAIN tree : q \notin R => E[q] = tree[q]
      /\ \A p \in R : \A r \in DOMAIN sub : r # << >> =>
           p \o r \in DOMAIN E /\ p \o r \notin DOMAIN tree /\ E[p \o r] = sub[r]
  BY ExpandFacts
<1>3. R \subseteq Leaves(tree)
  BY DEF ReachedBy
<1>. HIDE DEF E, R
<1>4. ASSUME NEW q \in DOMAIN E
      PROVE  IsNode(E[q]) /\ (E[q].type = "leaf" <=> Append(q, 1) \notin DOMAIN E)
  <2>. DEFINE t == Append(q, 1)
  <2>0. q \in Position /\ t \in Position /\ t # << >> /\ Front(t) = q
    BY <1>1, ShapeFacts, AppendPosition
  <2>1. CASE q \in R
    <3>1. E[q] = Expansion(pairs) /\ IsNode(E[q]) /\ E[q].type # "leaf"
      BY <1>2, <2>1, NewNodes
    <3>2. Append(<< >>, 1) \in DOMAIN sub /\ << >> \in Position
      BY <1>1, ShapeFacts DEF IsTree
    <3>. DEFINE s == Append(<< >>, 1)
    <3>3. s # << >> /\ q \o s = Append(q \o << >>, 1) /\ q \o << >> = q
      BY <1>1, <2>0, <3>2, AppendPosition, ConcatAppend, ConcatPosition
    <3>4. s \in DOMAIN sub
      BY <3>2
    <3>. HIDE DEF s
    <3>5. q \o s \in DOMAIN E
      BY <1>2, <2>1, <3>3, <3>4
    <3>. QED  BY <3>1, <3>3, <3>5
  <2>2. CASE q \in DOMAIN tree /\ q \notin R
    <3>1. E[q] = tree[q] /\ IsNode(tree[q]) /\ (tree[q].type = "leaf" <=> t \notin DOMAIN tree)
      BY <1>2, <2>2 DEF IsTree
    <3>. HIDE DEF t
    <3>2. ASSUME t \in DOMAIN E, t \notin DOMAIN tree PROVE FALSE
      <4>1. PICK p \in R : \E r \in DOMAIN sub : r # << >> /\ t = p \o r
        BY <1>2, <3>2
      <4>2. PICK r \in DOMAIN sub : r # << >> /\ t = p \o r
        BY <4>1
      <4>3. p \in Position /\ r \in Position /\ p \in DOMAIN tree
        BY <1>1, <1>2, ShapeFacts
      <4>4. Front(r) \in DOMAIN sub /\ q = p \o Front(r)
        BY <1>1, <2>0, <4>2, <4>3, ConcatFront, ShapeFacts
      <4>5. Front(r) = << >>
        BY <1>2, <2>2, <4>4
      <4>6. q = p
        BY <4>3, <4>4, <4>5, ConcatPosition
      <4>. QED  BY <2>2, <4>6
    <3>3. t \in DOMAIN tree => t \in DOMAIN E
      BY <1>2
    <3>. QED  BY <3>1, <3>2, <3>3 DEF t
  <2>3. CASE q \notin DOMAIN tree
    <3>1. PICK p \in R : \E r \in DOMAIN sub : r # << >> /\ q = p \o r
      BY <1>2, <2>3
    <3>2. PICK r \in DOMAIN sub : r # << >> /\ q = p \o r
      BY <3>1
    <3>3. p \in Position /\ r \in Position /\ p \in DOMAIN tree
      BY <1>1, <1>2, ShapeFacts
    <3>. DEFINE s == Append(r, 1)
    <3>4. /\ E[q] = sub[r] /\ IsNode(sub[r])
          /\ sub[r].type = "leaf" <=> s \notin DOMAIN sub
      BY <1>2, <3>2 DEF IsTree
    <3>5. s \in Position /\ s # << >> /\ p \o s = t
      BY <1>1, <3>2, <3>3, AppendPosition, ConcatAppend
    <3>6. IsPrefix(p, p \o s) /\ From(p, p \o s) = s /\ p \o s # p
      BY <3>3, <3>5, ConcatPosition
    <3>. HIDE DEF s, t
    <3>7. s \in DOMAIN sub => t \in DOMAIN E
      BY <1>2, <3>5
    <3>8. ASSUME t \in DOMAIN E PROVE s \in DOMAIN sub
      <4>1. t \notin DOMAIN tree
        BY <1>3, <3>5, <3>6, LeavesAreApart
      <4>2. PICK u \in R : \E v \in DOMAIN sub : v # << >> /\ t = u \o v
        BY <1>2, <3>8, <4>1
      <4>3. PICK v \in DOMAIN sub : v # << >> /\ t = u \o v
        BY <4>2
      <4>4. u \in Position /\ v \in Position /\ u \in DOMAIN tree
        BY <1>1, <1>2, ShapeFacts
      <4>5. IsPrefix(u, u \o v) /\ From(u, u \o v) = v
        BY <4>4, ConcatPosition
      <4>6. IsPrefix(u, t) /\ IsPrefix(p, t) /\ From(u, t) = v /\ From(p, t) = s
        BY <3>5, <3>6, <4>3, <4>5
      <4>7. IsPrefix(u, p) \/ IsPrefix(p, u)
        BY <2>0, <3>3, <4>4, <4>6, PrefixOrder DEF t
      <4>8. u = p
        BY <1>3, <3>3, <4>4, <4>7, LeavesAreApart
      <4>. QED  BY <4>6, <4>8
    <3>. QED  BY <3>4, <3>7, <3>8 DEF t
  <2>. QED  BY <2>1, <2>2, <2>3
<1>5. IsTree(E)
  BY <1>1, <1>2, <1>4 DEF IsTree
<1>. QED  BY <1>2, <1>5 DEF E

-----------------------------------------------------------------------------
(* The inductive invariant of insertAt and of the walk around it *)

\* What insertAt goes through above a position: filters of sequences and sets.
IsCall(call) ==
  /\ call = [builder |-> call.builder, at |-> call.at, expanded |-> call.expanded]
  /\ IsShape(call.builder) /\ call.at \in DOMAIN call.builder
  /\ \A q \in DOMAIN call.builder : ~ IsExpandMark(call.builder[q])
  /\ call.at # << >> => call.builder[Front(call.at)].type \notin SeveralTypes
  /\ \A p \in DOMAIN call.builder :
       IsPrefix(p, call.at) /\ p # call.at /\ call.builder[p].type \in SeveralTypes =>
         \A i \in 1..NChildren(call.builder, p) :
           call.builder[Append(p, i)].type = "filter"

Placed(handle) ==
  /\ handle = Handle(handle.tree, handle.path)
  /\ IsTree(handle.tree) /\ handle.path \in DOMAIN handle.tree
Unmarked(tree) == \A q \in DOMAIN tree : ~ IsExpandMark(tree[q])
MarkedAt(handle) ==
  \A q \in DOMAIN handle.tree :
    IsExpandMark(handle.tree[q]) => q = handle.path /\ handle.tree[q] = ExpandMark

\* The places below the filters of the sequences and sets a call is inside of,
\* when its builder is put at b.
AwaitedIn(call, b, tree) ==
  \A p \in DOMAIN call.builder :
    IsPrefix(p, call.at) /\ p # call.at /\ call.builder[p].type \in SeveralTypes =>
      \A i \in 1..NChildren(call.builder, p) :
        b \o Append(Append(p, i), 1) \in DOMAIN tree

\* No expansion is under way between the k-th call and the i-th.
SameTree(c, k, i) == \A m \in (k + 1)..i : c[m].expanded = Null

\* The calls c with the roots of their builders put at the positions b.
FramedBy(c, cur, b) ==
  /\ \A k \in DOMAIN c, i \in DOMAIN c :
       k < i /\ SameTree(c, k, i) => IsPrefix(b[k] \o c[k].at, b[i])
  /\ \A i \in DOMAIN c : i > 1 /\ c[i].expanded = Null => b[i] = b[i - 1] \o c[i - 1].at
  /\ \A i \in DOMAIN c : c[i].expanded # Null =>
       i > 1 /\ b[i] = <<1>> /\ c[i].expanded.path = b[i - 1] \o c[i - 1].at
  /\ c # << >> => cur.path = b[Len(c)] \o c[Len(c)].at
  /\ \A k \in DOMAIN c, i \in DOMAIN c :
       k <= i /\ SameTree(c, k, i) =>
         /\ i = Len(c) => AwaitedIn(c[k], b[k], cur.tree)
         /\ i < Len(c) /\ c[i + 1].expanded # Null =>
              AwaitedIn(c[k], b[k], c[i + 1].expanded.tree)

\* An expansion puts its mark when it has returned from its subtree.
Expandable(c, ret) ==
  \A k \in DOMAIN c : c[k].expanded # Null =>
    /\ Placed(c[k].expanded) /\ MarkedAt(c[k].expanded)
    /\ k < Len(c) \/ ~ ret \/ c[k].at # << >> => Unmarked(c[k].expanded.tree)

CursorInv ==
  /\ cursor # Null => Placed(cursor) /\ MarkedAt(cursor)
  /\ cursor # Null /\ (~ returning \/ calls = << >>) => Unmarked(cursor.tree)
  /\ cursor = Null => /\ Len(calls) = 1 /\ calls[1].at = << >> /\ ~ returning
                      /\ problem.op = "build"

WalkInv ==
  /\ status \in {"running", "done", "aborted"} /\ returning \in BOOLEAN
  /\ visit \in {"match", "rebuild", "up"} /\ problem \in Problems
  /\ visit = "rebuild" <=> calls # << >>
  /\ problem.op = "merge" /\ calls = << >> => IsPrefix(problem.at, cursor.path)
  /\ problem.op # "merge" => visit = "rebuild"
  /\ Placed(captured.grandchild) /\ Unmarked(captured.grandchild.tree)

IsStack(c) == c \in Seq(ToSet(c))

CallsInv ==
  /\ IsStack(calls)
  /\ \A k \in DOMAIN calls : IsCall(calls[k])
  /\ Expandable(calls, returning)

Bases == [DOMAIN calls -> Position]
FrameInv(bases) ==
  \E b \in bases :
    /\ FramedBy(calls, cursor, b)
    /\ problem.op = "merge" /\ calls # << >> => IsPrefix(problem.at, b[1])

IInv == CursorInv /\ WalkInv /\ CallsInv /\ FrameInv(Bases)

-----------------------------------------------------------------------------
(* How a call moves in its builder *)

MovedTo(call, at) == [builder |-> call.builder, at |-> at, expanded |-> call.expanded]

LEMMA CallFacts ==
  ASSUME NEW call, IsCall(call)
  PROVE  /\ IsShape(call.builder) /\ call.at \in DOMAIN call.builder
         /\ call.at \in Position
         /\ MovedTo(call, call.at) = call
         /\ \A at : /\ MovedTo(call, at).builder = call.builder
                    /\ MovedTo(call, at).at = at
                    /\ MovedTo(call, at).expanded = call.expanded
BY ShapeFacts DEF IsCall, MovedTo

\* What is above the children of a position.
LEMMA AboveChild ==
  ASSUME NEW p \in Position, NEW q \in Position, NEW i \in Nat \ {0}
  PROVE  IsPrefix(p, Append(q, i)) /\ p # Append(q, i)
           <=> p = q \/ (IsPrefix(p, q) /\ p # q)
<1>1. IsPrefix(p, Append(q, i)) <=> p = Append(q, i) \/ IsPrefix(p, q)
  BY PrefixAppend
<1>2. IsPrefix(q, q) /\ IsPrefix(q, Append(q, i)) /\ Append(q, i) # q /\ Append(q, i) \in Position
  BY PrefixOrder, PrefixAppend, AppendPosition
<1>3. ASSUME IsPrefix(p, q) PROVE p # Append(q, i)
  <2>1. SUFFICES ASSUME p = Append(q, i) PROVE FALSE
    OBVIOUS
  <2>. QED  BY <1>2, <1>3, <2>1, PrefixOrder
<1>4. CASE p = q
  <2>1. IsPrefix(p, q) /\ p # Append(q, i)
    BY <1>2, <1>4
  <2>. QED  BY <1>1, <1>4, <2>1
<1>5. CASE p # q
  BY <1>1, <1>3, <1>5
<1>. QED  BY <1>4, <1>5

\* Down to a child of a node that has a call for each child.
LEMMA DownToChild ==
  ASSUME NEW call, IsCall(call), call.builder[call.at].type \notin SeveralTypes,
         NEW i \in Nat \ {0}, Append(call.at, i) \in DOMAIN call.builder,
         NEW b, NEW tree, AwaitedIn(call, b, tree)
  PROVE  /\ IsCall(MovedTo(call, Append(call.at, i)))
         /\ AwaitedIn(MovedTo(call, Append(call.at, i)), b, tree)
<1>. DEFINE at == Append(call.at, i)
            new == MovedTo(call, at)
<1>1. /\ new.builder = call.builder /\ new.at = at /\ new.expanded = call.expanded
      /\ IsShape(call.builder) /\ call.at \in Position
  BY CallFacts
<1>2. at \in DOMAIN call.builder /\ Front(at) = call.at
  BY <1>1, AppendPosition
<1>3. ASSUME NEW p \in DOMAIN call.builder, IsPrefix(p, at), p # at,
             call.builder[p].type \in SeveralTypes
      PROVE  IsPrefix(p, call.at) /\ p # call.at
  <2>1. p \in Position
    BY <1>1, ShapeFacts
  <2>2. p = call.at \/ (IsPrefix(p, call.at) /\ p # call.at)
    BY <1>1, <1>3, <2>1, AboveChild
  <2>. QED  BY <1>3, <2>2
<1>. HIDE DEF at
<1>4. new = [builder |-> new.builder, at |-> new.at, expanded |-> new.expanded]
  BY <1>1 DEF MovedTo
<1>. HIDE DEF new
<1>5. IsCall(new)
  BY <1>1, <1>2, <1>3, <1>4 DEF IsCall
<1>6. AwaitedIn(new, b, tree)
  BY <1>1, <1>3 DEF AwaitedIn
<1>. QED  BY <1>5, <1>6 DEF new, at

\* From the place below a filter up to the sequence or set.
LEMMA UpToSeveral ==
  ASSUME NEW call, IsCall(call), call.at # << >>, Front(call.at) # << >>,
         call.builder[Front(Front(call.at))].type \in SeveralTypes,
         NEW b, NEW tree, AwaitedIn(call, b, tree)
  PROVE  LET at == Front(Front(call.at))
         IN  /\ IsCall(MovedTo(call, at)) /\ AwaitedIn(MovedTo(call, at), b, tree)
             /\ at \in DOMAIN call.builder
             /\ \A i \in 1..NChildren(call.builder, at) :
                  /\ call.builder[Append(at, i)].type = "filter"
                  /\ b \o Append(Append(at, i), 1) \in DOMAIN tree
<1>. DEFINE f == Front(call.at)
            at == Front(f)
            new == MovedTo(call, at)
<1>1. /\ new.builder = call.builder /\ new.at = at /\ new.expanded = call.expanded
      /\ IsShape(call.builder) /\ call.at \in Position /\ call.at \in DOMAIN call.builder
  BY CallFacts
<1>2. f \in DOMAIN call.builder /\ at \in DOMAIN call.builder /\ f \in Position /\ at \in Position
  BY <1>1, ShapeFacts
<1>3. IsPrefix(at, f) /\ at # f /\ IsPrefix(f, call.at) /\ f # call.at
  BY <1>1, <1>2, PrefixFront
<1>. HIDE DEF f
<1>4. ASSUME NEW p \in DOMAIN call.builder, IsPrefix(p, at)
      PROVE  IsPrefix(p, call.at) /\ p # call.at
  <2>1. p \in Position
    BY <1>1, ShapeFacts
  <2>2. IsPrefix(p, f)
    BY <1>2, <1>3, <1>4, <2>1, PrefixOrder
  <2>3. IsPrefix(p, call.at)
    BY <1>1, <1>2, <1>3, <2>1, <2>2, PrefixOrder
  <2>4. p # call.at
    BY <1>1, <1>2, <1>3, <2>1, <2>2, PrefixOrder
  <2>. QED  BY <2>3, <2>4
<1>5. IsPrefix(at, call.at) /\ at # call.at
  BY <1>2, <1>4, PrefixOrder
<1>6. call.builder[at].type \in SeveralTypes
  BY DEF f
<1>7. \A i \in 1..NChildren(call.builder, at) :
        /\ call.builder[Append(at, i)].type = "filter"
        /\ b \o Append(Append(at, i), 1) \in DOMAIN tree
  BY <1>2, <1>5, <1>6 DEF IsCall, AwaitedIn
<1>8. ASSUME at # << >> PROVE call.builder[Front(at)].type \notin SeveralTypes
  <2>. DEFINE g == Front(at)
              i == Last(at)
  <2>1. /\ g \in DOMAIN call.builder /\ g \in Position /\ i \in Nat \ {0}
        /\ at = Append(g, i) /\ IsPrefix(g, at) /\ g # at
    <3>1. g \in DOMAIN call.builder /\ g \in Position
      BY <1>1, <1>2, <1>8, ShapeFacts
    <3>2. i \in Nat \ {0} /\ at = Append(g, i)
      BY <1>2, <1>8, FrontPosition
    <3>3. IsPrefix(g, at) /\ g # at
      BY <1>2, <1>8, <3>1, PrefixFront
    <3>. QED  BY <3>1, <3>2, <3>3
  <2>3. IsPrefix(g, call.at) /\ g # call.at
    BY <1>4, <2>1
  <2>. HIDE DEF g, i
  <2>5. NChildren(call.builder, g) \in Nat /\ i <= NChildren(call.builder, g)
    BY <1>1, <1>2, <2>1, ChildrenAreNumbered
  <2>2. i \in 1..NChildren(call.builder, g)
    BY <2>1, <2>5
  <2>4. SUFFICES ASSUME call.builder[g].type \in SeveralTypes PROVE FALSE
    BY DEF g
  <2>6. call.builder[Append(g, i)].type = "filter"
    BY <2>1, <2>2, <2>3, <2>4 DEF IsCall
  <2>. QED  BY <1>6, <2>1, <2>6 DEF SeveralTypes
<1>9. new = [builder |-> new.builder, at |-> new.at, expanded |-> new.expanded]
  BY <1>1 DEF MovedTo
<1>. HIDE DEF at, new
<1>10. IsCall(new)
  BY <1>1, <1>2, <1>4, <1>8, <1>9 DEF IsCall
<1>11. AwaitedIn(new, b, tree)
  BY <1>1, <1>4 DEF AwaitedIn
<1>. QED  BY <1>2, <1>7, <1>10, <1>11 DEF new, at, f

\* From a sequence or set to the place below one of its filters.
LEMMA BelowFilter ==
  ASSUME NEW call, IsCall(call), call.builder[call.at].type \in SeveralTypes,
         NEW b, NEW tree, AwaitedIn(call, b, tree),
         \A i \in 1..NChildren(call.builder, call.at) :
           /\ call.builder[Append(call.at, i)].type = "filter"
           /\ b \o Append(Append(call.at, i), 1) \in DOMAIN tree,
         NEW j \in Nat \ {0}, Append(Append(call.at, j), 1) \in DOMAIN call.builder
  PROVE  /\ IsCall(MovedTo(call, Append(Append(call.at, j), 1)))
         /\ AwaitedIn(MovedTo(call, Append(Append(call.at, j), 1)), b, tree)
<1>. DEFINE f == Append(call.at, j)
            at == Append(f, 1)
            new == MovedTo(call, at)
<1>1. /\ new.builder = call.builder /\ new.at = at /\ new.expanded = call.expanded
      /\ IsShape(call.builder) /\ call.at \in Position /\ call.at \in DOMAIN call.builder
      /\ 1 \in Nat \ {0}
  <2>. HIDE DEF at
  <2>. QED  BY CallFacts DEF new
<1>2. f \in Position /\ f # << >> /\ Front(f) = call.at /\ at \in Position /\ at # << >> /\ Front(at) = f
  BY <1>1, AppendPosition
<1>3. at \in DOMAIN call.builder
  OBVIOUS
<1>4. f \in DOMAIN call.builder
  BY <1>1, <1>2, <1>3, ShapeFacts
<1>5. j \in 1..NChildren(call.builder, call.at)
  BY <1>1, <1>4, ChildrenAreNumbered
<1>6. call.builder[f].type = "filter"
  BY <1>5
<1>7. ASSUME NEW p \in DOMAIN call.builder, IsPrefix(p, at), p # at,
             call.builder[p].type \in SeveralTypes
      PROVE  p = call.at \/ (IsPrefix(p, call.at) /\ p # call.at)
  <2>1. p \in Position
    BY <1>1, ShapeFacts
  <2>2. p = f \/ (IsPrefix(p, f) /\ p # f)
    BY <1>1, <1>2, <1>7, <2>1, AboveChild
  <2>3. p # f
    BY <1>6, <1>7 DEF SeveralTypes
  <2>. QED  BY <1>1, <2>1, <2>2, <2>3, AboveChild
<1>. HIDE DEF at
<1>8. new = [builder |-> new.builder, at |-> new.at, expanded |-> new.expanded]
  BY <1>1 DEF MovedTo
<1>. HIDE DEF f, new
<1>9. call.builder[Front(at)].type \notin SeveralTypes
  BY <1>2, <1>6 DEF SeveralTypes
<1>10. IsCall(new)
  BY <1>1, <1>3, <1>7, <1>8, <1>9 DEF IsCall
<1>11. AwaitedIn(new, b, tree)
  BY <1>1, <1>7 DEF AwaitedIn
<1>. QED  BY <1>10, <1>11 DEF new, at, f

\* Up to a parent that is not in a sequence or set.
LEMMA UpToParent ==
  ASSUME NEW call, IsCall(call), call.at # << >>,
         Front(call.at) # << >> => call.builder[Front(Front(call.at))].type \notin SeveralTypes,
         NEW b, NEW tree, AwaitedIn(call, b, tree)
  PROVE  /\ IsCall(MovedTo(call, Front(call.at)))
         /\ AwaitedIn(MovedTo(call, Front(call.at)), b, tree)
<1>. DEFINE at == Front(call.at)
            new == MovedTo(call, at)
<1>1. /\ new.builder = call.builder /\ new.at = at /\ new.expanded = call.expanded
      /\ IsShape(call.builder) /\ call.at \in Position /\ call.at \in DOMAIN call.builder
  BY CallFacts
<1>2. at \in DOMAIN call.builder /\ at \in Position /\ IsPrefix(at, call.at) /\ at # call.at
  BY <1>1, ShapeFacts, PrefixFront
<1>3. at # << >> => call.builder[Front(at)].type \notin SeveralTypes
  OBVIOUS
<1>. HIDE DEF at
<1>4. ASSUME NEW p \in DOMAIN call.builder, IsPrefix(p, at)
      PROVE  IsPrefix(p, call.at) /\ p # call.at
  <2>1. p \in Position
    BY <1>1, ShapeFacts
  <2>2. IsPrefix(p, call.at)
    BY <1>1, <1>2, <1>4, <2>1, PrefixOrder
  <2>3. p # call.at
    BY <1>1, <1>2, <1>4, <2>1, PrefixOrder
  <2>. QED  BY <2>2, <2>3
<1>8. new = [builder |-> new.builder, at |-> new.at, expanded |-> new.expanded]
  BY <1>1 DEF MovedTo
<1>. HIDE DEF new
<1>10. IsCall(new)
  BY <1>1, <1>2, <1>3, <1>4, <1>8 DEF IsCall
<1>11. AwaitedIn(new, b, tree)
  BY <1>1, <1>4 DEF AwaitedIn
<1>. QED  BY <1>10, <1>11 DEF new, at

\* A graft keeps what the calls around it wait for.
LEMMA AwaitedKept ==
  ASSUME NEW call, IsCall(call), NEW b \in Position,
         NEW tree, IsTree(tree), NEW place \in DOMAIN tree, NEW sub, IsTree(sub),
         AwaitedIn(call, b, tree), IsPrefix(b \o call.at, place)
  PROVE  AwaitedIn(call, b, Graft(tree, place, sub))
<1>1. /\ IsShape(call.builder) /\ call.at \in Position /\ call.at \in DOMAIN call.builder
      /\ IsShape(tree) /\ IsShape(sub) /\ place \in Position /\ 1 \in Nat \ {0}
  BY CallFacts, ShapeFacts DEF IsTree
<1>2. SUFFICES ASSUME NEW p \in DOMAIN call.builder, IsPrefix(p, call.at), p # call.at,
                      call.builder[p].type \in SeveralTypes,
                      NEW i \in 1..NChildren(call.builder, p)
               PROVE  b \o Append(Append(p, i), 1) \in DOMAIN Graft(tree, place, sub)
  BY DEF AwaitedIn
<1>. DEFINE a == Append(Append(p, i), 1)
<1>3. b \o a \in DOMAIN tree
  BY <1>2 DEF AwaitedIn
<1>4. p \in Position /\ NChildren(call.builder, p) \in Nat
  BY <1>1, ShapeFacts, ChildrenAreNumbered
<1>5. i \in Nat \ {0}
  BY <1>4
<1>6. a \in Position /\ Len(a) = Len(p) + 2 /\ Len(p) \in Nat
  <2>1. Append(p, i) \in Position /\ Len(Append(p, i)) = Len(p) + 1 /\ Len(p) \in Nat
    BY <1>4, <1>5, AppendPosition DEF Position
  <2>2. a \in Position /\ Len(a) = Len(Append(p, i)) + 1
    BY <1>1, <2>1, AppendPosition
  <2>. QED  BY <2>1, <2>2
<1>7. Len(p) + 2 <= Len(call.at) /\ Len(call.at) \in Nat
  <2>1. call.at # << >>
    BY <1>1, <1>2, <1>4, PrefixOrder
  <2>2. /\ Front(call.at) \in Position /\ Len(Front(call.at)) = Len(call.at) - 1
        /\ Len(call.at) \in Nat \ {0}
    BY <1>1, <2>1, FrontPosition
  <2>3. IsPrefix(p, Front(call.at))
    BY <1>1, <1>2, <1>4, <2>1, PrefixFront
  <2>4. p # Front(call.at)
    BY <1>2, <2>1 DEF IsCall
  <2>5. Len(p) < Len(Front(call.at))
    BY <1>4, <2>2, <2>3, <2>4, NextBelow
  <2>. QED  BY <1>6, <2>2, <2>5
<1>. HIDE DEF a
<1>8. Len(b \o a) <= Len(place) /\ Len(b \o a) \in Nat /\ Len(place) \in Nat
  <2>1. /\ b \o a \in Position /\ b \o call.at \in Position
        /\ Len(b \o a) = Len(b) + Len(a) /\ Len(b \o call.at) = Len(b) + Len(call.at)
        /\ Len(b) \in Nat
    <3>1. b \o a \in Position /\ b \o call.at \in Position
      BY <1>1, <1>6, ConcatPosition
    <3>2. a \in Seq(Nat \ {0}) /\ b \in Seq(Nat \ {0}) /\ call.at \in Seq(Nat \ {0})
      BY <1>1, <1>6 DEF Position
    <3>. QED  BY <3>1, <3>2, ConcatProperties
  <2>2. Len(b \o call.at) <= Len(place)
    BY <1>1, <2>1, PrefixEntries
  <2>3. Len(place) \in Nat /\ Len(b \o a) \in Nat
    BY <1>1, <2>1 DEF Position
  <2>. QED  BY <1>6, <1>7, <2>1, <2>2, <2>3
<1>. DEFINE s == b \o a
<1>9. s \in DOMAIN tree /\ s \in Position /\ Len(s) <= Len(place) /\ Len(s) \in Nat /\ Len(place) \in Nat
  BY <1>1, <1>3, <1>8, ShapeFacts DEF a
<1>. HIDE DEF s
<1>10. ASSUME IsPrefix(place, s) PROVE s = place
  <2>1. SUFFICES ASSUME place # s PROVE FALSE
    OBVIOUS
  <2>2. Len(place) < Len(s)
    BY <1>1, <1>9, <1>10, <2>1, NextBelow
  <2>. QED  BY <1>9, <2>2
<1>11. s \in DOMAIN Graft(tree, place, sub)
  BY <1>1, <1>9, <1>10, GraftKeeps
<1>. QED  BY <1>11 DEF s, a

-----------------------------------------------------------------------------
(* The stack of calls *)

LEMMA StackFacts ==
  ASSUME NEW c, IsStack(c)
  PROVE  /\ Len(c) \in Nat /\ DOMAIN c = 1..Len(c) /\ (c = << >> <=> Len(c) = 0)
         /\ c # << >> => Len(c) \in Nat \ {0} /\ Last(c) = c[Len(c)]
BY EmptySeq DEF IsStack, Last

LEMMA StackOf ==
  ASSUME NEW S, NEW c \in Seq(S)
  PROVE  IsStack(c)
<1>1. Len(c) \in Nat /\ DOMAIN c = 1..Len(c)
  OBVIOUS
<1>2. \A i \in 1..Len(c) : c[i] \in ToSet(c)
  BY <1>1 DEF ToSet
<1>. QED  BY <1>1, <1>2, IsASeq DEF IsStack

\* The top of the stack moves, the rest stays.
IsMoved(c, new, at) ==
  /\ IsStack(new) /\ new # << >> /\ Len(new) = Len(c)
  /\ new[Len(c)] = MovedTo(c[Len(c)], at)
  /\ \A k \in 1..(Len(c) - 1) : new[k] = c[k]

IsReplaced(c, new, top) == new = [c EXCEPT ![Len(c)] = top]

LEMMA StackTop ==
  ASSUME NEW c, IsStack(c), c # << >>, NEW top, NEW new, IsReplaced(c, new, top)
  PROVE  /\ IsStack(new) /\ new # << >> /\ Len(new) = Len(c) /\ new[Len(c)] = top
         /\ \A k \in 1..(Len(c) - 1) : new[k] = c[k]
<1>. DEFINE n == Len(c)
            S == ToSet(c) \cup {top}
<1>1. n \in Nat \ {0} /\ DOMAIN c = 1..n /\ c \in Seq(ToSet(c))
  BY StackFacts DEF IsStack
<1>4. new = [c EXCEPT ![n] = top]
  BY DEF IsReplaced
<1>. HIDE DEF n
<1>5. DOMAIN new = 1..n /\ new[n] = top /\ \A k \in 1..(n - 1) : new[k] = c[k]
  BY <1>1, <1>4
<1>6. \A k \in 1..n : c[k] \in ToSet(c)
  BY <1>1 DEF ToSet
<1>7. \A k \in 1..n : new[k] \in S
  <2>1. SUFFICES ASSUME NEW k \in 1..n PROVE new[k] \in S
    OBVIOUS
  <2>2. CASE k = n
    BY <1>5, <2>2
  <2>3. CASE k # n
    BY <1>1, <1>4, <1>6, <2>3
  <2>. QED  BY <2>2, <2>3
<1>8. new = [k \in 1..n |-> new[k]]
  BY <1>1, <1>4
<1>9. new \in Seq(S)
  <2>. HIDE DEF S
  <2>1. [k \in 1..n |-> new[k]] \in Seq(S)
    BY <1>1, <1>7, IsASeq
  <2>. QED  BY <1>8, <2>1
<1>. HIDE DEF S
<1>10. Len(new) = n
  BY <1>1, <1>5, <1>9
<1>11. IsStack(new) /\ new # << >>
  BY <1>1, <1>9, <1>10, StackOf
<1>. QED  BY <1>5, <1>10, <1>11 DEF n

IsUpdate(c, new, at) == new = [c EXCEPT ![Len(c)].at = at]

LEMMA StackMoves ==
  ASSUME NEW c, IsStack(c), c # << >>, IsCall(c[Len(c)]), NEW at, NEW new,
         IsUpdate(c, new, at)
  PROVE  IsMoved(c, new, at)
<1>. DEFINE top == c[Len(c)]
            moved == [top EXCEPT !.at = at]
<1>1. top = [builder |-> top.builder, at |-> top.at, expanded |-> top.expanded]
  BY DEF IsCall
<1>2. moved = MovedTo(top, at)
  <2>. HIDE DEF top
  <2>. QED  BY <1>1 DEF MovedTo
<1>3. IsReplaced(c, new, moved)
  BY DEF IsUpdate, IsReplaced
<1>. HIDE DEF moved
<1>. QED  BY <1>2, <1>3, StackTop DEF IsMoved

LEMMA MovedExpanded ==
  ASSUME NEW c, IsStack(c), c # << >>, NEW at, NEW new, IsMoved(c, new, at)
  PROVE  \A k \in 1..Len(c) : new[k].expanded = c[k].expanded
<1>. DEFINE n == Len(c)
<1>1. n \in Nat \ {0}
  BY StackFacts
<1>2. new[n] = MovedTo(c[n], at) /\ \A k \in 1..(n - 1) : new[k] = c[k]
  BY DEF IsMoved
<1>3. MovedTo(c[n], at).expanded = c[n].expanded
  BY DEF MovedTo
<1>. HIDE DEF n
<1>4. SUFFICES ASSUME NEW k \in 1..n PROVE new[k].expanded = c[k].expanded
  BY DEF n
<1>5. k = n \/ k \in 1..(n - 1)
  BY <1>1
<1>. QED  BY <1>2, <1>3, <1>5

LEMMA StackStays ==
  ASSUME NEW c, IsStack(c), c # << >>, IsCall(c[Len(c)])
  PROVE  IsMoved(c, c, c[Len(c)].at)
BY CallFacts DEF IsMoved

LEMMA StackGrows ==
  ASSUME NEW c, IsStack(c), NEW call
  PROVE  /\ IsStack(Append(c, call)) /\ Append(c, call) # << >>
         /\ Len(Append(c, call)) = Len(c) + 1
         /\ Append(c, call)[Len(c) + 1] = call
         /\ \A k \in 1..Len(c) : Append(c, call)[k] = c[k]
<1>. DEFINE S == ToSet(c) \cup {call}
            new == Append(c, call)
<1>1. c \in Seq(S) /\ call \in S /\ Len(c) \in Nat
  <2>1. c \in Seq(ToSet(c)) /\ Len(c) \in Nat
    BY StackFacts DEF IsStack
  <2>. QED  BY <2>1
<1>. HIDE DEF S
<1>2. /\ new \in Seq(S) /\ Len(new) = Len(c) + 1 /\ new[Len(c) + 1] = call
      /\ \A k \in 1..Len(c) : new[k] = c[k]
  BY <1>1, AppendProperties
<1>. HIDE DEF new
<1>3. IsStack(new) /\ new # << >>
  BY <1>1, <1>2, StackOf
<1>. QED  BY <1>2, <1>3 DEF new

LEMMA StackShrinks ==
  ASSUME NEW c, IsStack(c), c # << >>
  PROVE  /\ IsStack(Front(c)) /\ Len(Front(c)) = Len(c) - 1
         /\ \A k \in 1..(Len(c) - 1) : Front(c)[k] = c[k]
<1>. DEFINE n == Len(c) - 1
<1>1. c \in Seq(ToSet(c)) /\ n \in Nat /\ Len(c) = n + 1 /\ Front(c) = SubSeq(c, 1, n)
  BY StackFacts DEF IsStack, Front
<1>2. \A i \in 1..n : c[i] \in ToSet(c)
  BY <1>1
<1>. HIDE DEF n
<1>3. /\ SubSeq(c, 1, n) \in Seq(ToSet(c)) /\ Len(SubSeq(c, 1, n)) = n
      /\ \A i \in 1..n : SubSeq(c, 1, n)[i] = c[i]
  BY <1>1, <1>2, SubSeqProperties
<1>4. IsStack(SubSeq(c, 1, n))
  BY <1>3, StackOf
<1>. QED  BY <1>1, <1>3, <1>4 DEF n

-----------------------------------------------------------------------------
(* Steps of the innermost call *)

LEMMA FrameMoves ==
  ASSUME NEW c, IsStack(c), c # << >>, NEW cur, NEW b, FramedBy(c, cur, b),
         NEW new, NEW at, IsMoved(c, new, at),
         NEW other, other.path = b[Len(c)] \o at,
         AwaitedIn(MovedTo(c[Len(c)], at), b[Len(c)], other.tree),
         \A k \in 1..(Len(c) - 1) :
           SameTree(c, k, Len(c)) => AwaitedIn(c[k], b[k], other.tree)
  PROVE  FramedBy(new, other, b)
<1>. DEFINE n == Len(c)
<1>1. n \in Nat \ {0} /\ DOMAIN c = 1..n /\ DOMAIN new = 1..n /\ Len(new) = n
  BY StackFacts DEF IsMoved
<1>2. \A k \in 1..n : new[k].expanded = c[k].expanded
  BY MovedExpanded
<1>3. \A k \in 1..(n - 1) : new[k] = c[k]
  BY DEF IsMoved
<1>4. new[n].at = at /\ new[n] = MovedTo(c[n], at)
  BY DEF IsMoved, MovedTo
<1>. HIDE DEF n
<1>5. ASSUME NEW k \in 1..n, NEW i \in 1..n
      PROVE  SameTree(new, k, i) <=> SameTree(c, k, i)
  BY <1>1, <1>2, <1>5 DEF SameTree
<1>6. ASSUME NEW k \in 1..n, NEW i \in 1..n, k < i, SameTree(new, k, i)
      PROVE  IsPrefix(b[k] \o new[k].at, b[i])
  <2>1. k \in 1..(n - 1) /\ new[k] = c[k]
    BY <1>1, <1>3, <1>6
  <2>2. SameTree(c, k, i)
    BY <1>5, <1>6
  <2>. QED  BY <1>1, <1>6, <2>1, <2>2 DEF FramedBy
<1>7. ASSUME NEW i \in 1..n, i > 1, new[i].expanded = Null
      PROVE  b[i] = b[i - 1] \o new[i - 1].at
  <2>1. i - 1 \in 1..(n - 1) /\ new[i - 1] = c[i - 1] /\ c[i].expanded = Null
    BY <1>1, <1>2, <1>3, <1>7
  <2>. QED  BY <1>1, <1>7, <2>1 DEF FramedBy
<1>8. ASSUME NEW i \in 1..n, new[i].expanded # Null
      PROVE  i > 1 /\ b[i] = <<1>> /\ new[i].expanded.path = b[i - 1] \o new[i - 1].at
  <2>1. c[i].expanded # Null /\ c[i].expanded = new[i].expanded
    BY <1>2, <1>8
  <2>2. i > 1 /\ b[i] = <<1>> /\ c[i].expanded.path = b[i - 1] \o c[i - 1].at
    BY <1>1, <2>1 DEF FramedBy
  <2>3. new[i - 1] = c[i - 1]
    BY <1>1, <1>3, <2>2
  <2>. QED  BY <2>1, <2>2, <2>3
<1>9. other.path = b[Len(new)] \o new[Len(new)].at
  BY <1>1, <1>4 DEF n
<1>10. ASSUME NEW k \in 1..n, NEW i \in 1..n, k <= i, SameTree(new, k, i), i = Len(new)
       PROVE  AwaitedIn(new[k], b[k], other.tree)
  <2>1. CASE k = n
    BY <1>4, <2>1 DEF n
  <2>2. CASE k # n
    <3>1. k \in 1..(n - 1) /\ new[k] = c[k] /\ SameTree(c, k, n)
      BY <1>1, <1>3, <1>5, <1>10, <2>2
    <3>. QED  BY <3>1 DEF n
  <2>. QED  BY <2>1, <2>2
<1>11. ASSUME NEW k \in 1..n, NEW i \in 1..n, k <= i, SameTree(new, k, i),
              i < Len(new), new[i + 1].expanded # Null
       PROVE  AwaitedIn(new[k], b[k], new[i + 1].expanded.tree)
  <2>1. k \in 1..(n - 1) /\ new[k] = c[k] /\ SameTree(c, k, i) /\ i + 1 \in 1..n /\ i < Len(c)
    BY <1>1, <1>3, <1>5, <1>11 DEF n
  <2>2. c[i + 1].expanded = new[i + 1].expanded
    BY <1>2, <2>1
  <2>. QED  BY <1>1, <1>11, <2>1, <2>2 DEF FramedBy
<1>. QED  BY <1>1, <1>6, <1>7, <1>8, <1>9, <1>10, <1>11 DEF FramedBy

\* Where the calls that share the tree of the cursor are.
LEMMA AboveCursor ==
  ASSUME NEW c, IsStack(c), c # << >>, NEW cur, NEW b \in [DOMAIN c -> Position],
         FramedBy(c, cur, b), \A k \in DOMAIN c : IsCall(c[k]),
         NEW k \in DOMAIN c, SameTree(c, k, Len(c))
  PROVE  IsPrefix(b[k] \o c[k].at, cur.path)
<1>. DEFINE n == Len(c)
<1>1. n \in Nat \ {0} /\ DOMAIN c = 1..n /\ n \in DOMAIN c
  BY StackFacts
<1>2. cur.path = b[n] \o c[n].at
  BY DEF FramedBy
<1>3. c[n].at \in Position /\ b[n] \in Position /\ c[k].at \in Position /\ b[k] \in Position
  BY <1>1, CallFacts
<1>4. IsPrefix(b[n], cur.path) /\ cur.path \in Position /\ b[k] \o c[k].at \in Position
  BY <1>2, <1>3, ConcatPosition
<1>. HIDE DEF n
<1>5. CASE k = n
  BY <1>2, <1>4, <1>5, PrefixOrder
<1>6. CASE k # n
  <2>1. IsPrefix(b[k] \o c[k].at, b[n])
    BY <1>1, <1>6 DEF FramedBy, n
  <2>. QED  BY <1>3, <1>4, <2>1, PrefixOrder
<1>. QED  BY <1>5, <1>6

\* What they wait for outlives a graft at the cursor.
LEMMA AllAwaitedKept ==
  ASSUME NEW c, IsStack(c), c # << >>, NEW cur, NEW b \in [DOMAIN c -> Position],
         FramedBy(c, cur, b), \A k \in DOMAIN c : IsCall(c[k]),
         Placed(cur), NEW sub, IsTree(sub), NEW k \in DOMAIN c, SameTree(c, k, Len(c))
  PROVE  AwaitedIn(c[k], b[k], Graft(cur.tree, cur.path, sub))
<1>1. Len(c) \in Nat \ {0} /\ DOMAIN c = 1..Len(c) /\ k <= Len(c)
  BY StackFacts
<1>2. AwaitedIn(c[k], b[k], cur.tree)
  BY <1>1 DEF FramedBy
<1>3. IsPrefix(b[k] \o c[k].at, cur.path)
  BY AboveCursor
<1>4. b[k] \in Position /\ IsCall(c[k]) /\ IsTree(cur.tree) /\ cur.path \in DOMAIN cur.tree
  BY DEF Placed
<1>. QED  BY <1>2, <1>3, <1>4, AwaitedKept

LEMMA ExpandableStays ==
  ASSUME NEW c, IsStack(c), c # << >>, NEW ret, Expandable(c, ret), NEW new, NEW at,
         IsMoved(c, new, at), ~ ret \/ c[Len(c)].at # << >>, NEW other
  PROVE  Expandable(new, other)
<1>. DEFINE n == Len(c)
<1>1. n \in Nat \ {0} /\ DOMAIN c = 1..n /\ DOMAIN new = 1..n /\ Len(new) = n
  BY StackFacts DEF IsMoved
<1>2. \A k \in 1..n : new[k].expanded = c[k].expanded
  BY MovedExpanded
<1>3. ASSUME NEW k \in 1..n, c[k].expanded # Null
      PROVE  Placed(c[k].expanded) /\ MarkedAt(c[k].expanded) /\ Unmarked(c[k].expanded.tree)
  <2>1. /\ Placed(c[k].expanded) /\ MarkedAt(c[k].expanded)
        /\ k < Len(c) \/ ~ ret \/ c[k].at # << >> => Unmarked(c[k].expanded.tree)
    BY <1>1, <1>3 DEF Expandable
  <2>2. k < Len(c) \/ ~ ret \/ c[k].at # << >>
    BY <1>1
  <2>. QED  BY <2>1, <2>2
<1>. HIDE DEF n
<1>. QED  BY <1>1, <1>2, <1>3 DEF Expandable

-----------------------------------------------------------------------------
(* The invariant is inductive *)

LEMMA HandleFacts ==
  ASSUME NEW tree, NEW path
  PROVE  /\ Handle(tree, path).tree = tree /\ Handle(tree, path).path = path
         /\ IsTree(tree) /\ path \in DOMAIN tree =>
              Placed(Handle(tree, path)) /\ Handle(tree, path) # Null
<1>1. Handle(tree, path).tree = tree /\ Handle(tree, path).path = path
  BY DEF Handle
<1>2. Null.tree = << >> /\ DOMAIN << >> = {}
  BY DEF Handle, Null
<1>3. IsTree(tree) => << >> \in DOMAIN tree
  BY ShapeFacts DEF IsTree
<1>4. ASSUME IsTree(tree), path \in DOMAIN tree
      PROVE  Placed(Handle(tree, path)) /\ Handle(tree, path) # Null
  BY <1>1, <1>2, <1>3, <1>4 DEF Placed
<1>. QED  BY <1>1, <1>4

LEMMA PlacedNotNull ==
  ASSUME NEW handle, Placed(handle)
  PROVE  /\ handle # Null /\ handle = Handle(handle.tree, handle.path)
         /\ IsTree(handle.tree) /\ IsShape(handle.tree)
         /\ handle.path \in DOMAIN handle.tree /\ handle.path \in Position
BY HandleFacts, ShapeFacts DEF Placed, IsTree

\* The calls that go on, and where the root of the first builder is.
IsFraming(b) ==
  /\ b \in Bases /\ FramedBy(calls, cursor, b)
  /\ problem.op = "merge" => IsPrefix(problem.at, b[1])

LEMMA TopStep ==
  ASSUME IInv, calls # << >>, NEW b, IsFraming(b),
         NEW at, IsMoved(calls, calls', at),
         Placed(cursor'), cursor'.path = b[Len(calls)] \o at,
         IsCall(MovedTo(Inner, at)), AwaitedIn(MovedTo(Inner, at), b[Len(calls)], cursor'.tree),
         \A k \in 1..(Len(calls) - 1) :
           SameTree(calls, k, Len(calls)) => AwaitedIn(calls[k], b[k], cursor'.tree),
         returning' \in BOOLEAN, MarkedAt(cursor'), ~ returning' => Unmarked(cursor'.tree),
         Expandable(calls', returning'),
         UNCHANGED <<status, captured, problem, visit>>
  PROVE  IInv'
<1>. DEFINE n == Len(calls)
<1>1. /\ IsStack(calls) /\ n \in Nat \ {0} /\ DOMAIN calls = 1..n /\ Inner = calls[n]
      /\ \A k \in 1..n : IsCall(calls[k])
  BY StackFacts DEF IInv, CallsInv, Inner
<1>2. /\ IsStack(calls') /\ calls' # << >> /\ Len(calls') = n /\ DOMAIN calls' = 1..n
      /\ calls'[n] = MovedTo(calls[n], at) /\ \A k \in 1..(n - 1) : calls'[k] = calls[k]
  BY StackFacts DEF IsMoved
<1>3. FramedBy(calls', cursor', b)
  BY <1>1, FrameMoves DEF IsFraming
<1>. HIDE DEF n
<1>4. \A k \in DOMAIN calls' : IsCall(calls'[k])
  <2>1. SUFFICES ASSUME NEW k \in 1..n PROVE IsCall(calls'[k])
    BY <1>2
  <2>2. k = n \/ k \in 1..(n - 1)
    BY <1>1
  <2>. QED  BY <1>1, <1>2, <2>2
<1>5. CallsInv'
  BY <1>2, <1>4 DEF CallsInv
<1>6. FrameInv(Bases)'
  <2>1. b \in [DOMAIN calls' -> Position]
    BY <1>1, <1>2 DEF IsFraming, Bases
  <2>2. problem'.op = "merge" => IsPrefix(problem'.at, b[1])
    BY DEF IsFraming
  <2>. QED  BY <1>3, <2>1, <2>2 DEF FrameInv, Bases
<1>7. WalkInv'
  <2>1. visit = "rebuild" /\ visit' = visit
    BY DEF IInv, WalkInv
  <2>. QED  BY <1>2, <2>1 DEF IInv, WalkInv
<1>8. CursorInv'
  <2>1. cursor' # Null
    BY PlacedNotNull
  <2>. QED  BY <1>2, <2>1 DEF CursorInv
<1>. QED  BY <1>5, <1>6, <1>7, <1>8 DEF IInv

\* What holds in every step of the innermost call.
LEMMA TopFacts ==
  ASSUME IInv, calls # << >>, NEW b, IsFraming(b)
  PROVE  /\ IsStack(calls) /\ Len(calls) \in Nat \ {0} /\ DOMAIN calls = 1..Len(calls)
         /\ Inner = calls[Len(calls)] /\ IsCall(Inner) /\ \A k \in DOMAIN calls : IsCall(calls[k])
         /\ b \in [DOMAIN calls -> Position] /\ b[Len(calls)] \in Position
         /\ At \in Position /\ At \in DOMAIN Inner.builder /\ IsShape(Inner.builder)
         /\ cursor.path = b[Len(calls)] \o At
         /\ MovedTo(Inner, At) = Inner
         /\ FramedBy(calls, cursor, b) /\ Expandable(calls, returning)
         /\ cursor # Null => Placed(cursor) /\ MarkedAt(cursor)
         /\ cursor # Null /\ ~ returning => Unmarked(cursor.tree)
         /\ ~ IsExpandMark(Current)
         /\ \A k \in 1..Len(calls) :
              SameTree(calls, k, Len(calls)) => AwaitedIn(calls[k], b[k], cursor.tree)
         /\ AwaitedIn(Inner, b[Len(calls)], cursor.tree)
<1>1. /\ IsStack(calls) /\ Len(calls) \in Nat \ {0} /\ DOMAIN calls = 1..Len(calls)
      /\ Inner = calls[Len(calls)] /\ IsCall(Inner) /\ \A k \in DOMAIN calls : IsCall(calls[k])
  BY StackFacts DEF IInv, CallsInv, Inner
<1>2. /\ b \in [DOMAIN calls -> Position] /\ FramedBy(calls, cursor, b)
  BY DEF IsFraming, Bases
<1>3. b[Len(calls)] \in Position
  BY <1>1, <1>2
<1>4. /\ At \in Position /\ At \in DOMAIN Inner.builder /\ IsShape(Inner.builder)
      /\ MovedTo(Inner, At) = Inner
  BY <1>1, CallFacts DEF At
<1>5. cursor.path = b[Len(calls)] \o At
  BY <1>1, <1>2 DEF FramedBy, At
<1>6. /\ Expandable(calls, returning)
      /\ cursor # Null => Placed(cursor) /\ MarkedAt(cursor)
      /\ cursor # Null /\ ~ returning => Unmarked(cursor.tree)
  BY DEF IInv, CallsInv, CursorInv
<1>7. ~ IsExpandMark(Current)
  BY <1>1, <1>4 DEF IsCall, Current
<1>8. \A k \in 1..Len(calls) :
        SameTree(calls, k, Len(calls)) => AwaitedIn(calls[k], b[k], cursor.tree)
  <2>1. SUFFICES ASSUME NEW k \in 1..Len(calls), SameTree(calls, k, Len(calls))
                 PROVE  AwaitedIn(calls[k], b[k], cursor.tree)
    OBVIOUS
  <2>2. /\ FramedBy(calls, cursor, b) /\ k \in DOMAIN calls /\ Len(calls) \in DOMAIN calls
        /\ k <= Len(calls)
    BY <1>1, <1>2
  <2>. QED  BY ONLY <2>1, <2>2 DEF FramedBy
<1>9. SameTree(calls, Len(calls), Len(calls))
  BY <1>1 DEF SameTree
<1>10. AwaitedIn(Inner, b[Len(calls)], cursor.tree)
  BY <1>1, <1>8, <1>9
<1>. QED  BY <1>1, <1>2, <1>3, <1>4, <1>5, <1>6, <1>7, <1>8, <1>10

LEMMA Framing ==
  ASSUME IInv, calls # << >>
  PROVE  \E b : IsFraming(b)
BY DEF IInv, FrameInv, IsFraming

LEMMA UnmarkedGraft ==
  ASSUME NEW tree, IsTree(tree), NEW place \in DOMAIN tree, NEW sub, IsTree(sub),
         Unmarked(sub), \A q \in DOMAIN tree : ~ IsPrefix(place, q) => ~ IsExpandMark(tree[q])
  PROVE  Unmarked(Graft(tree, place, sub))
<1>. DEFINE G == Graft(tree, place, sub)
<1>1. IsShape(tree) /\ IsShape(sub) /\ place \in Position
  BY ShapeFacts DEF IsTree
<1>2. /\ \A q \in DOMAIN G : q \in Position
      /\ \A q \in Position : q \in DOMAIN G <=>
           IF IsPrefix(place, q) THEN From(place, q) \in DOMAIN sub ELSE q \in DOMAIN tree
      /\ \A q \in DOMAIN tree : ~ IsPrefix(place, q) => q \in DOMAIN G /\ G[q] = tree[q]
      /\ \A r \in DOMAIN sub : place \o r \in DOMAIN G /\ G[place \o r] = sub[r]
  BY <1>1, GraftFacts
<1>. HIDE DEF G
<1>3. SUFFICES ASSUME NEW q \in DOMAIN G PROVE ~ IsExpandMark(G[q])
  BY DEF Unmarked, G
<1>4. q \in Position
  BY <1>2
<1>5. CASE IsPrefix(place, q)
  <2>1. From(place, q) \in DOMAIN sub /\ place \o From(place, q) = q
    BY <1>1, <1>2, <1>3, <1>4, <1>5, PrefixFrom
  <2>. DEFINE r == From(place, q)
  <2>. HIDE DEF r
  <2>2. G[place \o r] = sub[r] /\ r \in DOMAIN sub /\ place \o r = q
    BY <1>2, <2>1 DEF r
  <2>. QED  BY <2>2 DEF Unmarked
<1>6. CASE ~ IsPrefix(place, q)
  BY <1>2, <1>3, <1>4, <1>6
<1>. QED  BY <1>5, <1>6

LEMMA UnmarkedSubtree ==
  ASSUME NEW tree, IsTree(tree), NEW place \in DOMAIN tree,
         \A q \in DOMAIN tree : q # place => ~ IsExpandMark(tree[q]),
         NEW p \in DOMAIN tree, IsPrefix(place, p), p # place \/ ~ IsExpandMark(tree[place])
  PROVE  Unmarked(Subtree(tree, p))
<1>1. IsShape(tree) /\ p \in Position /\ place \in Position
  BY ShapeFacts DEF IsTree
<1>2. SUFFICES ASSUME NEW r \in DOMAIN Subtree(tree, p)
               PROVE  ~ IsExpandMark(Subtree(tree, p)[r])
  BY DEF Unmarked
<1>3. r \in Position /\ p \o r \in DOMAIN tree /\ Subtree(tree, p)[r] = tree[p \o r]
  BY <1>1, SubtreeFacts
<1>4. IsPrefix(p, p \o r) /\ p \o r \in Position
  BY <1>1, <1>3, ConcatPosition
<1>5. p \o r = place => p = place
  BY <1>1, <1>4, PrefixOrder
<1>. QED  BY <1>3, <1>5

LEMMA LeafUnmarked == Unmarked(LeafTree)
<1>1. DOMAIN LeafTree = {<< >>} /\ LeafTree[<< >>] = NodeOf("leaf")
  BY LeafIsTree
<1>2. NodeOf("leaf").type = "leaf"
  BY NewNodes
<1>. QED  BY <1>1, <1>2 DEF Unmarked, IsExpandMark

LEMMA UnmarkedOver ==
  ASSUME NEW node, IsNode(node), node.type # "leaf", ~ IsExpandMark(node),
         NEW tree, IsTree(tree), Unmarked(tree)
  PROVE  Unmarked(Over(node, <<tree>>))
<1>. DEFINE O == Over(node, <<tree>>)
<1>1. /\ O[<< >>] = node
      /\ \A q \in DOMAIN tree : O[<<1>> \o q] = tree[q]
      /\ \A q \in DOMAIN O : q # << >> => \E r \in DOMAIN tree : q = <<1>> \o r
  BY OverOne
<1>. HIDE DEF O
<1>2. SUFFICES ASSUME NEW q \in DOMAIN O PROVE ~ IsExpandMark(O[q])
  BY DEF Unmarked, O
<1>3. CASE q = << >>
  BY <1>1, <1>3
<1>4. CASE q # << >>
  <2>1. PICK r \in DOMAIN tree : q = <<1>> \o r
    BY <1>1, <1>4
  <2>2. O[<<1>> \o r] = tree[r]
    BY <1>1
  <2>. QED  BY <2>1, <2>2 DEF Unmarked
<1>. QED  BY <1>3, <1>4

LEMMA InsertedStep ==
  ASSUME IInv, calls # << >>, ~ returning, NEW b, IsFraming(b),
         Current.type \notin SeveralTypes,
         NEW tree, IsTree(tree), Unmarked(tree), NEW path, path = b[Len(calls)] \o At,
         path \in DOMAIN tree, Append(path, 1) \in DOMAIN tree,
         \A k \in 1..Len(calls) :
           SameTree(calls, k, Len(calls)) => AwaitedIn(calls[k], b[k], tree),
         InsertedAt(tree, path), UNCHANGED <<problem, visit>>
  PROVE  IInv'
<1>. DEFINE n == Len(calls)
<1>1. /\ IsStack(calls) /\ n \in Nat \ {0} /\ DOMAIN calls = 1..n
      /\ Inner = calls[n] /\ IsCall(Inner) /\ b[n] \in Position
      /\ At \in Position /\ At \in DOMAIN Inner.builder /\ IsShape(Inner.builder)
      /\ MovedTo(Inner, At) = Inner /\ Expandable(calls, returning)
      /\ Inner.at = At
  BY TopFacts DEF At
<1>2. AwaitedIn(Inner, b[n], tree)
  <2>1. SameTree(calls, n, n)
    BY <1>1 DEF SameTree
  <2>. QED  BY <1>1, <2>1
<1>3. \A k \in 1..(n - 1) : SameTree(calls, k, n) => AwaitedIn(calls[k], b[k], tree)
  BY <1>1
<1>. HIDE DEF n
<1>4. UNCHANGED <<status, captured, problem, visit>>
  BY DEF InsertedAt
<1>5. CASE ChildBuilders(At) = 0
  <2>1. cursor' = Handle(tree, path) /\ returning' = TRUE /\ calls' = calls
    BY <1>5 DEF InsertedAt, Handle
  <2>2. IsMoved(calls, calls', At)
    BY <1>1, <2>1, StackStays DEF n
  <2>3. Placed(cursor') /\ cursor'.path = path /\ cursor'.tree = tree
    BY <2>1, HandleFacts
  <2>4. Expandable(calls', returning')
    BY <1>1, <2>2, ExpandableStays
  <2>5. MarkedAt(cursor')
    BY <2>3 DEF Unmarked, MarkedAt
  <2>. QED  BY <1>1, <1>2, <1>3, <1>4, <2>1, <2>2, <2>3, <2>4, <2>5, TopStep DEF n
<1>6. CASE ChildBuilders(At) # 0
  <2>. DEFINE at == Append(At, 1)
  <2>0. 1 \in Nat \ {0} /\ at \in DOMAIN Inner.builder
    <3>1. NChildren(Inner.builder, At) \in Nat /\ NChildren(Inner.builder, At) # 0
      BY <1>1, <1>6, ChildrenAreNumbered DEF ChildBuilders
    <3>2. 1 <= NChildren(Inner.builder, At) /\ 1 \in Nat \ {0}
      BY <3>1
    <3>. QED  BY <1>1, <3>2, ChildrenAreNumbered
  <2>1. /\ cursor' = Handle(tree, Append(path, 1)) /\ returning' = returning
        /\ IsUpdate(calls, calls', at)
    BY <1>6 DEF InsertedAt, Handle, GoTo, IsUpdate
  <2>2. IsMoved(calls, calls', at)
    BY <1>1, <2>1, StackMoves DEF n
  <2>3. Placed(cursor') /\ cursor'.path = Append(path, 1) /\ cursor'.tree = tree
    BY <2>1, HandleFacts
  <2>4. Expandable(calls', returning')
    BY <1>1, <2>2, ExpandableStays
  <2>5. MarkedAt(cursor')
    BY <2>3 DEF Unmarked, MarkedAt
  <2>6. IsCall(MovedTo(Inner, at)) /\ AwaitedIn(MovedTo(Inner, at), b[n], tree)
    <3>1. Inner.builder[Inner.at].type \notin SeveralTypes
      BY DEF Current, At
    <3>. QED  BY <1>1, <1>2, <2>0, <3>1, DownToChild
  <2>7. Append(path, 1) = b[n] \o at
    BY <1>1, <2>0, ConcatAppend DEF n
  <2>8. returning' \in BOOLEAN
    BY <2>1 DEF IInv, WalkInv
  <2>. HIDE DEF at
  <2>. QED  BY <1>3, <1>4, <2>2, <2>3, <2>4, <2>5, <2>6, <2>7, <2>8, TopStep DEF n
<1>. QED  BY <1>5, <1>6

LEMMA InsertHereStep ==
  ASSUME IInv, calls # << >>, ~ returning, cursor # Null,
         Current.type \notin SeveralTypes,
         NEW sub, IsTree(sub), Unmarked(sub), << 1 >> \in DOMAIN sub,
         InsertHere(sub), UNCHANGED <<problem, visit>>
  PROVE  IInv'
<1>. DEFINE G == Graft(cursor.tree, cursor.path, sub)
<1>1. PICK b : IsFraming(b)
  BY Framing
<1>2. /\ Placed(cursor) /\ Unmarked(cursor.tree) /\ cursor.path = b[Len(calls)] \o At
      /\ IsStack(calls) /\ \A k \in DOMAIN calls : IsCall(calls[k])
      /\ b \in [DOMAIN calls -> Position] /\ FramedBy(calls, cursor, b)
      /\ DOMAIN calls = 1..Len(calls)
  BY <1>1, TopFacts
<1>3. /\ IsTree(cursor.tree) /\ cursor.path \in DOMAIN cursor.tree /\ IsShape(cursor.tree)
      /\ cursor.path \in Position /\ IsShape(sub) /\ 1 \in Nat \ {0}
  <2>1. IsShape(sub)
    BY DEF IsTree
  <2>2. 1 \in Nat \ {0}
    OBVIOUS
  <2>. QED  BY <1>2, <2>1, <2>2, PlacedNotNull
<1>4. IsTree(G) /\ cursor.path \in DOMAIN G
  BY <1>3, GraftIsTree, GraftFacts
<1>5. Unmarked(G)
  <2>1. \A q \in DOMAIN cursor.tree : ~ IsExpandMark(cursor.tree[q])
    BY <1>2 DEF Unmarked
  <2>. QED  BY <1>3, <2>1, UnmarkedGraft
<1>6. Append(cursor.path, 1) \in DOMAIN G
  <2>1. cursor.path \o <<1>> = Append(cursor.path, 1)
    BY <1>3, AppendPosition
  <2>. DEFINE one == <<1>>
  <2>2. one \in DOMAIN sub
    OBVIOUS
  <2>. HIDE DEF one
  <2>3. cursor.path \o one \in DOMAIN G
    BY <1>3, <2>2, GraftFacts
  <2>. QED  BY <2>1, <2>3 DEF one
<1>7. \A k \in 1..Len(calls) :
        SameTree(calls, k, Len(calls)) => AwaitedIn(calls[k], b[k], G)
  BY <1>2, AllAwaitedKept
<1>8. InsertedAt(G, cursor.path)
  BY DEF InsertHere
<1>. HIDE DEF G
<1>. QED  BY <1>1, <1>2, <1>4, <1>5, <1>6, <1>7, <1>8, InsertedStep

\* The subtree the nodes are put above.
LEMMA HereFacts ==
  ASSUME IInv, calls # << >>, ~ returning, cursor # Null
  PROVE  IsTree(Here) /\ Unmarked(Here)
<1>1. PICK b : IsFraming(b)
  BY Framing
<1>2. Placed(cursor) /\ Unmarked(cursor.tree)
  BY <1>1, TopFacts
<1>3. IsTree(cursor.tree) /\ cursor.path \in DOMAIN cursor.tree /\ cursor.path \in Position
  BY <1>2, PlacedNotNull
<1>4. IsPrefix(cursor.path, cursor.path)
  BY <1>3, PrefixOrder
<1>. QED  BY <1>2, <1>3, <1>4, SubtreeIsTree, UnmarkedSubtree DEF Here, Unmarked

LEMMA AboveHere ==
  ASSUME IInv, calls # << >>, ~ returning, cursor # Null, Current.type \notin SeveralTypes,
         NEW node, IsNode(node), node.type # "leaf", ~ IsExpandMark(node),
         NEW tree, IsTree(tree), Unmarked(tree),
         InsertHere(Over(node, <<tree>>)), UNCHANGED <<problem, visit>>
  PROVE  IInv'
<1>. DEFINE sub == Over(node, <<tree>>)
<1>1. IsTree(sub) /\ <<1>> \in DOMAIN sub
  BY OverOne
<1>2. Unmarked(sub)
  BY UnmarkedOver
<1>3. InsertHere(sub)
  OBVIOUS
<1>. HIDE DEF sub
<1>. QED  BY <1>1, <1>2, <1>3, InsertHereStep

LEMMA InsertionPreserves ==
  ASSUME IInv, UNCHANGED <<problem, visit>>,
         InsertBand \/ InsertFilter \/ InsertNamed \/ InsertExtension
  PROVE  IInv'
<1>1. CASE InsertBand
  <2>. DEFINE node == BandFor(Payload(Current))
  <2>1. /\ calls # << >> /\ ~ returning /\ Current.type = "band" /\ cursor # Null
        /\ InsertHere(Over(node, <<Here>>))
    BY <1>1 DEF InsertBand, HasType, Entered
  <2>2. IsNode(node) /\ node.type = "band"
    BY NewNodes DEF BandFor
  <2>. HIDE DEF node
  <2>3. ~ IsExpandMark(node) /\ node.type # "leaf" /\ Current.type \notin SeveralTypes
    BY <2>1, <2>2 DEF IsExpandMark, SeveralTypes
  <2>. QED  BY <2>1, <2>2, <2>3, HereFacts, AboveHere
<1>2. CASE InsertFilter
  <2>. DEFINE sub == FilterOver(Current.stmts, Here)
  <2>1. /\ calls # << >> /\ ~ returning /\ Current.type = "filter" /\ cursor # Null
        /\ InsertHere(sub)
    BY <1>2 DEF InsertFilter, HasType, Entered
  <2>2. IsTree(Here) /\ Unmarked(Here)
    BY <2>1, HereFacts
  <2>3. /\ IsTree(sub) /\ sub[<< >>].type = "filter" /\ <<1>> \in DOMAIN sub
        /\ \A q \in DOMAIN sub : q # << >> => \E r \in DOMAIN Here : sub[q] = Here[r]
    BY <2>2, FilterOverFacts
  <2>. HIDE DEF sub
  <2>4. Unmarked(sub)
    BY <2>2, <2>3 DEF Unmarked, IsExpandMark
  <2>5. Current.type \notin SeveralTypes
    BY <2>1 DEF SeveralTypes
  <2>. QED  BY <2>1, <2>3, <2>4, <2>5, InsertHereStep
<1>3. CASE InsertNamed
  <2>. DEFINE node == Named(Current.type, Current.name)
  <2>1. /\ calls # << >> /\ ~ returning /\ Current.type \in {"context", "guard", "mark"}
        /\ cursor # Null /\ InsertHere(Over(node, <<Here>>))
    BY <1>3 DEF InsertNamed, HasType, Entered
  <2>2. IsNode(node) /\ node.type = Current.type /\ node.name = Current.name
    BY NewNodes
  <2>3. ~ IsExpandMark(Current)
    BY <2>1, Framing, TopFacts
  <2>. HIDE DEF node
  <2>4. ~ IsExpandMark(node) /\ node.type # "leaf" /\ Current.type \notin SeveralTypes
    BY <2>1, <2>2, <2>3 DEF IsExpandMark, SeveralTypes
  <2>. QED  BY <2>1, <2>2, <2>4, HereFacts, AboveHere
<1>4. CASE InsertExtension
  <2>. DEFINE node == Named("extension", Current.name)
  <2>1. /\ calls # << >> /\ ~ returning /\ Current.type = "extension"
        /\ cursor # Null /\ InsertHere(Over(node, <<LeafTree>>))
    BY <1>4 DEF InsertExtension, HasType, Entered
  <2>2. IsNode(node) /\ node.type = "extension"
    BY NewNodes
  <2>. HIDE DEF node
  <2>4. ~ IsExpandMark(node) /\ node.type # "leaf" /\ Current.type \notin SeveralTypes
    BY <2>1, <2>2 DEF IsExpandMark, SeveralTypes
  <2>. QED  BY <2>1, <2>2, <2>4, LeafIsTree, LeafUnmarked, AboveHere
<1>. QED  BY <1>1, <1>2, <1>3, <1>4

LEMMA DomainPreserves ==
  ASSUME IInv, UNCHANGED <<problem, visit>>, InsertDomain
  PROVE  IInv'
<1>. DEFINE node == Statements("domain", Current.stmts)
            tree == Over(node, <<LeafTree>>)
<1>1. /\ calls # << >> /\ ~ returning /\ Current.type = "domain" /\ cursor = Null
      /\ InsertedAt(tree, << >>)
  BY DEF InsertDomain, HasType, Entered
<1>2. PICK b : IsFraming(b)
  BY <1>1, Framing
<1>3. IsNode(node) /\ node.type = "domain"
  BY NewNodes
<1>. HIDE DEF node
<1>4. ~ IsExpandMark(node) /\ node.type # "leaf" /\ Current.type \notin SeveralTypes
  BY <1>1, <1>3 DEF IsExpandMark, SeveralTypes
<1>5. IsTree(tree) /\ <<1>> \in DOMAIN tree /\ IsShape(tree)
  BY <1>3, <1>4, OverOne, LeafIsTree DEF IsTree
<1>6. Unmarked(tree)
  BY <1>3, <1>4, LeafIsTree, LeafUnmarked, UnmarkedOver
<1>7. /\ Len(calls) = 1 /\ At = << >> /\ b[1] \in Position /\ cursor.path = b[1] \o At
      /\ Inner = calls[1] /\ Inner.at = << >> /\ DOMAIN calls = 1..1
  BY <1>1, <1>2, TopFacts DEF IInv, CursorInv, At
<1>8. << >> = b[1] \o At /\ << >> \in DOMAIN tree
  BY <1>1, <1>5, <1>7, ShapeFacts DEF Null, Handle
<1>9. Append(<< >>, 1) \in DOMAIN tree
  BY <1>5, OneConcat DEF Position
<1>10. AwaitedIn(calls[1], b[1], tree)
  <2>1. calls[1].at = << >> /\ IsCall(calls[1])
    BY <1>1, <1>2, <1>7, TopFacts
  <2>2. ASSUME NEW p \in DOMAIN calls[1].builder, IsPrefix(p, calls[1].at) PROVE p = calls[1].at
    <3>1. p \in Position
      BY <2>1, ShapeFacts, CallFacts
    <3>. QED  BY <2>1, <2>2, <3>1, PrefixOrder
  <2>. QED  BY <2>2 DEF AwaitedIn
<1>. DEFINE path == << >>
<1>11. /\ path \in DOMAIN tree /\ Append(path, 1) \in DOMAIN tree
       /\ path = b[Len(calls)] \o At /\ InsertedAt(tree, path)
  BY <1>1, <1>7, <1>8, <1>9
<1>. HIDE DEF tree, path
<1>12. \A k \in 1..Len(calls) : AwaitedIn(calls[k], b[k], tree)
  <2>1. \A k \in 1..1 : k = 1
    OBVIOUS
  <2>. QED  BY <1>7, <1>10, <2>1
<1>. QED  BY <1>1, <1>2, <1>4, <1>5, <1>6, <1>11, <1>12, InsertedStep

LEMMA TwoEntries ==
  ASSUME NEW i \in Nat, NEW j \in Nat
  PROVE  Append(<<i>>, j) = <<i, j>>
<1>. DEFINE s == Append(<<i>>, j)
            t == <<i, j>>
<1>1. s \in Seq(Nat) /\ Len(s) = 2 /\ s[1] = i /\ s[2] = j
  OBVIOUS
<1>2. t \in Seq(Nat) /\ Len(t) = 2 /\ t[1] = i /\ t[2] = j
  OBVIOUS
<1>. HIDE DEF s, t
<1>3. \A k \in 1..2 : k = 1 \/ k = 2
  OBVIOUS
<1>4. \A k \in 1..2 : s[k] = t[k]
  BY <1>1, <1>2, <1>3
<1>5. s = t
  BY <1>1, <1>2, <1>4, SeqEqual
<1>. QED  BY <1>5 DEF s, t

LEMMA TwoBelow ==
  ASSUME NEW p \in Position, NEW i \in Nat \ {0}
  PROVE  /\ p \o <<i, 1>> = Append(Append(p, i), 1)
         /\ Append(Append(p, i), 1) \in Position /\ Append(p, i) \in Position
         /\ \A b \in Position : b \o Append(Append(p, i), 1) = Append(Append(b \o p, i), 1)
<1>1. 1 \in Nat \ {0} /\ <<i>> \in Position /\ p \o <<i>> = Append(p, i) /\ Append(p, i) \in Position
  <2>1. <<i>> \in Position
    BY OneConcat
  <2>2. p \o <<i>> = Append(p, i) /\ Append(p, i) \in Position
    BY AppendPosition
  <2>. QED  BY <2>1, <2>2
<1>2. Append(<<i>>, 1) = <<i, 1>>
  BY TwoEntries
<1>3. p \o Append(<<i>>, 1) = Append(p \o <<i>>, 1)
  BY <1>1, ConcatAppend
<1>4. p \o <<i, 1>> = Append(Append(p, i), 1)
  BY <1>1, <1>2, <1>3
<1>5. ASSUME NEW b \in Position
      PROVE  b \o Append(Append(p, i), 1) = Append(Append(b \o p, i), 1)
  <2>1. b \o Append(p, i) = Append(b \o p, i)
    BY ConcatAppend
  <2>. DEFINE q == Append(p, i)
  <2>. HIDE DEF q
  <2>2. b \o Append(q, 1) = Append(b \o q, 1)
    BY <1>1, ConcatAppend DEF q
  <2>. QED  BY <2>1, <2>2 DEF q
<1>6. Append(Append(p, i), 1) \in Position
  BY <1>1, AppendPosition
<1>. QED  BY <1>1, <1>4, <1>5, <1>6

\* The loop over the children of a sequence or set.
LEMMA VisitStep ==
  ASSUME IInv, calls # << >>, NEW b, IsFraming(b), ~ returning \/ At # << >>,
         NEW at, at \in DOMAIN Inner.builder, IsCall(MovedTo(Inner, at)),
         Inner.builder[at].type \in SeveralTypes,
         NEW tree, IsTree(tree), Unmarked(tree), NEW path, path = b[Len(calls)] \o at,
         path \in DOMAIN tree, AwaitedIn(MovedTo(Inner, at), b[Len(calls)], tree),
         \A i \in 1..NChildren(Inner.builder, at) :
           /\ Inner.builder[Append(at, i)].type = "filter"
           /\ b[Len(calls)] \o Append(Append(at, i), 1) \in DOMAIN tree,
         \A k \in 1..(Len(calls) - 1) :
           SameTree(calls, k, Len(calls)) => AwaitedIn(calls[k], b[k], tree),
         NEW i \in Nat \ {0}, VisitChildren(at, path, tree, i), UNCHANGED <<problem, visit>>
  PROVE  IInv'
<1>. DEFINE n == Len(calls)
            N == NChildren(Inner.builder, at)
            next == {j \in i..ChildBuilders(at) : ChildBuilders(Append(at, j)) > 0}
<1>1. /\ IsStack(calls) /\ n \in Nat \ {0} /\ DOMAIN calls = 1..n
      /\ Inner = calls[n] /\ IsCall(Inner) /\ b[n] \in Position
      /\ IsShape(Inner.builder) /\ Expandable(calls, returning) /\ Inner.at = At
      /\ at \in Position /\ N \in Nat
  BY TopFacts, ShapeFacts, ChildrenAreNumbered DEF At
<1>2. UNCHANGED <<status, captured, problem, visit>>
  BY DEF VisitChildren
<1>3. CASE next = {}
  <2>1. cursor' = Handle(tree, path) /\ returning' = TRUE /\ IsUpdate(calls, calls', at)
    BY <1>3 DEF VisitChildren, Handle, GoTo, IsUpdate
  <2>. HIDE DEF n, N, next
  <2>2. IsMoved(calls, calls', at)
    BY <1>1, <2>1, StackMoves DEF n
  <2>3. Placed(cursor') /\ cursor'.path = path /\ cursor'.tree = tree
    BY <2>1, HandleFacts
  <2>4. Expandable(calls', returning')
    BY <1>1, <2>2, ExpandableStays DEF n
  <2>5. MarkedAt(cursor')
    BY <2>3 DEF Unmarked, MarkedAt
  <2>. QED  BY <1>1, <1>2, <2>1, <2>2, <2>3, <2>4, <2>5, TopStep DEF n
<1>4. CASE next # {}
  <2>. DEFINE j == Min(next)
              low == Append(Append(at, j), 1)
  <2>1. /\ cursor' = Handle(tree, path \o <<j, 1>>) /\ returning' = FALSE
        /\ IsUpdate(calls, calls', at \o <<j, 1>>)
    BY <1>4 DEF VisitChildren, Handle, GoTo, IsUpdate
  <2>2. j \in next
    <3>1. next \subseteq Nat
      BY <1>1
    <3>. HIDE DEF next
    <3>2. \E x \in next : \A y \in next : x <= y
      BY <1>4, <3>1, LeastElement
    <3>. QED  BY <3>2 DEF Min
  <2>3. j \in Nat \ {0} /\ j \in 1..N /\ NChildren(Inner.builder, Append(at, j)) > 0
    BY <1>1, <2>2 DEF ChildBuilders
  <2>. HIDE DEF j, N, next
  <2>4. Append(at, j) \in DOMAIN Inner.builder
    BY <1>1, <2>3, ChildrenAreNumbered DEF N
  <2>5. low \in DOMAIN Inner.builder
    <3>1. 1 \in Nat \ {0} /\ 1 <= NChildren(Inner.builder, Append(at, j))
      BY <1>1, <2>3, <2>4, ChildrenAreNumbered
    <3>. QED  BY <1>1, <2>4, <3>1, ChildrenAreNumbered
  <2>6. at \o <<j, 1>> = low /\ low \in Position
    BY <1>1, <2>3, TwoBelow
  <2>7. path \o <<j, 1>> = b[n] \o low /\ b[n] \o low \in DOMAIN tree
    <3>1. path \in Position
      BY <1>1, ConcatPosition
    <3>2. path \o <<j, 1>> = Append(Append(path, j), 1)
      BY <2>3, <3>1, TwoBelow
    <3>3. b[n] \o low = Append(Append(b[n] \o at, j), 1)
      BY <1>1, <2>3, TwoBelow
    <3>4. b[n] \o low \in DOMAIN tree
      BY <2>3 DEF n, N
    <3>. QED  BY <3>2, <3>3, <3>4
  <2>8. IsMoved(calls, calls', low)
    BY <1>1, <2>1, <2>6, StackMoves DEF n
  <2>9. Placed(cursor') /\ cursor'.path = b[n] \o low /\ cursor'.tree = tree
    <3>. DEFINE place == b[n] \o low
    <3>1. cursor' = Handle(tree, place) /\ IsTree(tree) /\ place \in DOMAIN tree
      BY <2>1, <2>7
    <3>. HIDE DEF place
    <3>2. Placed(cursor') /\ cursor'.path = place /\ cursor'.tree = tree
      BY ONLY <3>1, HandleFacts
    <3>. QED  BY <3>2 DEF place
  <2>10. Expandable(calls', returning')
    BY <1>1, <2>8, ExpandableStays DEF n
  <2>11. MarkedAt(cursor')
    BY <2>9 DEF Unmarked, MarkedAt
  <2>12. IsCall(MovedTo(Inner, low)) /\ AwaitedIn(MovedTo(Inner, low), b[n], tree)
    <3>. DEFINE call == MovedTo(Inner, at)
    <3>1. call.builder = Inner.builder /\ call.at = at /\ IsCall(call) /\ AwaitedIn(call, b[n], tree)
      BY DEF MovedTo
    <3>2. MovedTo(call, low) = MovedTo(Inner, low)
      BY DEF MovedTo
    <3>. HIDE DEF call, n
    <3>3. \A k \in 1..NChildren(call.builder, call.at) :
            /\ call.builder[Append(call.at, k)].type = "filter"
            /\ b[n] \o Append(Append(call.at, k), 1) \in DOMAIN tree
      BY <3>1 DEF n
    <3>4. /\ IsCall(MovedTo(call, Append(Append(call.at, j), 1)))
          /\ AwaitedIn(MovedTo(call, Append(Append(call.at, j), 1)), b[n], tree)
      BY <2>3, <2>5, <3>1, <3>3, BelowFilter
    <3>. QED  BY <3>1, <3>2, <3>4
  <2>. HIDE DEF low
  <2>. QED  BY <1>1, <1>2, <2>1, <2>8, <2>9, <2>10, <2>11, <2>12, TopStep DEF n
<1>. QED  BY <1>3, <1>4

\* When a call has returned, the mark of an expansion is gone.
LEMMA ReturnedFacts ==
  ASSUME IInv, Returned
  PROVE  /\ calls # << >> /\ returning /\ status = "running"
         /\ Placed(cursor) /\ Unmarked(cursor.tree)
<1>1. calls # << >> /\ returning /\ status = "running" /\ ~ AtMark
  BY DEF Returned
<1>2. cursor # Null
  BY <1>1 DEF IInv, CursorInv
<1>3. Placed(cursor) /\ MarkedAt(cursor)
  BY <1>2 DEF IInv, CursorInv
<1>. QED  BY <1>1, <1>2, <1>3 DEF AtMark, MarkedAt, Unmarked

LEMMA ReturnToSequencePreserves ==
  ASSUME IInv, UNCHANGED <<problem, visit>>, ReturnToSequence
  PROVE  IInv'
<1>1. /\ Returned /\ At # << >> /\ FilterOfSequence(Front(At))
      /\ VisitChildren(Front(Front(At)), Front(Front(cursor.path)), cursor.tree,
                       Last(Front(At)) + 1)
  BY DEF ReturnToSequence
<1>2. /\ calls # << >> /\ returning /\ Placed(cursor) /\ Unmarked(cursor.tree)
  BY <1>1, ReturnedFacts
<1>3. PICK b : IsFraming(b)
  BY <1>2, Framing
<1>. DEFINE n == Len(calls)
            f == Front(At)
            at == Front(f)
            path == Front(Front(cursor.path))
<1>4. /\ n \in Nat \ {0} /\ Inner = calls[n] /\ IsCall(Inner) /\ b[n] \in Position
      /\ At \in Position /\ At \in DOMAIN Inner.builder /\ IsShape(Inner.builder)
      /\ cursor.path = b[n] \o At /\ Inner.at = At /\ AwaitedIn(Inner, b[n], cursor.tree)
      /\ \A k \in 1..n : SameTree(calls, k, n) => AwaitedIn(calls[k], b[k], cursor.tree)
  BY <1>2, <1>3, TopFacts DEF At
<1>5. IsTree(cursor.tree) /\ IsShape(cursor.tree) /\ cursor.path \in DOMAIN cursor.tree
  BY <1>2, PlacedNotNull
<1>6. f # << >> /\ Inner.builder[Front(f)].type \in SeveralTypes
  BY <1>1 DEF FilterOfSequence, SeveralTypes
<1>7. f \in Position /\ f \in DOMAIN Inner.builder
  BY <1>1, <1>4, ShapeFacts, FrontPosition
<1>8. at \in Position /\ Last(f) \in Nat \ {0}
  BY <1>6, <1>7, FrontPosition
<1>9. path = b[n] \o at /\ path \in DOMAIN cursor.tree
  <2>1. Front(b[n] \o At) = b[n] \o f /\ b[n] \o At # << >>
    BY <1>1, <1>4, ConcatFront
  <2>2. Front(b[n] \o f) = b[n] \o at /\ b[n] \o f # << >>
    BY <1>4, <1>6, <1>7, ConcatFront
  <2>3. b[n] \o f \in DOMAIN cursor.tree
    BY <1>4, <1>5, <2>1, ShapeFacts
  <2>4. Front(b[n] \o f) \in DOMAIN cursor.tree
    BY <1>5, <2>2, <2>3, ShapeFacts
  <2>. QED  BY <1>4, <2>1, <2>2, <2>4
<1>10. /\ IsCall(MovedTo(Inner, at)) /\ AwaitedIn(MovedTo(Inner, at), b[n], cursor.tree)
       /\ at \in DOMAIN Inner.builder
       /\ \A i \in 1..NChildren(Inner.builder, at) :
            /\ Inner.builder[Append(at, i)].type = "filter"
            /\ b[n] \o Append(Append(at, i), 1) \in DOMAIN cursor.tree
  <2>1. Inner.at # << >> /\ Front(Inner.at) # << >>
        /\ Inner.builder[Front(Front(Inner.at))].type \in SeveralTypes
    BY <1>1, <1>4, <1>6
  <2>. DEFINE tree == cursor.tree
              base == b[n]
  <2>2. IsCall(Inner) /\ AwaitedIn(Inner, base, tree) /\ Front(Front(Inner.at)) = at
    BY <1>4
  <2>. HIDE DEF tree, base, at
  <2>3. /\ IsCall(MovedTo(Inner, at)) /\ AwaitedIn(MovedTo(Inner, at), base, tree)
        /\ at \in DOMAIN Inner.builder
        /\ \A i \in 1..NChildren(Inner.builder, at) :
             /\ Inner.builder[Append(at, i)].type = "filter"
             /\ base \o Append(Append(at, i), 1) \in DOMAIN tree
    BY <2>1, <2>2, UpToSeveral
  <2>. QED  BY <2>3 DEF tree, base
<1>. DEFINE i == Last(f) + 1
<1>11. i \in Nat \ {0} /\ VisitChildren(at, path, cursor.tree, i)
  BY <1>1, <1>8
<1>12. Inner.builder[at].type \in SeveralTypes
  BY <1>6
<1>13. \A k \in 1..(n - 1) : SameTree(calls, k, n) => AwaitedIn(calls[k], b[k], cursor.tree)
  BY <1>4
<1>. HIDE DEF at, path, i, f
<1>. QED  BY <1>1, <1>2, <1>3, <1>5, <1>9, <1>10, <1>11, <1>12, <1>13, VisitStep DEF n

LEMMA ReturnToParentPreserves ==
  ASSUME IInv, UNCHANGED <<problem, visit>>, ReturnToParent
  PROVE  IInv'
<1>1. /\ Returned /\ At # << >> /\ ~ FilterOfSequence(Front(At))
      /\ IsUpdate(calls, calls', Front(At))
      /\ cursor' = [cursor EXCEPT !.path = Front(@)]
      /\ UNCHANGED <<status, returning, captured>>
  BY DEF ReturnToParent, GoTo, IsUpdate
<1>2. /\ calls # << >> /\ returning /\ Placed(cursor) /\ Unmarked(cursor.tree)
  BY <1>1, ReturnedFacts
<1>3. PICK b : IsFraming(b)
  BY <1>2, Framing
<1>. DEFINE n == Len(calls)
            at == Front(At)
            path == Front(cursor.path)
<1>4. /\ n \in Nat \ {0} /\ Inner = calls[n] /\ IsCall(Inner) /\ b[n] \in Position
      /\ At \in Position /\ At \in DOMAIN Inner.builder /\ IsShape(Inner.builder)
      /\ cursor.path = b[n] \o At /\ Inner.at = At /\ AwaitedIn(Inner, b[n], cursor.tree)
      /\ \A k \in 1..n : SameTree(calls, k, n) => AwaitedIn(calls[k], b[k], cursor.tree)
      /\ IsStack(calls) /\ Expandable(calls, returning)
  BY <1>2, <1>3, TopFacts DEF At
<1>5. /\ IsTree(cursor.tree) /\ IsShape(cursor.tree) /\ cursor.path \in DOMAIN cursor.tree
      /\ cursor = Handle(cursor.tree, cursor.path)
  BY <1>2, PlacedNotNull
<1>6. cursor' = Handle(cursor.tree, path)
  <2>1. cursor = [tree |-> cursor.tree, path |-> cursor.path]
    BY <1>5 DEF Handle
  <2>. QED  BY <1>1, <2>1 DEF Handle
<1>7. path = b[n] \o at /\ path \in DOMAIN cursor.tree
  <2>1. Front(b[n] \o At) = b[n] \o at /\ b[n] \o At # << >>
    BY <1>1, <1>4, ConcatFront
  <2>. QED  BY <1>4, <1>5, <2>1, ShapeFacts
<1>8. Placed(cursor') /\ cursor'.path = path /\ cursor'.tree = cursor.tree
  BY <1>5, <1>6, <1>7, HandleFacts
<1>9. IsMoved(calls, calls', at)
  BY <1>1, <1>2, <1>4, StackMoves
<1>10. Expandable(calls', returning')
  BY <1>1, <1>2, <1>4, <1>9, ExpandableStays
<1>11. MarkedAt(cursor')
  BY <1>2, <1>8 DEF Unmarked, MarkedAt
<1>12. IsCall(MovedTo(Inner, at)) /\ AwaitedIn(MovedTo(Inner, at), b[n], cursor.tree)
  <2>1. Front(Inner.at) # << >> => Inner.builder[Front(Front(Inner.at))].type \notin SeveralTypes
    <3>1. Front(At) \in Position
      BY <1>1, <1>4, FrontPosition
    <3>2. Front(At) # << >> => Len(Front(At)) > 0
      BY <3>1 DEF Position
    <3>. QED  BY <1>1, <1>4, <3>2 DEF FilterOfSequence, SeveralTypes
  <2>. QED  BY <1>1, <1>4, <2>1, UpToParent
<1>13. \A k \in 1..(n - 1) : SameTree(calls, k, n) => AwaitedIn(calls[k], b[k], cursor.tree)
  BY <1>4
<1>14. returning' \in BOOLEAN /\ (~ returning' => Unmarked(cursor'.tree))
  BY <1>1, <1>2
<1>. HIDE DEF at, path
<1>. QED  BY <1>1, <1>2, <1>3, <1>7, <1>8, <1>9, <1>10, <1>11, <1>12, <1>13, <1>14, TopStep DEF n

\* The children of a sequence or set are put in place at once.
LEMMA SeveralPreserves ==
  ASSUME IInv, UNCHANGED <<problem, visit>>, InsertSequenceOrSet
  PROVE  IInv'
<1>. DEFINE n == Len(calls)
            N == ChildBuilders(At)
            children == [i \in DOMAIN ChildFilters |-> FilterOver(ChildFilters[i].stmts, Here)]
            sub == Over(NodeOf(Current.type), children)
            tree == Graft(cursor.tree, cursor.path, sub)
<1>1. /\ calls # << >> /\ ~ returning /\ Current.type \in {"sequence", "set"}
      /\ cursor # Null /\ FiltersAreProper /\ VisitChildren(At, cursor.path, tree, 1)
  BY DEF InsertSequenceOrSet, HasType, Entered
<1>2. PICK b : IsFraming(b)
  BY <1>1, Framing
<1>3. /\ n \in Nat \ {0} /\ Inner = calls[n] /\ IsCall(Inner) /\ b[n] \in Position
      /\ At \in Position /\ At \in DOMAIN Inner.builder /\ IsShape(Inner.builder)
      /\ MovedTo(Inner, At) = Inner
      /\ cursor.path = b[n] \o At /\ Inner.at = At
      /\ IsStack(calls) /\ \A k \in DOMAIN calls : IsCall(calls[k])
      /\ b \in [DOMAIN calls -> Position] /\ FramedBy(calls, cursor, b)
      /\ DOMAIN calls = 1..n
      /\ Placed(cursor) /\ Unmarked(cursor.tree)
  BY <1>1, <1>2, TopFacts DEF At
<1>4. /\ IsTree(cursor.tree) /\ IsShape(cursor.tree) /\ cursor.path \in DOMAIN cursor.tree
      /\ cursor.path \in Position
  BY <1>3, PlacedNotNull
<1>5. IsTree(Here) /\ Unmarked(Here)
  BY <1>1, HereFacts
<1>6. N \in Nat /\ N = NChildren(Inner.builder, At)
  BY <1>3, ChildrenAreNumbered DEF ChildBuilders
<1>7. /\ DOMAIN ChildFilters = 1..N /\ N # 0
      /\ \A i \in 1..N : Inner.builder[Append(At, i)].type = "filter"
  <2>1. ChildFilters = [i \in 1..N |-> Inner.builder[Append(At, i)]]
    BY DEF ChildFilters
  <2>. HIDE DEF N
  <2>2. DOMAIN ChildFilters = 1..N
    BY <2>1
  <2>3. ASSUME NEW i \in 1..N PROVE Inner.builder[Append(At, i)].type = "filter"
    <3>1. ChildFilters[i].type = "filter"
      BY <1>1, <2>2 DEF FiltersAreProper
    <3>. QED  BY <2>1, <3>1
  <2>4. N # 0
    <3>1. SUFFICES ASSUME N = 0 PROVE FALSE
      OBVIOUS
    <3>2. ChildFilters = << >>
      BY <2>1, <3>1
    <3>. QED  BY <1>1, <3>2 DEF FiltersAreProper
  <2>. QED  BY <2>2, <2>3, <2>4
<1>8. DOMAIN children = 1..N
  BY <1>7
<1>9. \A i \in 1..N : children[i] = FilterOver(ChildFilters[i].stmts, Here)
  BY <1>7
<1>. HIDE DEF N, children
<1>10. \A i \in 1..N : /\ IsTree(children[i]) /\ IsShape(children[i]) /\ <<1>> \in DOMAIN children[i]
                       /\ Unmarked(children[i])
  <2>1. SUFFICES ASSUME NEW i \in 1..N
                 PROVE  /\ IsTree(children[i]) /\ <<1>> \in DOMAIN children[i]
                        /\ Unmarked(children[i])
    BY DEF IsTree
  <2>. DEFINE F == FilterOver(ChildFilters[i].stmts, Here)
  <2>2. /\ IsTree(F) /\ F[<< >>].type = "filter" /\ <<1>> \in DOMAIN F
        /\ \A q \in DOMAIN F : q # << >> => \E r \in DOMAIN Here : F[q] = Here[r]
    BY <1>5, FilterOverFacts
  <2>3. children[i] = F
    BY <1>9
  <2>. HIDE DEF F
  <2>4. Unmarked(F)
    BY <1>5, <2>2 DEF Unmarked, IsExpandMark
  <2>. QED  BY <2>2, <2>3, <2>4
<1>11. IsNode(NodeOf(Current.type)) /\ NodeOf(Current.type).type = Current.type
  BY NewNodes
<1>. DEFINE node == NodeOf(Current.type)
<1>12. IsNode(node) /\ node.type # "leaf" /\ ~ IsExpandMark(node)
  BY <1>1, <1>11 DEF IsExpandMark
<1>. HIDE DEF node
<1>13. IsTree(Over(node, children)) /\ IsShape(Over(node, children))
  <2>1. node.type = "leaf" <=> N = 0
    BY <1>7, <1>12
  <2>. QED  BY <1>6, <1>8, <1>10, <1>12, <2>1, OverIsTree DEF IsTree
<1>. DEFINE O == Over(node, children)
<1>14. /\ O[<< >>] = node
       /\ \A i \in 1..N, q \in Position : <<i>> \o q \in DOMAIN O <=> q \in DOMAIN children[i]
       /\ \A q \in DOMAIN O :
            /\ q \in Position
            /\ q # << >> => Head(q) \in 1..N /\ Tail(q) \in DOMAIN children[Head(q)]
  BY <1>6, <1>8, <1>10, OverFacts
<1>15. Unmarked(O)
  <2>1. SUFFICES ASSUME NEW q \in DOMAIN O PROVE ~ IsExpandMark(O[q])
    BY DEF Unmarked
  <2>2. CASE q = << >>
    BY <1>12, <1>14, <2>2
  <2>3. CASE q # << >>
    <3>. DEFINE i == Head(q)
                r == Tail(q)
    <3>1. i \in 1..N /\ r \in DOMAIN children[i] /\ q = <<i>> \o r
      BY <1>14, <2>3, HeadPosition
    <3>. HIDE DEF i, r
    <3>2. IsCopied(Over(node, children), children, i, r)
      BY <1>6, <1>8, <1>10, <3>1, OverChild
    <3>3. O[q] = children[i][r]
      BY <3>1, <3>2 DEF IsCopied
    <3>. QED  BY <1>10, <3>1, <3>3 DEF Unmarked
  <2>. QED  BY <2>2, <2>3
<1>16. ASSUME NEW i \in 1..N PROVE i \in Nat \ {0} /\ <<i, 1>> \in DOMAIN O
  <2>1. i \in Nat \ {0} /\ 1 \in Nat \ {0} /\ i \in Nat /\ 1 \in Nat
    BY <1>6
  <2>2. <<1>> \in Position /\ <<i>> \in Position
    BY <2>1, OneConcat DEF Position
  <2>3. <<i>> \o <<1>> \in DOMAIN O
    BY <1>10, <1>14, <2>2
  <2>4. <<i>> \o <<1>> = Append(<<i>>, 1)
    BY <2>1, <2>2, AppendPosition
  <2>5. Append(<<i>>, 1) = <<i, 1>>
    BY <2>1, TwoEntries
  <2>. QED  BY <2>1, <2>3, <2>4, <2>5
<1>17. tree = Graft(cursor.tree, cursor.path, O)
  BY DEF node
<1>. HIDE DEF O, sub, tree
<1>18. IsTree(O) /\ IsShape(O)
  BY <1>13 DEF O
<1>19. IsTree(tree) /\ cursor.path \in DOMAIN tree
  BY <1>4, <1>17, <1>18, GraftIsTree, GraftFacts
<1>20. Unmarked(tree)
  <2>1. \A q \in DOMAIN cursor.tree : ~ IsExpandMark(cursor.tree[q])
    BY <1>3 DEF Unmarked
  <2>. QED  BY <1>4, <1>15, <1>17, <1>18, <2>1, UnmarkedGraft
<1>21. \A k \in 1..n : SameTree(calls, k, n) => AwaitedIn(calls[k], b[k], tree)
  BY <1>1, <1>3, <1>17, <1>18, AllAwaitedKept
<1>22. AwaitedIn(MovedTo(Inner, At), b[n], tree) /\ IsCall(MovedTo(Inner, At))
  <2>1. SameTree(calls, n, n) /\ n \in 1..n
    BY <1>3 DEF SameTree
  <2>2. AwaitedIn(calls[n], b[n], tree)
    BY <1>21, <2>1
  <2>. QED  BY <1>3, <2>2
<1>23. \A i \in 1..NChildren(Inner.builder, At) :
         /\ Inner.builder[Append(At, i)].type = "filter"
         /\ b[n] \o Append(Append(At, i), 1) \in DOMAIN tree
  <2>1. SUFFICES ASSUME NEW i \in 1..N
                 PROVE  /\ Inner.builder[Append(At, i)].type = "filter"
                        /\ b[n] \o Append(Append(At, i), 1) \in DOMAIN tree
    BY <1>6
  <2>2. i \in Nat \ {0} /\ <<i, 1>> \in DOMAIN O
    BY <1>16
  <2>3. b[n] \o Append(Append(At, i), 1) = Append(Append(b[n] \o At, i), 1)
    BY <1>3, <2>2, TwoBelow
  <2>4. cursor.path \o <<i, 1>> = Append(Append(cursor.path, i), 1)
    BY <1>4, <2>2, TwoBelow
  <2>. DEFINE t == <<i, 1>>
  <2>5. t \in DOMAIN O
    BY <2>2
  <2>. HIDE DEF t
  <2>6. cursor.path \o t \in DOMAIN tree
    BY <1>4, <1>17, <1>18, <2>5, GraftFacts
  <2>. QED  BY <1>3, <1>7, <2>3, <2>4, <2>6 DEF t
<1>. DEFINE path == cursor.path
            one == 1
<1>24. /\ path = b[n] \o At /\ path \in DOMAIN tree /\ one \in Nat \ {0}
       /\ VisitChildren(At, path, tree, one)
  BY <1>1, <1>3, <1>19
<1>25. Inner.builder[At].type \in SeveralTypes
  BY <1>1 DEF SeveralTypes, Current
<1>26. \A k \in 1..(n - 1) : SameTree(calls, k, n) => AwaitedIn(calls[k], b[k], tree)
  BY <1>21
<1>. HIDE DEF path, one
<1>. QED  BY <1>1, <1>2, <1>3, <1>19, <1>20, <1>22, <1>23, <1>24, <1>25, <1>26, VisitStep DEF n

LEMMA LeafPreserves ==
  ASSUME IInv, UNCHANGED <<problem, visit>>, StayAtLeaf
  PROVE  IInv'
<1>. DEFINE n == Len(calls)
<1>1. /\ calls # << >> /\ ~ returning /\ cursor # Null /\ returning' = TRUE
      /\ UNCHANGED <<status, cursor, calls, captured>>
  BY DEF StayAtLeaf, HasType, Entered
<1>2. PICK b : IsFraming(b)
  BY <1>1, Framing
<1>3. /\ n \in Nat \ {0} /\ Inner = calls[n] /\ IsCall(Inner) /\ Inner.at = At
      /\ MovedTo(Inner, At) = Inner /\ IsStack(calls) /\ Expandable(calls, returning)
      /\ Placed(cursor) /\ MarkedAt(cursor) /\ cursor.path = b[n] \o At
      /\ AwaitedIn(Inner, b[n], cursor.tree)
      /\ \A k \in 1..n : SameTree(calls, k, n) => AwaitedIn(calls[k], b[k], cursor.tree)
  BY <1>1, <1>2, TopFacts DEF At
<1>4. IsMoved(calls, calls', At)
  BY <1>1, <1>3, StackStays
<1>5. Expandable(calls', returning')
  <2>1. Expandable(calls, TRUE) /\ calls' = calls
    BY <1>1, <1>3 DEF Expandable
  <2>. QED  BY <1>1, <2>1
<1>6. cursor' = cursor /\ Placed(cursor') /\ MarkedAt(cursor') /\ returning' \in BOOLEAN
  BY <1>1, <1>3
<1>7. \A k \in 1..(n - 1) : SameTree(calls, k, n) => AwaitedIn(calls[k], b[k], cursor.tree)
  BY <1>3
<1>. QED  BY <1>1, <1>2, <1>3, <1>4, <1>5, <1>6, <1>7, TopStep

LEMMA DeletePreserves ==
  ASSUME IInv, UNCHANGED <<problem, visit>>, DeleteMark
  PROVE  IInv'
<1>. DEFINE n == Len(calls)
            path == cursor.path
            low == Append(path, 1)
            sub == Subtree(cursor.tree, low)
            tree == Delete(cursor.tree, path)
<1>1. /\ cursor # Null /\ cursor.tree[path] = ExpandMark
      /\ cursor' = [cursor EXCEPT !.tree = tree]
      /\ UNCHANGED <<status, calls, returning, captured>>
  BY DEF DeleteMark, AtMark
<1>2. Placed(cursor) /\ MarkedAt(cursor)
  BY <1>1 DEF IInv, CursorInv
<1>3. /\ IsTree(cursor.tree) /\ IsShape(cursor.tree) /\ path \in DOMAIN cursor.tree
      /\ path \in Position /\ cursor = Handle(cursor.tree, path)
  BY <1>2, PlacedNotNull
<1>4. IsExpandMark(ExpandMark) /\ ExpandMark.type = "mark"
  BY NewNodes DEF ExpandMark, IsExpandMark
<1>5. calls # << >> /\ returning
  BY <1>1, <1>3, <1>4 DEF IInv, CursorInv, Unmarked
<1>6. PICK b : IsFraming(b)
  BY <1>5, Framing
<1>7. /\ n \in Nat \ {0} /\ Inner = calls[n] /\ IsCall(Inner) /\ Inner.at = At
      /\ MovedTo(Inner, At) = Inner /\ IsStack(calls) /\ Expandable(calls, returning)
      /\ path = b[n] \o At /\ \A k \in DOMAIN calls : IsCall(calls[k])
      /\ b \in [DOMAIN calls -> Position] /\ FramedBy(calls, cursor, b)
      /\ DOMAIN calls = 1..n
  BY <1>5, <1>6, TopFacts DEF At
<1>8. IsTree(tree) /\ IsTree(sub) /\ low \in DOMAIN cursor.tree /\ path \in DOMAIN tree
      /\ tree = Graft(cursor.tree, path, sub)
  BY <1>1, <1>3, <1>4, DeleteIsTree DEF Delete
<1>9. \A q \in DOMAIN cursor.tree : q # path => ~ IsExpandMark(cursor.tree[q])
  BY <1>2 DEF MarkedAt
<1>10. Unmarked(sub)
  <2>1. IsPrefix(path, low) /\ low # path
    <3>1. 1 \in Nat \ {0}
      OBVIOUS
    <3>. QED  BY <1>3, <3>1, PrefixAppend
  <2>. HIDE DEF low, path
  <2>. QED  BY <1>3, <1>8, <1>9, <2>1, UnmarkedSubtree
<1>. HIDE DEF sub, tree, low
<1>11. Unmarked(tree)
  <2>1. IsPrefix(path, path)
    BY <1>3, PrefixOrder
  <2>2. \A q \in DOMAIN cursor.tree : ~ IsPrefix(path, q) => ~ IsExpandMark(cursor.tree[q])
    BY <1>9, <2>1
  <2>. QED  BY <1>3, <1>8, <1>10, <2>2, UnmarkedGraft
<1>12. cursor' = Handle(tree, path)
  <2>1. cursor = [tree |-> cursor.tree, path |-> cursor.path]
    BY <1>3 DEF Handle
  <2>. QED  BY <1>1, <2>1 DEF Handle
<1>13. Placed(cursor') /\ cursor'.path = path /\ cursor'.tree = tree
  BY <1>8, <1>12, HandleFacts
<1>14. MarkedAt(cursor')
  BY <1>11, <1>13 DEF Unmarked, MarkedAt
<1>15. \A k \in 1..n : SameTree(calls, k, n) => AwaitedIn(calls[k], b[k], tree)
  BY <1>2, <1>5, <1>7, <1>8, AllAwaitedKept
<1>16. AwaitedIn(Inner, b[n], tree)
  <2>1. SameTree(calls, n, n) /\ n \in 1..n
    BY <1>7 DEF SameTree
  <2>. QED  BY <1>7, <1>15, <2>1
<1>17. \A k \in 1..(n - 1) : SameTree(calls, k, n) => AwaitedIn(calls[k], b[k], tree)
  BY <1>15
<1>18. IsMoved(calls, calls', At) /\ Expandable(calls', returning')
  BY <1>1, <1>5, <1>7, StackStays
<1>19. returning' \in BOOLEAN /\ returning'
  BY <1>1, <1>5 DEF IInv, WalkInv
<1>. HIDE DEF path
<1>. QED  BY <1>1, <1>5, <1>6, <1>7, <1>13, <1>14, <1>16, <1>17, <1>18, <1>19, TopStep DEF n

\* The invariant after a change of the stack.
LEMMA StackStep ==
  ASSUME IInv, calls # << >>, IsStack(calls'), calls' # << >>,
         \A k \in DOMAIN calls' : IsCall(calls'[k]), Expandable(calls', returning'),
         Placed(cursor'), MarkedAt(cursor'), ~ returning' => Unmarked(cursor'.tree),
         returning' \in BOOLEAN, NEW b \in [DOMAIN calls' -> Position],
         FramedBy(calls', cursor', b), problem.op = "merge" => IsPrefix(problem.at, b[1]),
         UNCHANGED <<status, captured, problem, visit>>
  PROVE  IInv'
<1>1. CallsInv'
  BY DEF CallsInv
<1>2. CursorInv'
  BY PlacedNotNull DEF CursorInv
<1>3. WalkInv'
  BY DEF IInv, WalkInv
<1>4. FrameInv(Bases)'
  BY DEF FrameInv, Bases
<1>. QED  BY <1>1, <1>2, <1>3, <1>4 DEF IInv

\* A call is added: for the captured subtree, at the cursor, or for the subtree
\* of an expansion, which gets a tree of its own.
IsFramed(c, cur, first) ==
  \E a \in [DOMAIN c -> Position] : FramedBy(c, cur, a) /\ a[1] = first

LEMMA FramePushes ==
  ASSUME NEW c, IsStack(c), c # << >>, NEW cur, NEW b \in [DOMAIN c -> Position],
         FramedBy(c, cur, b), \A k \in DOMAIN c : IsCall(c[k]), cur.path \in Position,
         NEW call, call.at = << >>, IsCall(call), NEW other, NEW base \in Position,
         \/ call.expanded = Null /\ other = cur /\ base = cur.path
         \/ call.expanded = cur /\ cur # Null /\ other.path = base /\ base = << 1 >>
  PROVE  IsFramed(Append(c, call), other, b[1])
<1>. DEFINE n == Len(c)
            new == Append(c, call)
            a == [k \in 1..(n + 1) |-> IF k = n + 1 THEN base ELSE b[k]]
<1>1. n \in Nat \ {0} /\ DOMAIN c = 1..n
  BY StackFacts
<1>2. /\ IsStack(new) /\ Len(new) = n + 1 /\ new[n + 1] = call
      /\ \A k \in 1..n : new[k] = c[k]
  BY StackGrows
<1>3. DOMAIN new = 1..(n + 1)
  BY <1>2, StackFacts
<1>. HIDE DEF new, n
<1>4. a \in [1..(n + 1) -> Position] /\ a[n + 1] = base /\ \A k \in 1..n : a[k] = b[k]
  BY <1>1
<1>. HIDE DEF a
<1>5. ASSUME NEW k \in 1..n, NEW i \in 1..n
      PROVE  SameTree(new, k, i) <=> SameTree(c, k, i)
  BY <1>1, <1>2, <1>5 DEF SameTree
<1>6. ASSUME NEW k \in 1..n, SameTree(new, k, n + 1)
      PROVE  call.expanded = Null /\ SameTree(c, k, n)
  <2>1. n + 1 \in (k + 1)..(n + 1) /\ \A m \in (k + 1)..n : m \in (k + 1)..(n + 1) /\ m \in 1..n
    BY <1>1
  <2>. QED  BY <1>2, <1>6, <2>1 DEF SameTree
<1>7. other.path = base
  OBVIOUS
<1>8. base \o << >> = base
  BY ConcatPosition DEF Position
<1>9. ASSUME NEW k \in 1..(n + 1), NEW i \in 1..(n + 1), k < i, SameTree(new, k, i)
      PROVE  IsPrefix(a[k] \o new[k].at, a[i])
  <2>1. k \in 1..n /\ a[k] = b[k] /\ new[k] = c[k]
    BY <1>1, <1>2, <1>4, <1>9
  <2>2. CASE i = n + 1
    <3>1. call.expanded = Null /\ SameTree(c, k, n)
      BY <1>6, <1>9, <2>1, <2>2
    <3>2. Null # cur => base = cur.path
      BY <3>1
    <3>3. base = cur.path
      BY <3>1
    <3>4. IsPrefix(b[k] \o c[k].at, cur.path)
      BY <1>1, <2>1, <3>1, AboveCursor DEF n
    <3>. QED  BY <1>4, <2>1, <2>2, <3>3, <3>4
  <2>3. CASE i # n + 1
    <3>1. i \in 1..n /\ a[i] = b[i]
      BY <1>1, <1>4, <2>3
    <3>2. SameTree(c, k, i)
      BY <1>5, <1>9, <2>1, <3>1
    <3>. QED  BY <1>1, <1>9, <2>1, <3>1, <3>2 DEF FramedBy
  <2>. QED  BY <2>2, <2>3
<1>10. ASSUME NEW i \in 1..(n + 1), i > 1, new[i].expanded = Null
       PROVE  a[i] = a[i - 1] \o new[i - 1].at
  <2>1. i - 1 \in 1..n /\ a[i - 1] = b[i - 1] /\ new[i - 1] = c[i - 1]
    BY <1>1, <1>2, <1>4, <1>10
  <2>2. CASE i = n + 1
    <3>1. base = cur.path /\ cur.path = b[n] \o c[n].at
      BY <1>2, <1>10, <2>2 DEF FramedBy, n
    <3>2. i - 1 = n
      BY <1>1, <2>2
    <3>. QED  BY <1>4, <2>1, <2>2, <3>1, <3>2
  <2>3. CASE i # n + 1
    <3>1. i \in 1..n /\ a[i] = b[i] /\ new[i] = c[i]
      BY <1>1, <1>2, <1>4, <2>3
    <3>. QED  BY <1>1, <1>10, <2>1, <3>1 DEF FramedBy
  <2>. QED  BY <2>2, <2>3
<1>11. ASSUME NEW i \in 1..(n + 1), new[i].expanded # Null
       PROVE  i > 1 /\ a[i] = <<1>> /\ new[i].expanded.path = a[i - 1] \o new[i - 1].at
  <2>2. CASE i = n + 1
    <3>1. call.expanded = cur /\ base = <<1>> /\ cur.path = b[n] \o c[n].at
      BY <1>2, <1>11, <2>2 DEF FramedBy, n
    <3>2. i - 1 = n /\ i > 1 /\ n \in 1..n
      BY <1>1, <2>2
    <3>. QED  BY <1>2, <1>4, <2>2, <3>1, <3>2
  <2>3. CASE i # n + 1
    <3>1. i \in 1..n /\ a[i] = b[i] /\ new[i] = c[i]
      BY <1>1, <1>2, <1>4, <2>3
    <3>2. i > 1 /\ b[i] = <<1>> /\ c[i].expanded.path = b[i - 1] \o c[i - 1].at
      BY <1>1, <1>11, <3>1 DEF FramedBy
    <3>3. i - 1 \in 1..n /\ a[i - 1] = b[i - 1] /\ new[i - 1] = c[i - 1]
      BY <1>1, <1>2, <1>4, <3>1, <3>2
    <3>. QED  BY <3>1, <3>2, <3>3
  <2>. QED  BY <2>2, <2>3
<1>12. other.path = a[Len(new)] \o new[Len(new)].at
  BY <1>2, <1>4, <1>7, <1>8
<1>13. AwaitedIn(call, base, other.tree)
  <2>1. ASSUME NEW p \in DOMAIN call.builder, IsPrefix(p, call.at) PROVE p = call.at
    <3>1. p \in Position
      BY ShapeFacts, CallFacts
    <3>. QED  BY <2>1, <3>1, PrefixOrder
  <2>. QED  BY <2>1 DEF AwaitedIn
<1>14. ASSUME NEW k \in 1..(n + 1), NEW i \in 1..(n + 1), k <= i, SameTree(new, k, i),
              i = Len(new)
       PROVE  AwaitedIn(new[k], a[k], other.tree)
  <2>1. CASE k = n + 1
    BY <1>2, <1>4, <1>13, <2>1
  <2>2. CASE k # n + 1
    <3>1. k \in 1..n /\ a[k] = b[k] /\ new[k] = c[k]
      BY <1>1, <1>2, <1>4, <2>2
    <3>2. call.expanded = Null /\ SameTree(c, k, n)
      BY <1>2, <1>6, <1>14, <3>1
    <3>3. other = cur
      BY <3>2
    <3>4. n \in 1..n /\ k <= n
      BY <1>1, <3>1
    <3>5. AwaitedIn(c[k], b[k], cur.tree)
      BY <1>1, <3>1, <3>2, <3>4 DEF FramedBy, n
    <3>. QED  BY <3>1, <3>3, <3>5
  <2>. QED  BY <2>1, <2>2
<1>15. ASSUME NEW k \in 1..(n + 1), NEW i \in 1..(n + 1), k <= i, SameTree(new, k, i),
              i < Len(new), new[i + 1].expanded # Null
       PROVE  AwaitedIn(new[k], a[k], new[i + 1].expanded.tree)
  <2>1. k \in 1..n /\ i \in 1..n /\ a[k] = b[k] /\ new[k] = c[k]
    BY <1>1, <1>2, <1>4, <1>15
  <2>2. SameTree(c, k, i)
    BY <1>5, <1>15, <2>1
  <2>3. CASE i = n
    <3>1. new[i + 1] = call /\ call.expanded = cur
      BY <1>2, <1>15, <2>3
    <3>2. AwaitedIn(c[k], b[k], cur.tree)
      BY <1>1, <1>15, <2>1, <2>2, <2>3 DEF FramedBy, n
    <3>. QED  BY <2>1, <3>1, <3>2
  <2>4. CASE i # n
    <3>1. i + 1 \in 1..n /\ i < n
      BY <1>1, <2>1, <2>4
    <3>2. new[i + 1] = c[i + 1]
      BY <1>2, <3>1
    <3>3. i < Len(c)
      BY <3>1 DEF n
    <3>. QED  BY <1>1, <1>15, <2>1, <2>2, <3>1, <3>2, <3>3 DEF FramedBy
  <2>. QED  BY <2>3, <2>4
<1>16. FramedBy(new, other, a)
  BY <1>3, <1>9, <1>10, <1>11, <1>12, <1>14, <1>15 DEF FramedBy
<1>17. a[1] = b[1]
  BY <1>1, <1>4
<1>. QED  BY <1>3, <1>4, <1>16, <1>17 DEF new, IsFramed

\* The innermost call returns to the one below it.
LEMMA FramePops ==
  ASSUME NEW c, IsStack(c), NEW m \in Nat \ {0}, Len(c) = m + 1, NEW cur,
         NEW b \in [DOMAIN c -> Position], FramedBy(c, cur, b),
         \A k \in DOMAIN c : IsCall(c[k]), NEW other,
         \/ c[m + 1].expanded = Null /\ c[m + 1].at = << >> /\ other = cur
         \/ /\ c[m + 1].expanded # Null /\ other.path = c[m + 1].expanded.path
            /\ DOMAIN c[m + 1].expanded.tree \subseteq DOMAIN other.tree
  PROVE  IsFramed(Front(c), other, b[1])
<1>. DEFINE new == Front(c)
            a == [k \in 1..m |-> b[k]]
            top == c[m + 1]
<1>1. m \in Nat \ {0} /\ DOMAIN c = 1..(m + 1) /\ c # << >> /\ m + 1 \in DOMAIN c
  BY StackFacts
<1>2. IsStack(new) /\ Len(new) = m /\ \A k \in 1..m : new[k] = c[k]
  <2>1. IsStack(new) /\ Len(new) = Len(c) - 1 /\ \A k \in 1..(Len(c) - 1) : new[k] = c[k]
    BY <1>1, StackShrinks
  <2>2. Len(c) - 1 = m
    OBVIOUS
  <2>. QED  BY <2>1, <2>2
<1>3. DOMAIN new = 1..m
  BY <1>2, StackFacts
<1>. HIDE DEF new
<1>4. a \in [1..m -> Position] /\ \A k \in 1..m : a[k] = b[k] /\ k \in 1..(m + 1)
  BY <1>1
<1>. HIDE DEF a, top
<1>5. ASSUME NEW k \in 1..m, NEW i \in 1..m
      PROVE  SameTree(new, k, i) <=> SameTree(c, k, i)
  BY <1>1, <1>2, <1>5 DEF SameTree
<1>6. ASSUME NEW k \in 1..m, SameTree(c, k, m), top.expanded = Null
      PROVE  SameTree(c, k, m + 1)
  <2>1. SUFFICES ASSUME NEW j \in (k + 1)..(m + 1) PROVE c[j].expanded = Null
    BY DEF SameTree
  <2>2. j = m + 1 \/ j \in (k + 1)..m
    BY <1>1
  <2>. QED  BY <1>6, <2>2 DEF SameTree, top
<1>7. ASSUME NEW k \in 1..m, NEW i \in 1..m, k < i, SameTree(new, k, i)
      PROVE  IsPrefix(a[k] \o new[k].at, a[i])
  <2>1. SameTree(c, k, i) /\ k \in DOMAIN c /\ i \in DOMAIN c
    BY <1>1, <1>4, <1>5, <1>7
  <2>2. IsPrefix(b[k] \o c[k].at, b[i])
    BY <1>7, <2>1 DEF FramedBy
  <2>. QED  BY <1>2, <1>4, <2>2
<1>8. ASSUME NEW i \in 1..m, i > 1
      PROVE  /\ i - 1 \in 1..m /\ i \in DOMAIN c
             /\ a[i] = b[i] /\ new[i] = c[i] /\ a[i - 1] = b[i - 1] /\ new[i - 1] = c[i - 1]
  BY <1>1, <1>2, <1>4, <1>8
<1>9. ASSUME NEW i \in 1..m, i > 1, new[i].expanded = Null
      PROVE  a[i] = a[i - 1] \o new[i - 1].at
  BY <1>8, <1>9 DEF FramedBy
<1>10. ASSUME NEW i \in 1..m, new[i].expanded # Null
       PROVE  i > 1 /\ a[i] = <<1>> /\ new[i].expanded.path = a[i - 1] \o new[i - 1].at
  <2>1. new[i] = c[i] /\ i \in DOMAIN c
    BY <1>1, <1>2, <1>4
  <2>2. i > 1 /\ b[i] = <<1>> /\ c[i].expanded.path = b[i - 1] \o c[i - 1].at
    BY <1>10, <2>1 DEF FramedBy
  <2>. QED  BY <1>8, <2>1, <2>2
<1>11. other.path = b[m] \o c[m].at
  <2>1. m + 1 > 1 /\ (m + 1) - 1 = m
    BY <1>1
  <2>. DEFINE j == m + 1
  <2>2. j \in DOMAIN c /\ j > 1 /\ j - 1 = m /\ j = Len(c)
    BY <1>1, <2>1
  <2>. HIDE DEF j
  <2>3. CASE c[j].expanded = Null
    <3>1. c[j].at = << >> /\ other = cur
      BY <2>3 DEF j
    <3>2. cur.path = b[j] \o << >> /\ b[j] \in Position
      BY <1>1, <2>2, <3>1 DEF FramedBy
    <3>3. b[j] = b[m] \o c[m].at
      BY <2>2, <2>3 DEF FramedBy
    <3>4. b[j] \o << >> = b[j]
      BY <3>2, ConcatPosition
    <3>. QED  BY <3>1, <3>2, <3>3, <3>4
  <2>4. CASE c[j].expanded # Null
    <3>1. other.path = c[j].expanded.path
      BY <2>4 DEF j
    <3>. QED  BY <2>2, <2>4, <3>1 DEF FramedBy
  <2>. QED  BY <2>3, <2>4
<1>12. m \in 1..m
  BY <1>1
<1>13. other.path = a[Len(new)] \o new[Len(new)].at
  BY <1>2, <1>4, <1>11, <1>12
<1>14. ASSUME NEW k \in 1..m, SameTree(new, k, m)
       PROVE  AwaitedIn(new[k], a[k], other.tree)
  <2>1. SameTree(c, k, m) /\ k \in DOMAIN c /\ m \in DOMAIN c /\ k <= m /\ k <= m + 1
    BY <1>1, <1>4, <1>5, <1>12, <1>14
  <2>2. CASE top.expanded = Null
    <3>1. SameTree(c, k, m + 1) /\ other = cur
      BY <1>6, <2>1, <2>2 DEF top
    <3>2. AwaitedIn(c[k], b[k], cur.tree)
      BY <1>1, <2>1, <3>1 DEF FramedBy
    <3>. QED  BY <1>2, <1>4, <3>1, <3>2
  <2>3. CASE top.expanded # Null
    <3>1. DOMAIN top.expanded.tree \subseteq DOMAIN other.tree
      BY <2>3 DEF top
    <3>2. m < Len(c)
      BY <1>1
    <3>3. AwaitedIn(c[k], b[k], top.expanded.tree)
      BY <2>1, <2>3, <3>2 DEF FramedBy, top
    <3>4. AwaitedIn(c[k], b[k], other.tree)
      BY <3>1, <3>3 DEF AwaitedIn
    <3>. QED  BY <1>2, <1>4, <3>4
  <2>. QED  BY <2>2, <2>3
<1>15. ASSUME NEW k \in 1..m, NEW i \in 1..m, k <= i, SameTree(new, k, i),
              i < m, new[i + 1].expanded # Null
       PROVE  AwaitedIn(new[k], a[k], new[i + 1].expanded.tree)
  <2>1. i + 1 \in 1..m
    BY <1>1, <1>15
  <2>2. new[i + 1] = c[i + 1] /\ i < Len(c)
    BY <1>1, <1>2, <2>1
  <2>3. SameTree(c, k, i) /\ k \in DOMAIN c /\ i \in DOMAIN c
    BY <1>1, <1>4, <1>5, <1>15
  <2>4. AwaitedIn(c[k], b[k], c[i + 1].expanded.tree)
    BY <1>15, <2>2, <2>3 DEF FramedBy
  <2>. QED  BY <1>2, <1>4, <2>2, <2>4
<1>16. \A k \in 1..m, i \in 1..m : k <= i /\ SameTree(new, k, i) =>
         /\ i = Len(new) => AwaitedIn(new[k], a[k], other.tree)
         /\ i < Len(new) /\ new[i + 1].expanded # Null =>
              AwaitedIn(new[k], a[k], new[i + 1].expanded.tree)
  BY <1>2, <1>14, <1>15
<1>17. FramedBy(new, other, a)
  BY <1>3, <1>7, <1>9, <1>10, <1>13, <1>16 DEF FramedBy
<1>18. a[1] = b[1] /\ a \in [DOMAIN new -> Position]
  BY <1>1, <1>3, <1>4
<1>. QED  BY <1>17, <1>18 DEF new, IsFramed

LEMMA FailPreserves ==
  ASSUME IInv, UNCHANGED <<problem, visit>>, FailAssertion
  PROVE  IInv'
<1>1. /\ UNCHANGED <<cursor, calls, returning, captured, problem, visit>>
      /\ status' = "aborted" /\ calls' = calls
  BY DEF FailAssertion
<1>2. CursorInv'
  BY <1>1 DEF IInv, CursorInv
<1>3. WalkInv'
  BY <1>1 DEF IInv, WalkInv
<1>4. CallsInv'
  BY <1>1 DEF IInv, CallsInv
<1>5. FrameInv(Bases)'
  BY <1>1 DEF IInv, FrameInv, Bases
<1>. QED  BY <1>2, <1>3, <1>4, <1>5 DEF IInv

LEMMA NewCall ==
  ASSUME NEW builder, IsShape(builder), \A q \in DOMAIN builder : ~ IsExpandMark(builder[q]),
         NEW expanded
  PROVE  /\ IsCall(CallOf(builder, expanded)) /\ CallOf(builder, expanded).at = << >>
         /\ CallOf(builder, expanded).expanded = expanded
<1>. DEFINE call == CallOf(builder, expanded)
<1>1. /\ call.builder = builder /\ call.at = << >> /\ call.expanded = expanded
      /\ call = [builder |-> call.builder, at |-> call.at, expanded |-> call.expanded]
  BY DEF CallOf
<1>2. << >> \in DOMAIN builder /\ \A p \in DOMAIN builder : p \in Position
  BY ShapeFacts
<1>3. \A p \in DOMAIN builder : IsPrefix(p, << >>) => p = << >>
  BY <1>2, PrefixOrder
<1>. HIDE DEF call
<1>4. IsCall(call)
  BY <1>1, <1>2, <1>3 DEF IsCall
<1>. QED  BY <1>1, <1>4 DEF call

LEMMA SubtreeBuilderFacts ==
  ASSUME NEW tree, IsShape(tree), Unmarked(tree)
  PROVE  /\ IsShape(SubtreeBuilder(tree))
         /\ \A q \in DOMAIN SubtreeBuilder(tree) : ~ IsExpandMark(SubtreeBuilder(tree)[q])
<1>. DEFINE S == SubtreeBuilder(tree)
<1>1. DOMAIN S = DOMAIN tree
  BY DEF SubtreeBuilder
<1>2. ASSUME NEW q \in DOMAIN S PROVE S[q].type = tree[q].type /\ S[q].name = tree[q].name
  BY <1>1, <1>2 DEF SubtreeBuilder, BuilderNode
<1>. HIDE DEF S
<1>3. IsShape(S)
  BY <1>1 DEF IsShape
<1>4. \A q \in DOMAIN S : ~ IsExpandMark(S[q])
  BY <1>1, <1>2 DEF Unmarked, IsExpandMark
<1>. QED  BY <1>3, <1>4 DEF S

LEMMA CallsPushed ==
  ASSUME NEW c, IsStack(c), \A k \in DOMAIN c : IsCall(c[k]), NEW call, IsCall(call)
  PROVE  /\ IsStack(Append(c, call)) /\ Append(c, call) # << >>
         /\ \A k \in DOMAIN Append(c, call) : IsCall(Append(c, call)[k])
<1>. DEFINE new == Append(c, call)
            n == Len(c)
<1>1. n \in Nat
  BY StackFacts
<1>2. /\ IsStack(new) /\ new # << >> /\ Len(new) = n + 1 /\ new[n + 1] = call
      /\ \A k \in 1..n : new[k] = c[k]
  BY StackGrows
<1>3. DOMAIN new = 1..(n + 1) /\ DOMAIN c = 1..n
  BY <1>2, StackFacts
<1>. HIDE DEF new, n
<1>4. ASSUME NEW k \in 1..(n + 1) PROVE IsCall(new[k])
  <2>1. k = n + 1 \/ k \in 1..n
    BY <1>1
  <2>. QED  BY <1>2, <1>3, <2>1
<1>. QED  BY <1>2, <1>3, <1>4 DEF new

LEMMA ExpandablePushed ==
  ASSUME NEW c, IsStack(c), Expandable(c, FALSE), NEW call,
         call.expanded # Null =>
           Placed(call.expanded) /\ MarkedAt(call.expanded) /\ Unmarked(call.expanded.tree)
  PROVE  Expandable(Append(c, call), FALSE)
<1>. DEFINE new == Append(c, call)
            n == Len(c)
<1>1. n \in Nat
  BY StackFacts
<1>2. IsStack(new) /\ Len(new) = n + 1 /\ new[n + 1] = call /\ \A k \in 1..n : new[k] = c[k]
  BY StackGrows
<1>3. DOMAIN new = 1..(n + 1) /\ DOMAIN c = 1..n
  BY <1>2, StackFacts
<1>. HIDE DEF new, n
<1>4. SUFFICES ASSUME NEW k \in 1..(n + 1), new[k].expanded # Null
               PROVE  /\ Placed(new[k].expanded) /\ MarkedAt(new[k].expanded)
                      /\ Unmarked(new[k].expanded.tree)
  BY <1>3 DEF Expandable, new
<1>5. CASE k = n + 1
  BY <1>2, <1>4, <1>5
<1>6. CASE k # n + 1
  <2>1. k \in 1..n /\ new[k] = c[k]
    BY <1>1, <1>2, <1>6
  <2>. QED  BY <1>3, <1>4, <2>1 DEF Expandable
<1>. QED  BY <1>5, <1>6

LEMMA SubtreePreserves ==
  ASSUME IInv, UNCHANGED <<problem, visit>>, EnterSubtree
  PROVE  IInv'
<1>. DEFINE node == captured.grandchild
            builder == SubtreeBuilder(Subtree(node.tree, node.path))
            call == CallOf(builder, Null)
<1>1. /\ calls # << >> /\ ~ returning /\ cursor # Null
      /\ calls' = Append(calls, call)
      /\ UNCHANGED <<status, cursor, returning, captured>>
  BY DEF EnterSubtree, HasType, Entered
<1>2. PICK b : IsFraming(b)
  BY <1>1, Framing
<1>3. Placed(node) /\ Unmarked(node.tree)
  BY DEF IInv, WalkInv
<1>4. IsTree(node.tree) /\ IsShape(node.tree) /\ node.path \in DOMAIN node.tree /\ node.path \in Position
  BY <1>3, PlacedNotNull
<1>5. IsTree(Subtree(node.tree, node.path)) /\ Unmarked(Subtree(node.tree, node.path))
  <2>1. IsPrefix(node.path, node.path)
    BY <1>4, PrefixOrder
  <2>2. \A q \in DOMAIN node.tree : ~ IsExpandMark(node.tree[q])
    BY <1>3 DEF Unmarked
  <2>3. IsTree(Subtree(node.tree, node.path))
    BY <1>4, SubtreeIsTree
  <2>. HIDE DEF node
  <2>. QED  BY <1>4, <2>1, <2>2, <2>3, UnmarkedSubtree
<1>6. IsShape(builder) /\ \A q \in DOMAIN builder : ~ IsExpandMark(builder[q])
  BY <1>5, SubtreeBuilderFacts DEF IsTree
<1>. HIDE DEF builder
<1>7. IsCall(call) /\ call.at = << >> /\ call.expanded = Null
  BY <1>6, NewCall
<1>. HIDE DEF call, node
<1>8. /\ IsStack(calls) /\ Expandable(calls, FALSE) /\ Placed(cursor) /\ MarkedAt(cursor)
      /\ Unmarked(cursor.tree) /\ returning = FALSE
      /\ b \in [DOMAIN calls -> Position] /\ FramedBy(calls, cursor, b)
      /\ \A k \in DOMAIN calls : IsCall(calls[k])
  <2>1. returning = FALSE
    BY <1>1 DEF IInv, WalkInv
  <2>. QED  BY <1>1, <1>2, <2>1, TopFacts
<1>9. cursor.path \in Position
  BY <1>8, PlacedNotNull
<1>10. IsFramed(Append(calls, call), cursor, b[1])
  BY <1>1, <1>7, <1>8, <1>9, FramePushes
<1>11. PICK a \in [DOMAIN calls' -> Position] : FramedBy(calls', cursor', a) /\ a[1] = b[1]
  BY <1>1, <1>10 DEF IsFramed
<1>12. IsStack(calls') /\ calls' # << >> /\ \A k \in DOMAIN calls' : IsCall(calls'[k])
  BY <1>1, <1>7, <1>8, CallsPushed
<1>13. Expandable(calls', returning')
  BY <1>1, <1>7, <1>8, ExpandablePushed
<1>14. problem.op = "merge" => IsPrefix(problem.at, a[1])
  BY <1>2, <1>11 DEF IsFraming
<1>15. /\ Placed(cursor') /\ MarkedAt(cursor') /\ returning' \in BOOLEAN
       /\ ~ returning' => Unmarked(cursor'.tree)
  BY <1>1, <1>8
<1>. QED  BY <1>1, <1>11, <1>12, <1>13, <1>14, <1>15, StackStep

LEMMA ExpandablePops ==
  ASSUME NEW c, IsStack(c), NEW m \in Nat \ {0}, Len(c) = m + 1, NEW ret,
         Expandable(c, ret), NEW other
  PROVE  Expandable(Front(c), other)
<1>. DEFINE new == Front(c)
<1>1. DOMAIN c = 1..(m + 1) /\ c # << >>
  BY StackFacts
<1>2. IsStack(new) /\ Len(new) = m /\ \A k \in 1..m : new[k] = c[k]
  <2>1. IsStack(new) /\ Len(new) = Len(c) - 1 /\ \A k \in 1..(Len(c) - 1) : new[k] = c[k]
    BY <1>1, StackShrinks
  <2>2. Len(c) - 1 = m
    OBVIOUS
  <2>. QED  BY <2>1, <2>2
<1>3. DOMAIN new = 1..m
  BY <1>2, StackFacts
<1>. HIDE DEF new
<1>4. \A k \in 1..m : k \in DOMAIN c /\ k < Len(c)
  BY <1>1
<1>5. ASSUME NEW k \in 1..m, c[k].expanded # Null
      PROVE  Placed(c[k].expanded) /\ MarkedAt(c[k].expanded) /\ Unmarked(c[k].expanded.tree)
  BY <1>4, <1>5 DEF Expandable
<1>6. Expandable(new, other)
  BY <1>2, <1>3, <1>5 DEF Expandable
<1>. QED  BY <1>6 DEF new

LEMMA CallsPopped ==
  ASSUME NEW c, IsStack(c), NEW m \in Nat \ {0}, Len(c) = m + 1,
         \A k \in DOMAIN c : IsCall(c[k])
  PROVE  /\ IsStack(Front(c)) /\ Front(c) # << >>
         /\ \A k \in DOMAIN Front(c) : IsCall(Front(c)[k])
<1>. DEFINE new == Front(c)
<1>1. DOMAIN c = 1..(m + 1) /\ c # << >>
  BY StackFacts
<1>2. IsStack(new) /\ Len(new) = m /\ \A k \in 1..m : new[k] = c[k]
  <2>1. IsStack(new) /\ Len(new) = Len(c) - 1 /\ \A k \in 1..(Len(c) - 1) : new[k] = c[k]
    BY <1>1, StackShrinks
  <2>2. Len(c) - 1 = m
    OBVIOUS
  <2>. QED  BY <2>1, <2>2
<1>. HIDE DEF new
<1>3. DOMAIN new = 1..m /\ new # << >>
  BY <1>2, StackFacts
<1>4. \A k \in 1..m : IsCall(new[k])
  BY <1>1, <1>2
<1>. QED  BY <1>2, <1>3, <1>4 DEF new

LEMMA ReturnFromSubtreePreserves ==
  ASSUME IInv, UNCHANGED <<problem, visit>>, ReturnFromSubtree
  PROVE  IInv'
<1>1. /\ Returned /\ At = << >> /\ Len(calls) > 1 /\ Inner.expanded = Null
      /\ calls' = Front(calls) /\ UNCHANGED <<status, cursor, returning, captured>>
  BY DEF ReturnFromSubtree
<1>2. calls # << >> /\ returning /\ Placed(cursor) /\ Unmarked(cursor.tree)
  BY <1>1, ReturnedFacts
<1>3. PICK b : IsFraming(b)
  BY <1>2, Framing
<1>. DEFINE m == Len(calls) - 1
<1>4. /\ IsStack(calls) /\ Inner = calls[Len(calls)] /\ Expandable(calls, returning)
      /\ b \in [DOMAIN calls -> Position] /\ FramedBy(calls, cursor, b)
      /\ \A k \in DOMAIN calls : IsCall(calls[k])
      /\ MarkedAt(cursor) /\ Len(calls) \in Nat \ {0}
  BY <1>2, <1>3, PlacedNotNull, TopFacts
<1>5. m \in Nat \ {0} /\ Len(calls) = m + 1
  BY <1>1, <1>4
<1>. HIDE DEF m
<1>6. calls[m + 1].expanded = Null /\ calls[m + 1].at = << >>
  BY <1>1, <1>4, <1>5 DEF At
<1>7. IsFramed(Front(calls), cursor, b[1])
  BY <1>4, <1>5, <1>6, FramePops
<1>8. PICK a \in [DOMAIN calls' -> Position] : FramedBy(calls', cursor', a) /\ a[1] = b[1]
  BY <1>1, <1>7 DEF IsFramed
<1>9. IsStack(calls') /\ calls' # << >> /\ \A k \in DOMAIN calls' : IsCall(calls'[k])
  BY <1>1, <1>4, <1>5, CallsPopped
<1>10. Expandable(calls', returning')
  BY <1>1, <1>4, <1>5, ExpandablePops
<1>11. problem.op = "merge" => IsPrefix(problem.at, a[1])
  BY <1>3, <1>8 DEF IsFraming
<1>12. Placed(cursor') /\ MarkedAt(cursor') /\ ~ returning' => Unmarked(cursor'.tree)
  BY <1>1, <1>2, <1>4
<1>13. returning' \in BOOLEAN /\ Placed(cursor') /\ MarkedAt(cursor')
  BY <1>1, <1>2, <1>4 DEF IInv, WalkInv
<1>. QED  BY <1>1, <1>2, <1>8, <1>9, <1>10, <1>11, <1>12, <1>13, StackStep

\* The tree an expansion starts from.
LEMMA NewDomain ==
  ASSUME NEW stmts
  PROVE  LET tree == Over(Statements("domain", stmts), <<LeafTree>>)
         IN  IsTree(tree) /\ Unmarked(tree) /\ <<1>> \in DOMAIN tree
<1>1. /\ IsNode(Statements("domain", stmts)) /\ Statements("domain", stmts).type = "domain"
  BY NewNodes
<1>2. ~ IsExpandMark(Statements("domain", stmts))
  BY <1>1 DEF IsExpandMark
<1>3. IsTree(LeafTree) /\ Unmarked(LeafTree)
  BY LeafIsTree, LeafUnmarked
<1>. DEFINE node == Statements("domain", stmts)
<1>4. IsNode(node) /\ node.type # "leaf" /\ ~ IsExpandMark(node)
  BY <1>1, <1>2
<1>. HIDE DEF node
<1>5. IsTree(Over(node, <<LeafTree>>)) /\ <<1>> \in DOMAIN Over(node, <<LeafTree>>)
  BY <1>3, <1>4, OverOne
<1>6. Unmarked(Over(node, <<LeafTree>>))
  BY <1>3, <1>4, UnmarkedOver
<1>. QED  BY <1>5, <1>6 DEF node

LEMMA ExpansionPreserves ==
  ASSUME IInv, UNCHANGED <<problem, visit>>, EnterExpansion
  PROVE  IInv'
<1>. DEFINE stmts == ExpandedDomain(Current.expands, DomainAt(cursor.tree, cursor.path))
            tree == Over(Statements("domain", stmts), <<LeafTree>>)
            low == Append(At, 1)
            builder == Subtree(Inner.builder, low)
            call == CallOf(builder, cursor)
            n == Len(calls)
<1>1. /\ calls # << >> /\ ~ returning /\ cursor # Null /\ ChildBuilders(At) > 0
      /\ calls' = Append(calls, call) /\ cursor' = Handle(tree, <<1>>)
      /\ UNCHANGED <<status, returning, captured>>
  BY DEF EnterExpansion, HasType, Entered
<1>2. PICK b : IsFraming(b)
  BY <1>1, Framing
<1>3. /\ IsStack(calls) /\ Placed(cursor) /\ MarkedAt(cursor)
      /\ Unmarked(cursor.tree) /\ returning = FALSE
      /\ b \in [DOMAIN calls -> Position] /\ FramedBy(calls, cursor, b)
      /\ \A k \in DOMAIN calls : IsCall(calls[k])
      /\ IsCall(Inner) /\ At \in Position /\ At \in DOMAIN Inner.builder
      /\ IsShape(Inner.builder)
  <2>1. returning = FALSE
    BY <1>1 DEF IInv, WalkInv
  <2>. QED  BY <1>1, <1>2, <2>1, TopFacts
<1>4. Expandable(calls, FALSE)
  BY <1>1, <1>2, <1>3, TopFacts
<1>5. cursor.path \in Position
  BY <1>3, PlacedNotNull
<1>6. low \in DOMAIN Inner.builder /\ low \in Position
  <2>1. /\ NChildren(Inner.builder, At) \in Nat
        /\ \A i \in Nat \ {0} : Append(At, i) \in DOMAIN Inner.builder
                                  <=> i <= NChildren(Inner.builder, At)
    BY <1>3, ChildrenAreNumbered
  <2>2. 1 \in Nat \ {0}
    OBVIOUS
  <2>3. 1 <= NChildren(Inner.builder, At)
    BY <1>1, <2>1 DEF ChildBuilders
  <2>4. low \in DOMAIN Inner.builder
    BY <2>1, <2>2, <2>3
  <2>. QED  BY <1>3, <2>4, ShapeFacts
<1>. HIDE DEF low
<1>7. IsShape(builder) /\ \A q \in DOMAIN builder : ~ IsExpandMark(builder[q])
  <2>1. IsShape(builder)
    BY <1>3, <1>6, SubtreeShape
  <2>2. \A r \in DOMAIN builder : /\ low \o r \in DOMAIN Inner.builder
                                  /\ builder[r] = Inner.builder[low \o r]
    BY <1>3, <1>6, SubtreeFacts
  <2>. HIDE DEF builder
  <2>. QED  BY <1>3, <2>1, <2>2 DEF IsCall
<1>. HIDE DEF builder
<1>8. IsCall(call) /\ call.at = << >> /\ call.expanded = cursor
  BY <1>7, NewCall
<1>. HIDE DEF call, stmts
<1>9. IsTree(tree) /\ Unmarked(tree) /\ <<1>> \in DOMAIN tree
  BY NewDomain
<1>. HIDE DEF tree
<1>10. Placed(cursor') /\ cursor'.tree = tree /\ cursor'.path = <<1>>
  BY <1>1, <1>9, HandleFacts
<1>. DEFINE base == <<1>>
            other == cursor'
<1>11. base \in Position
  <2>1. 1 \in Nat \ {0}
    OBVIOUS
  <2>. QED  BY <2>1 DEF Position
<1>12. call.expanded = cursor /\ cursor # Null /\ other.path = base /\ base = <<1>>
  BY <1>1, <1>8, <1>10
<1>. HIDE DEF base, other
<1>13. IsFramed(Append(calls, call), other, b[1])
  BY <1>1, <1>3, <1>5, <1>8, <1>11, <1>12, FramePushes
<1>14. PICK a \in [DOMAIN calls' -> Position] : FramedBy(calls', cursor', a) /\ a[1] = b[1]
  BY <1>1, <1>13 DEF IsFramed, other
<1>15. IsStack(calls') /\ calls' # << >> /\ \A k \in DOMAIN calls' : IsCall(calls'[k])
  BY <1>1, <1>3, <1>8, CallsPushed
<1>16. Expandable(calls', returning')
  BY <1>1, <1>3, <1>4, <1>8, ExpandablePushed
<1>17. problem.op = "merge" => IsPrefix(problem.at, a[1])
  BY <1>2, <1>14 DEF IsFraming
<1>18. MarkedAt(cursor') /\ Unmarked(cursor'.tree) /\ returning' \in BOOLEAN
  BY <1>1, <1>3, <1>9, <1>10 DEF MarkedAt, Unmarked
<1>. QED  BY <1>1, <1>10, <1>14, <1>15, <1>16, <1>17, <1>18, StackStep

\* The place to expand, as seen by the calls that wait in its tree.
LEMMA AboveExpansion ==
  ASSUME NEW c, IsStack(c), NEW m \in Nat \ {0}, Len(c) = m + 1, NEW cur,
         NEW b \in [DOMAIN c -> Position], FramedBy(c, cur, b),
         \A k \in DOMAIN c : IsCall(c[k]), c[m + 1].expanded # Null,
         NEW k \in 1..m, SameTree(c, k, m)
  PROVE  /\ AwaitedIn(c[k], b[k], c[m + 1].expanded.tree)
         /\ IsPrefix(b[k] \o c[k].at, c[m + 1].expanded.path)
<1>1. m \in Nat \ {0} /\ DOMAIN c = 1..(m + 1) /\ m < Len(c)
  BY StackFacts
<1>2. k \in DOMAIN c /\ m \in DOMAIN c /\ k <= m
  BY <1>1
<1>3. AwaitedIn(c[k], b[k], c[m + 1].expanded.tree)
  BY <1>1, <1>2 DEF FramedBy
<1>. DEFINE j == m + 1
<1>4. j \in DOMAIN c /\ j - 1 = m
  BY <1>1
<1>5. c[m + 1].expanded.path = b[m] \o c[m].at
  <2>1. c[j].expanded # Null
    OBVIOUS
  <2>. HIDE DEF j
  <2>2. c[j].expanded.path = b[j - 1] \o c[j - 1].at
    BY <1>4, <2>1 DEF FramedBy
  <2>. QED  BY <1>4, <2>2 DEF j
<1>6. /\ b[m] \in Position /\ c[m].at \in Position
      /\ b[k] \in Position /\ c[k].at \in Position
  BY <1>2, CallFacts
<1>7. /\ b[m] \o c[m].at \in Position /\ IsPrefix(b[m], b[m] \o c[m].at)
      /\ b[k] \o c[k].at \in Position
  BY <1>6, ConcatPosition
<1>8. IsPrefix(b[k] \o c[k].at, b[m] \o c[m].at)
  <2>1. CASE k = m
    BY <1>7, <2>1, PrefixOrder
  <2>2. CASE k # m
    <3>1. k < m
      BY <1>1, <1>2, <2>2
    <3>2. IsPrefix(b[k] \o c[k].at, b[m])
      BY <1>2, <3>1 DEF FramedBy
    <3>. QED  BY <1>6, <1>7, <3>2, PrefixOrder
  <2>. QED  BY <2>1, <2>2
<1>. QED  BY <1>3, <1>5, <1>8

\* The tree that waits gets its mark.
LEMMA FrameMarks ==
  ASSUME NEW c, IsStack(c), NEW m \in Nat \ {0}, Len(c) = m + 1, NEW cur,
         NEW b \in [DOMAIN c -> Position], FramedBy(c, cur, b),
         c[m + 1].expanded # Null,
         NEW new, IsStack(new), Len(new) = m + 1, \A k \in 1..m : new[k] = c[k],
         new[m + 1].builder = c[m + 1].builder, new[m + 1].at = c[m + 1].at,
         new[m + 1].expanded # Null, new[m + 1].expanded.path = c[m + 1].expanded.path,
         \A k \in 1..m : SameTree(c, k, m) => AwaitedIn(c[k], b[k], new[m + 1].expanded.tree)
  PROVE  FramedBy(new, cur, b)
<1>. DEFINE j == m + 1
<1>1. m \in Nat \ {0} /\ DOMAIN c = 1..j /\ DOMAIN new = 1..j /\ j = m + 1
  BY StackFacts
<1>2. /\ Len(c) = j /\ Len(new) = j /\ c[j].expanded # Null /\ new[j].expanded # Null
      /\ new[j].builder = c[j].builder /\ new[j].at = c[j].at
      /\ new[j].expanded.path = c[j].expanded.path
      /\ \A k \in 1..m : SameTree(c, k, m) => AwaitedIn(c[k], b[k], new[j].expanded.tree)
  OBVIOUS
<1>. HIDE DEF j
<1>3. ASSUME NEW k \in 1..j
      PROVE  /\ new[k].expanded = Null <=> c[k].expanded = Null
             /\ new[k].at = c[k].at /\ new[k].builder = c[k].builder
             /\ new[k].expanded # Null => new[k].expanded.path = c[k].expanded.path
  <2>1. k = j \/ k \in 1..m
    BY <1>1
  <2>. QED  BY <1>2, <2>1
<1>4. ASSUME NEW k \in 1..j, NEW i \in 1..j
      PROVE  SameTree(new, k, i) <=> SameTree(c, k, i)
  BY <1>1, <1>3, <1>4 DEF SameTree
<1>5. ASSUME NEW k \in 1..j, NEW i \in 1..j, k < i, SameTree(new, k, i)
      PROVE  IsPrefix(b[k] \o new[k].at, b[i])
  BY <1>1, <1>3, <1>4, <1>5 DEF FramedBy
<1>6. ASSUME NEW i \in 1..j, i > 1 PROVE i - 1 \in 1..j
  BY <1>1, <1>6
<1>7. ASSUME NEW i \in 1..j, i > 1, new[i].expanded = Null
      PROVE  b[i] = b[i - 1] \o new[i - 1].at
  BY <1>1, <1>3, <1>6, <1>7 DEF FramedBy
<1>8. ASSUME NEW i \in 1..j, new[i].expanded # Null
      PROVE  i > 1 /\ b[i] = <<1>> /\ new[i].expanded.path = b[i - 1] \o new[i - 1].at
  <2>1. i > 1 /\ b[i] = <<1>> /\ c[i].expanded.path = b[i - 1] \o c[i - 1].at
    BY <1>1, <1>3, <1>8 DEF FramedBy
  <2>. QED  BY <1>3, <1>6, <1>8, <2>1
<1>9. cur.path = b[j] \o new[j].at
  <2>1. c # << >>
    BY <1>1, <1>2, StackFacts
  <2>. QED  BY <1>2, <2>1 DEF FramedBy
<1>10. ASSUME NEW k \in 1..j, NEW i \in 1..j, k <= i, SameTree(new, k, i), i = j
       PROVE  AwaitedIn(new[k], b[k], cur.tree)
  <2>1. AwaitedIn(c[k], b[k], cur.tree)
    BY <1>1, <1>2, <1>4, <1>10 DEF FramedBy
  <2>2. new[k].at = c[k].at /\ new[k].builder = c[k].builder
    BY <1>3
  <2>. QED  BY <2>1, <2>2 DEF AwaitedIn
<1>11. ASSUME NEW k \in 1..j, NEW i \in 1..j, k <= i, SameTree(new, k, i),
              i < j, new[i + 1].expanded # Null
       PROVE  AwaitedIn(new[k], b[k], new[i + 1].expanded.tree)
  <2>1. k \in 1..m /\ i \in 1..m /\ i + 1 \in 1..j
    BY <1>1, <1>11
  <2>2. SameTree(c, k, i) /\ new[k] = c[k] /\ c[i + 1].expanded # Null
    BY <1>3, <1>4, <1>11, <2>1
  <2>3. CASE i = m
    <3>1. i + 1 = j
      BY <1>1, <2>3
    <3>. QED  BY <1>2, <2>1, <2>2, <2>3, <3>1
  <2>4. CASE i # m
    <3>1. i + 1 \in 1..m
      BY <1>1, <2>1, <2>4
    <3>2. new[i + 1] = c[i + 1]
      BY <3>1
    <3>. QED  BY <1>1, <1>2, <1>11, <2>2, <3>2 DEF FramedBy
  <2>. QED  BY <2>3, <2>4
<1>12. \A k \in DOMAIN new, i \in DOMAIN new : k <= i /\ SameTree(new, k, i) =>
         /\ i = Len(new) => AwaitedIn(new[k], b[k], cur.tree)
         /\ i < Len(new) /\ new[i + 1].expanded # Null =>
              AwaitedIn(new[k], b[k], new[i + 1].expanded.tree)
  BY <1>1, <1>2, <1>10, <1>11
<1>13. cur.path = b[Len(new)] \o new[Len(new)].at
  BY <1>2, <1>9
<1>. QED  BY <1>1, <1>5, <1>7, <1>8, <1>12, <1>13 DEF FramedBy

LEMMA MarkedGraft ==
  ASSUME NEW tree, IsTree(tree), Unmarked(tree), NEW path \in DOMAIN tree,
         NEW marked, marked = Graft(tree, path, Over(ExpandMark, <<Subtree(tree, path)>>))
  PROVE  /\ IsTree(marked) /\ path \in DOMAIN marked
         /\ \A q \in DOMAIN marked : IsExpandMark(marked[q]) => q = path /\ marked[q] = ExpandMark
<1>1. /\ IsNode(ExpandMark) /\ ExpandMark.type # "leaf"
  BY NewNodes DEF ExpandMark
<1>2. IsShape(tree) /\ path \in Position /\ IsTree(Subtree(tree, path))
  BY SubtreeIsTree, ShapeFacts DEF IsTree
<1>3. Unmarked(Subtree(tree, path))
  BY <1>2, PrefixOrder, UnmarkedSubtree DEF Unmarked
<1>. DEFINE sub == Subtree(tree, path)
            node == ExpandMark
            O == Over(node, <<sub>>)
<1>4. /\ marked = Graft(tree, path, O) /\ IsTree(sub) /\ Unmarked(sub)
      /\ IsNode(node) /\ node.type # "leaf"
  BY <1>1, <1>2, <1>3
<1>. HIDE DEF sub, node
<1>5. /\ IsTree(O) /\ O[<< >>] = node
      /\ \A q \in DOMAIN O : q # << >> => \E r \in DOMAIN sub : O[q] = sub[r]
  <2>1. IsTree(O) /\ O[<< >>] = node
    BY <1>4, OverOne
  <2>2. \A q \in DOMAIN sub : O[<<1>> \o q] = sub[q]
    BY <1>4, OverOne
  <2>3. \A q \in DOMAIN O : q # << >> => \E r \in DOMAIN sub : q = <<1>> \o r
    BY <1>4, OverOne
  <2>. HIDE DEF O
  <2>. QED  BY <2>1, <2>2, <2>3
<1>. HIDE DEF O
<1>6. IsShape(O)
  BY <1>5 DEF IsTree
<1>7. IsTree(marked) /\ path \in DOMAIN marked /\ IsShape(marked)
  <2>1. IsTree(Graft(tree, path, O))
    BY <1>5, GraftIsTree
  <2>2. path \in DOMAIN Graft(tree, path, O)
    BY <1>2, <1>6, GraftFacts
  <2>. QED  BY <1>4, <2>1, <2>2 DEF IsTree
<1>8. ASSUME NEW q \in DOMAIN marked, IsExpandMark(marked[q])
      PROVE  q = path /\ marked[q] = ExpandMark
  <2>1. q \in Position
    BY <1>7, ShapeFacts
  <2>2. CASE ~ IsPrefix(path, q)
    <3>1. q \in DOMAIN tree
      BY <1>2, <1>4, <1>6, <2>1, <2>2, GraftFacts
    <3>2. marked[q] = tree[q]
      BY <1>2, <1>4, <1>6, <2>2, <3>1, GraftFacts
    <3>. QED  BY <1>8, <3>1, <3>2 DEF Unmarked
  <2>3. CASE IsPrefix(path, q)
    <3>. DEFINE r == From(path, q)
    <3>1. r \in Position /\ q = path \o r /\ (r = << >> => q = path)
      BY <1>2, <2>1, <2>3, PrefixFrom
    <3>2. r \in DOMAIN O
      BY <1>2, <1>4, <1>6, <2>1, <2>3, GraftFacts
    <3>. HIDE DEF r
    <3>3. marked[path \o r] = O[r]
      BY <1>2, <1>4, <1>6, <3>2, GraftFacts
    <3>4. CASE r = << >>
      BY <1>5, <3>1, <3>3, <3>4 DEF node
    <3>5. CASE r # << >>
      <4>1. \E s \in DOMAIN sub : O[r] = sub[s]
        BY <1>5, <3>2, <3>5
      <4>. QED  BY <1>4, <1>8, <3>1, <3>3, <4>1 DEF Unmarked
    <3>. QED  BY <3>4, <3>5
  <2>. QED  BY <2>2, <2>3
<1>. QED  BY <1>7, <1>8

IsMarking(c, new, tree) == new = [c EXCEPT ![Len(c)].expanded.tree = tree]
IsMarked(c, new, tree, n) ==
  /\ IsStack(new) /\ new # << >> /\ Len(new) = n
  /\ \A k \in 1..(n - 1) : new[k] = c[k]
  /\ new[n] = [builder |-> c[n].builder, at |-> c[n].at,
               expanded |-> Handle(tree, c[n].expanded.path)]

LEMMA StackMarks ==
  ASSUME NEW c, IsStack(c), NEW n, n = Len(c), c # << >>, IsCall(c[n]), NEW tree, NEW new,
         c[n].expanded = Handle(c[n].expanded.tree, c[n].expanded.path),
         IsMarking(c, new, tree)
  PROVE  IsMarked(c, new, tree, n)
<1>. DEFINE top == c[Len(c)]
            handle == top.expanded
            waiting == [handle EXCEPT !.tree = tree]
            marked == [top EXCEPT !.expanded = waiting]
<1>1. top = [builder |-> top.builder, at |-> top.at, expanded |-> top.expanded]
  BY DEF IsCall
<1>2. handle = [tree |-> handle.tree, path |-> handle.path]
  BY DEF Handle
<1>3. waiting = Handle(tree, handle.path)
  <2>. HIDE DEF handle
  <2>. QED  BY <1>2 DEF Handle
<1>4. IsReplaced(c, new, marked)
  BY DEF IsMarking, IsReplaced
<1>5. marked = [builder |-> top.builder, at |-> top.at, expanded |-> waiting]
  <2>. HIDE DEF top, waiting
  <2>. QED  BY <1>1
<1>. HIDE DEF marked, waiting
<1>6. /\ IsStack(new) /\ new # << >> /\ Len(new) = Len(c) /\ new[Len(c)] = marked
      /\ \A k \in 1..(Len(c) - 1) : new[k] = c[k]
  BY <1>4, StackTop
<1>. QED  BY <1>3, <1>5, <1>6 DEF IsMarked

LEMMA MarkPreserves ==
  ASSUME IInv, UNCHANGED <<problem, visit>>, InsertMark
  PROVE  IInv'
<1>. DEFINE node == Inner.expanded
            path == node.path
            marked == Graft(node.tree, path, Over(ExpandMark, <<Subtree(node.tree, path)>>))
            m == Len(calls) - 1
            n == Len(calls)
<1>1. /\ Returned /\ At = << >> /\ node # Null /\ node.tree[path] # ExpandMark
      /\ calls' = [calls EXCEPT ![Len(calls)].expanded.tree = marked]
      /\ UNCHANGED <<status, cursor, returning, captured>>
  BY DEF InsertMark
<1>2. calls # << >> /\ returning /\ Placed(cursor) /\ Unmarked(cursor.tree)
  BY <1>1, ReturnedFacts
<1>3. PICK b : IsFraming(b)
  BY <1>2, Framing
<1>4. /\ IsStack(calls) /\ Inner = calls[n] /\ Expandable(calls, returning)
      /\ b \in [DOMAIN calls -> Position] /\ FramedBy(calls, cursor, b)
      /\ \A k \in DOMAIN calls : IsCall(calls[k])
      /\ MarkedAt(cursor) /\ n \in Nat \ {0} /\ DOMAIN calls = 1..n /\ IsCall(Inner)
  BY <1>2, <1>3, PlacedNotNull, TopFacts
<1>5. n > 1
  <2>1. n \in DOMAIN calls /\ calls[n].expanded # Null
    BY <1>1, <1>4
  <2>. HIDE DEF n
  <2>. QED  BY <1>4, <2>1 DEF FramedBy
<1>6. m \in Nat \ {0} /\ n = m + 1 /\ n \in DOMAIN calls
  BY <1>4, <1>5
<1>7. Placed(node) /\ MarkedAt(node)
  BY <1>1, <1>4, <1>6 DEF Expandable
<1>8. /\ IsTree(node.tree) /\ path \in DOMAIN node.tree /\ node = Handle(node.tree, path)
      /\ path \in Position
  BY <1>7, PlacedNotNull
<1>9. Unmarked(node.tree)
  BY <1>1, <1>7 DEF MarkedAt, Unmarked
<1>10. /\ IsTree(marked) /\ path \in DOMAIN marked
       /\ \A q \in DOMAIN marked : IsExpandMark(marked[q]) => q = path /\ marked[q] = ExpandMark
  BY <1>8, <1>9, MarkedGraft
<1>11. calls[n] = Inner /\ IsMarking(calls, calls', marked)
  BY <1>1, <1>4 DEF IsMarking
<1>12. \A k \in 1..m : SameTree(calls, k, m) => AwaitedIn(calls[k], b[k], marked)
  <2>1. SUFFICES ASSUME NEW k \in 1..m, SameTree(calls, k, m)
                 PROVE  AwaitedIn(calls[k], b[k], marked)
    OBVIOUS
  <2>2. calls[m + 1].expanded = node /\ calls[m + 1].expanded # Null
    BY <1>1, <1>6, <1>11
  <2>. DEFINE other == node
  <2>3. calls[m + 1].expanded = other /\ other = node
    BY <2>2
  <2>. HIDE DEF m, node, other
  <2>4. AwaitedIn(calls[k], b[k], other.tree) /\ IsPrefix(b[k] \o calls[k].at, other.path)
    BY <1>4, <1>6, <2>1, <2>2, <2>3, AboveExpansion
  <2>5. IsCall(calls[k]) /\ b[k] \in Position
    BY <1>4, <1>6, <2>1
  <2>6. IsTree(Over(ExpandMark, <<Subtree(node.tree, path)>>))
    <3>1. IsNode(ExpandMark) /\ ExpandMark.type # "leaf" /\ IsTree(Subtree(node.tree, path))
      BY <1>8, SubtreeIsTree, NewNodes DEF ExpandMark
    <3>. DEFINE sub == Subtree(node.tree, path)
                mark == ExpandMark
    <3>2. IsNode(mark) /\ mark.type # "leaf" /\ IsTree(sub)
      BY <3>1
    <3>. HIDE DEF sub, mark
    <3>3. IsTree(Over(mark, <<sub>>))
      BY <3>2, OverOne
    <3>. QED  BY <3>3 DEF sub, mark
  <2>7. AwaitedIn(calls[k], b[k], node.tree) /\ IsPrefix(b[k] \o calls[k].at, path)
    BY <2>3, <2>4
  <2>. HIDE DEF path
  <2>. QED  BY <1>8, <2>5, <2>6, <2>7, AwaitedKept
<1>. HIDE DEF marked, m
<1>13. /\ IsStack(calls') /\ calls' # << >> /\ Len(calls') = n
       /\ \A k \in 1..(n - 1) : calls'[k] = calls[k]
       /\ calls'[n] = [builder |-> Inner.builder, at |-> Inner.at,
                       expanded |-> Handle(marked, path)]
  <2>1. calls[n].expanded = Handle(calls[n].expanded.tree, calls[n].expanded.path)
    BY <1>8, <1>11
  <2>2. IsCall(calls[n]) /\ n = Len(calls)
    BY <1>4, <1>6
  <2>3. IsMarked(calls, calls', marked, n)
    <3>1. IsMarking(calls, calls', marked) /\ IsStack(calls)
      BY <1>4, <1>11
    <3>. HIDE DEF n, node
    <3>. QED  BY <1>2, <2>1, <2>2, <3>1, StackMarks
  <2>. QED  BY <1>11, <2>3 DEF IsMarked
<1>14. \A k \in 1..m : calls'[k] = calls[k]
  BY <1>6, <1>13
<1>. DEFINE waiting == calls'[n].expanded
<1>15. /\ calls'[n].builder = Inner.builder /\ calls'[n].at = Inner.at
       /\ waiting = Handle(marked, path)
       /\ calls'[n] = [builder |-> calls'[n].builder, at |-> calls'[n].at,
                       expanded |-> calls'[n].expanded]
  BY <1>13
<1>16. waiting.tree = marked /\ waiting.path = path /\ Placed(waiting) /\ waiting # Null
  BY <1>10, <1>15, HandleFacts
<1>17. MarkedAt(waiting)
  BY <1>10, <1>16 DEF MarkedAt
<1>18. IsCall(calls'[n])
  BY <1>4, <1>15 DEF IsCall
<1>. HIDE DEF waiting, node
<1>19. FramedBy(calls', cursor, b)
  <2>1. calls[m + 1].expanded # Null /\ Len(calls) = m + 1 /\ Len(calls') = m + 1
    BY <1>1, <1>6, <1>11, <1>13 DEF node
  <2>2. /\ calls'[m + 1].builder = calls[m + 1].builder /\ calls'[m + 1].at = calls[m + 1].at
        /\ calls'[m + 1].expanded # Null
        /\ calls'[m + 1].expanded.path = calls[m + 1].expanded.path
        /\ calls'[m + 1].expanded.tree = marked
    BY <1>6, <1>11, <1>15, <1>16 DEF node, waiting
  <2>3. \A k \in 1..m : SameTree(calls, k, m) =>
          AwaitedIn(calls[k], b[k], calls'[m + 1].expanded.tree)
    BY <1>12, <2>2
  <2>. QED  BY <1>4, <1>6, <1>13, <1>14, <2>1, <2>2, <2>3, FrameMarks
<1>20. DOMAIN calls' = 1..n
  BY <1>13, StackFacts
<1>. HIDE DEF n
<1>21. ASSUME NEW k \in 1..n PROVE k = n \/ k \in 1..m
  BY <1>6
<1>22. \A k \in DOMAIN calls' : IsCall(calls'[k])
  BY <1>4, <1>14, <1>18, <1>20, <1>21
<1>23. Expandable(calls', returning')
  <2>1. SUFFICES ASSUME NEW k \in 1..n, calls'[k].expanded # Null
                 PROVE  /\ Placed(calls'[k].expanded) /\ MarkedAt(calls'[k].expanded)
                        /\ k < n \/ ~ returning' \/ calls'[k].at # << >> =>
                             Unmarked(calls'[k].expanded.tree)
    BY <1>13, <1>20 DEF Expandable
  <2>2. CASE k = n
    <3>1. returning' /\ calls'[k].at = << >> /\ ~ k < n
      BY <1>1, <1>2, <1>4, <1>15, <2>2 DEF At
    <3>. QED  BY <1>16, <1>17, <2>2, <3>1 DEF waiting
  <2>3. CASE k # n
    <3>1. k \in 1..m /\ k \in DOMAIN calls /\ k < Len(calls)
      BY <1>4, <1>6, <1>21, <2>3 DEF n
    <3>. QED  BY <1>4, <1>14, <2>1, <3>1 DEF Expandable
  <2>. QED  BY <2>2, <2>3
<1>24. b \in [DOMAIN calls' -> Position]
  BY <1>4, <1>20
<1>25. problem.op = "merge" => IsPrefix(problem.at, b[1])
  BY <1>3 DEF IsFraming
<1>26. cursor' = cursor /\ returning' = TRUE /\ returning' \in BOOLEAN
  <2>1. returning \in BOOLEAN
    BY DEF IInv, WalkInv
  <2>. QED  BY <1>1, <1>2, <2>1
<1>27. /\ UNCHANGED <<status, captured, problem, visit>>
       /\ Placed(cursor') /\ MarkedAt(cursor') /\ returning'
  BY <1>1, <1>2, <1>4, <1>26
<1>. HIDE DEF n, m, marked, path
<1>. QED  BY <1>2, <1>13, <1>19, <1>22, <1>23, <1>24, <1>25, <1>26, <1>27, StackStep

LEMMA FirstOfOne ==
  ASSUME NEW p \in Position, NEW places, places = {p}
  PROVE  DfsFirst(places) = p
<1>1. Precedes(p, p)
  BY PrefixOrder DEF Precedes
<1>2. \E x \in places : \A q \in places : Precedes(x, q)
  BY <1>1
<1>. HIDE DEF Precedes
<1>3. DfsFirst(places) \in places
  BY <1>2 DEF DfsFirst
<1>. QED  BY <1>3

\* The expanded tree has the mark where it was.
LEMMA MarkInExpanded ==
  ASSUME NEW tree, IsTree(tree), NEW path \in DOMAIN tree, tree[path] = ExpandMark,
         \A q \in DOMAIN tree : IsExpandMark(tree[q]) => q = path,
         NEW pairs, NEW sub, IsTree(sub), Unmarked(sub), sub[<< >>].type # "leaf",
         NEW E, E = Expand(tree, pairs, sub)
  PROVE  /\ IsTree(E) /\ DOMAIN tree \subseteq DOMAIN E /\ E[path] = ExpandMark
         /\ \A q \in DOMAIN E : IsExpandMark(E[q]) => q = path
<1>. DEFINE R == ReachedBy(tree, pairs, sub)
<1>1. IsTree(E) /\ DOMAIN tree \subseteq DOMAIN E
  BY ExpandIsTree
<1>2. /\ E = [q \in DOMAIN E |-> E[q]]
      /\ R \subseteq DOMAIN tree /\ DOMAIN tree \subseteq DOMAIN E
      /\ \A q \in DOMAIN E :
           q \in DOMAIN tree \/ \E p \in R : \E r \in DOMAIN sub : r # << >> /\ q = p \o r
      /\ \A q \in R : E[q] = Expansion(pairs)
      /\ \A q \in DOMAIN tree : q \notin R => E[q] = tree[q]
      /\ \A p \in R : \A r \in DOMAIN sub : r # << >> =>
           /\ p \o r \in DOMAIN E /\ p \o r \notin DOMAIN tree
           /\ E[p \o r] = sub[r]
  BY ExpandFacts
<1>3. \A q \in R : tree[q].type = "leaf"
  BY DEF ReachedBy, Leaves
<1>4. ExpandMark.type = "mark" /\ Expansion(pairs).type = "expansion"
  BY NewNodes DEF ExpandMark
<1>. HIDE DEF R
<1>5. E[path] = ExpandMark
  BY <1>2, <1>3, <1>4
<1>6. ASSUME NEW q \in DOMAIN E, IsExpandMark(E[q]) PROVE q = path
  <2>1. CASE q \in R
    BY <1>2, <1>4, <1>6, <2>1 DEF IsExpandMark
  <2>2. CASE q \in DOMAIN tree /\ q \notin R
    BY <1>2, <1>6, <2>2
  <2>3. CASE q \notin DOMAIN tree
    <3>1. PICK p \in R : \E r \in DOMAIN sub : r # << >> /\ q = p \o r
      BY <1>2, <2>3
    <3>2. PICK r \in DOMAIN sub : r # << >> /\ q = p \o r
      BY <3>1
    <3>3. E[p \o r] = sub[r]
      BY <1>2, <3>1, <3>2
    <3>. QED  BY <1>6, <3>2, <3>3 DEF Unmarked
  <2>. QED  BY <2>1, <2>2, <2>3
<1>. QED  BY <1>1, <1>5, <1>6

\* What an expansion finds when it comes back from its subtree.
LEMMA ExpansionFacts ==
  ASSUME IInv, Returned, At = << >>, Inner.expanded # Null, NEW b, IsFraming(b),
         NEW n, n = Len(calls), NEW m, m = Len(calls) - 1, NEW node, node = Inner.expanded
  PROVE  /\ IsStack(calls) /\ Inner = calls[n] /\ Expandable(calls, returning)
         /\ b \in [DOMAIN calls -> Position] /\ FramedBy(calls, cursor, b)
         /\ \A k \in DOMAIN calls : IsCall(calls[k])
         /\ n \in Nat \ {0} /\ DOMAIN calls = 1..n /\ cursor.path = b[n] \o At
         /\ n > 1 /\ b[n] = <<1>> /\ m \in Nat \ {0} /\ n = m + 1 /\ n \in DOMAIN calls
         /\ Placed(node) /\ MarkedAt(node)
         /\ IsTree(node.tree) /\ node.path \in DOMAIN node.tree /\ node.path \in Position
         /\ IsTree(cursor.tree) /\ cursor.tree[<< >>].type # "leaf"
<1>2. calls # << >> /\ Placed(cursor)
  BY ReturnedFacts
<1>4. /\ IsStack(calls) /\ Inner = calls[n] /\ Expandable(calls, returning)
      /\ b \in [DOMAIN calls -> Position] /\ FramedBy(calls, cursor, b)
      /\ \A k \in DOMAIN calls : IsCall(calls[k])
      /\ n \in Nat \ {0} /\ DOMAIN calls = 1..n /\ cursor.path = b[n] \o At
  BY <1>2, TopFacts
<1>5. n > 1 /\ b[n] = <<1>>
  <2>1. n \in DOMAIN calls /\ calls[n].expanded # Null
    BY <1>4
  <2>. QED  BY <1>4, <2>1 DEF FramedBy
<1>6. m \in Nat \ {0} /\ n = m + 1 /\ n \in DOMAIN calls
  BY <1>4, <1>5
<1>7. Placed(node) /\ MarkedAt(node)
  BY <1>4, <1>6 DEF Expandable
<1>8. /\ IsTree(node.tree) /\ node.path \in DOMAIN node.tree /\ node.path \in Position
  BY <1>7, PlacedNotNull
<1>9. IsTree(cursor.tree) /\ cursor.path \in DOMAIN cursor.tree
  BY <1>2, PlacedNotNull
<1>10. cursor.tree[<< >>].type # "leaf"
  <2>1. << >> \in Position /\ 1 \in Nat \ {0}
    BY DEF Position
  <2>2. <<1>> \in Position /\ <<1>> = Append(<< >>, 1)
    BY <2>1, OneConcat
  <2>3. cursor.path = <<1>>
    BY <1>4, <1>5, <2>2, ConcatPosition
  <2>4. Append(<< >>, 1) \in DOMAIN cursor.tree /\ << >> \in DOMAIN cursor.tree
    BY <1>9, <2>2, <2>3, ShapeFacts DEF IsTree
  <2>. QED  BY <1>9, <2>4 DEF IsTree
<1>. QED  BY <1>4, <1>5, <1>6, <1>7, <1>8, <1>9, <1>10

LEMMA ExpandSchedulePreserves ==
  ASSUME IInv, UNCHANGED <<problem, visit>>, ExpandSchedule
  PROVE  IInv'
<1>. DEFINE node == Inner.expanded
            path == node.path
            outer == calls[Len(calls) - 1]
            pairs == outer.builder[outer.at].expands
            tree == Expand(node.tree, pairs, cursor.tree)
            places == {q \in DOMAIN tree : tree[q] = ExpandMark}
            m == Len(calls) - 1
            n == Len(calls)
<1>1. /\ Returned /\ At = << >> /\ node # Null /\ node.tree[path] = ExpandMark
      /\ cursor' = Handle(tree, DfsFirst(places)) /\ calls' = Front(calls)
      /\ UNCHANGED <<status, returning, captured>>
  BY DEF ExpandSchedule
<1>2. calls # << >> /\ returning /\ Placed(cursor) /\ Unmarked(cursor.tree)
  BY <1>1, ReturnedFacts
<1>3. PICK b : IsFraming(b)
  BY <1>2, Framing
<1>4. /\ IsStack(calls) /\ Inner = calls[n] /\ Expandable(calls, returning)
      /\ b \in [DOMAIN calls -> Position] /\ FramedBy(calls, cursor, b)
      /\ \A k \in DOMAIN calls : IsCall(calls[k])
      /\ m \in Nat \ {0} /\ n = m + 1 /\ MarkedAt(node)
      /\ IsTree(node.tree) /\ path \in DOMAIN node.tree /\ path \in Position
      /\ IsTree(cursor.tree) /\ cursor.tree[<< >>].type # "leaf"
  BY <1>1, <1>3, ExpansionFacts
<1>11. \A q \in DOMAIN node.tree : IsExpandMark(node.tree[q]) => q = path
  BY <1>4 DEF MarkedAt
<1>. HIDE DEF path, pairs
<1>12. /\ IsTree(tree) /\ DOMAIN node.tree \subseteq DOMAIN tree /\ tree[path] = ExpandMark
       /\ \A q \in DOMAIN tree : IsExpandMark(tree[q]) => q = path
  BY <1>1, <1>2, <1>4, <1>11, MarkInExpanded
<1>. HIDE DEF tree
<1>13. IsExpandMark(ExpandMark)
  BY NewNodes DEF ExpandMark, IsExpandMark
<1>14. places = {path}
  BY <1>4, <1>12, <1>13
<1>15. DfsFirst(places) = path
  <2>. HIDE DEF places
  <2>. QED  BY <1>4, <1>14, FirstOfOne
<1>16. /\ Placed(cursor') /\ cursor'.tree = tree /\ cursor'.path = path
  BY <1>1, <1>4, <1>12, <1>15, HandleFacts
<1>17. MarkedAt(cursor')
  BY <1>12, <1>16 DEF MarkedAt
<1>18. IsFramed(Front(calls), cursor', b[1])
  <2>1. calls[m + 1] = Inner /\ Len(calls) = m + 1
    BY <1>4
  <2>. DEFINE other == cursor'
  <2>2. /\ calls[m + 1].expanded # Null /\ other.path = calls[m + 1].expanded.path
        /\ DOMAIN calls[m + 1].expanded.tree \subseteq DOMAIN other.tree
    BY <1>1, <1>12, <1>16, <2>1 DEF path
  <2>. HIDE DEF other, m
  <2>3. IsFramed(Front(calls), other, b[1])
    BY <1>4, <2>1, <2>2, FramePops
  <2>. QED  BY <2>3 DEF other
<1>. HIDE DEF m
<1>19. PICK a \in [DOMAIN calls' -> Position] : FramedBy(calls', cursor', a) /\ a[1] = b[1]
  BY <1>1, <1>18 DEF IsFramed
<1>20. IsStack(calls') /\ calls' # << >> /\ \A k \in DOMAIN calls' : IsCall(calls'[k])
  BY <1>1, <1>4, CallsPopped
<1>21. Expandable(calls', returning')
  BY <1>1, <1>4, ExpandablePops
<1>22. problem.op = "merge" => IsPrefix(problem.at, a[1])
  BY <1>3, <1>19 DEF IsFraming
<1>23. returning' \in BOOLEAN /\ returning'
  BY <1>1, <1>2 DEF IInv, WalkInv
<1>. QED  BY <1>1, <1>2, <1>16, <1>17, <1>19, <1>20, <1>21, <1>22, <1>23, StackStep

-----------------------------------------------------------------------------
(* The walk of mergeIfTilable, the call of build or insertAt, and their ends *)

LEMMA EndStep ==
  ASSUME IInv, status' \in {"running", "done", "aborted"},
         UNCHANGED <<cursor, calls, returning, captured, problem, visit>>
  PROVE  IInv'
<1>1. /\ cursor' = cursor /\ calls' = calls /\ returning' = returning
      /\ captured' = captured /\ problem' = problem /\ visit' = visit
  OBVIOUS
<1>2. CursorInv'
  BY <1>1 DEF IInv, CursorInv
<1>3. WalkInv'
  BY <1>1 DEF IInv, WalkInv
<1>4. CallsInv'
  BY <1>1 DEF IInv, CallsInv
<1>5. FrameInv(Bases)'
  BY <1>1 DEF IInv, FrameInv, Bases
<1>. QED  BY <1>2, <1>3, <1>4, <1>5 DEF IInv

\* Without calls there is nothing to frame.
LEMMA NoCalls ==
  ASSUME NEW c, c = << >>, NEW ret, NEW cur
  PROVE  /\ IsStack(c) /\ \A k \in DOMAIN c : IsCall(c[k])
         /\ Expandable(c, ret) /\ \E b \in [DOMAIN c -> Position] : FramedBy(c, cur, b)
<1>1. DOMAIN c = {} /\ c \in Seq(ToSet(c))
  OBVIOUS
<1>2. IsStack(c) /\ Expandable(c, ret)
  BY <1>1 DEF IsStack, Expandable
<1>. DEFINE b == [k \in DOMAIN c |-> << >>]
<1>3. b \in [DOMAIN c -> Position]
  BY <1>1
<1>. HIDE DEF b
<1>4. FramedBy(c, cur, b)
  BY <1>1 DEF FramedBy
<1>. QED  BY <1>1, <1>2, <1>3, <1>4

LEMMA WalkStep ==
  ASSUME IInv, calls = << >>, problem.op = "merge", Placed(cursor), Unmarked(cursor.tree),
         NEW path \in DOMAIN cursor.tree, IsPrefix(problem.at, path),
         cursor' = Handle(cursor.tree, path), visit' \in {"match", "up"},
         UNCHANGED <<status, calls, returning, captured, problem>>
  PROVE  IInv'
<1>1. /\ Placed(cursor') /\ cursor'.tree = cursor.tree /\ cursor'.path = path /\ cursor' # Null
  BY HandleFacts, PlacedNotNull
<1>2. CursorInv'
  BY <1>1 DEF CursorInv, MarkedAt, Unmarked
<1>3. WalkInv'
  BY <1>1 DEF IInv, WalkInv
<1>4. calls' = << >>
  OBVIOUS
<1>5. CallsInv'
  BY <1>4, NoCalls DEF CallsInv
<1>6. FrameInv(Bases)'
  <2>1. \E b \in [DOMAIN calls' -> Position] : FramedBy(calls', cursor', b)
    BY <1>4, NoCalls
  <2>. QED  BY <1>4, <2>1 DEF FrameInv, Bases
<1>. QED  BY <1>2, <1>3, <1>5, <1>6 DEF IInv

\* What holds while mergeIfTilable looks at the tree.
LEMMA WalkFacts ==
  ASSUME IInv, problem.op = "merge", visit # "rebuild"
  PROVE  /\ calls = << >> /\ Placed(cursor) /\ Unmarked(cursor.tree)
         /\ IsTree(cursor.tree) /\ IsShape(cursor.tree)
         /\ cursor.path \in DOMAIN cursor.tree /\ cursor.path \in Position
         /\ cursor = Handle(cursor.tree, cursor.path)
         /\ IsPrefix(problem.at, cursor.path) /\ problem.at \in Position
<1>1. calls = << >> /\ problem \in Problems
  BY DEF IInv, WalkInv
<1>2. cursor # Null
  BY DEF IInv, CursorInv
<1>3. Placed(cursor) /\ Unmarked(cursor.tree) /\ IsPrefix(problem.at, cursor.path)
  BY <1>1, <1>2 DEF IInv, CursorInv, WalkInv
<1>4. problem.at \in Position
  BY <1>1, RewriterAssumption, ShapeFacts DEF IsTree
<1>. QED  BY <1>1, <1>3, <1>4, PlacedNotNull

LEMMA FirstChildPreserves ==
  ASSUME IInv, VisitFirstChild
  PROVE  IInv'
<1>. DEFINE path == Append(cursor.path, 1)
<1>1. /\ problem.op = "merge" /\ visit = "match" /\ NChildren(cursor.tree, cursor.path) > 0
      /\ cursor' = [cursor EXCEPT !.path = Append(@, 1)]
      /\ UNCHANGED <<status, calls, returning, captured, problem, visit>>
  BY DEF VisitFirstChild, Visiting
<1>2. /\ calls = << >> /\ Placed(cursor) /\ Unmarked(cursor.tree)
      /\ IsShape(cursor.tree) /\ cursor.path \in DOMAIN cursor.tree /\ cursor.path \in Position
      /\ cursor = Handle(cursor.tree, cursor.path)
      /\ IsPrefix(problem.at, cursor.path) /\ problem.at \in Position
  BY <1>1, WalkFacts
<1>3. 1 \in Nat \ {0}
  OBVIOUS
<1>4. path \in DOMAIN cursor.tree
  BY <1>1, <1>2, <1>3, ChildrenAreNumbered
<1>5. IsPrefix(problem.at, path)
  BY <1>2, <1>3, PrefixAppend
<1>6. cursor' = Handle(cursor.tree, path)
  <2>1. cursor = [tree |-> cursor.tree, path |-> cursor.path]
    BY <1>2 DEF Handle
  <2>. QED  BY <1>1, <2>1 DEF Handle
<1>. HIDE DEF path
<1>. QED  BY <1>1, <1>2, <1>4, <1>5, <1>6, WalkStep

LEMMA NothingBelowPreserves ==
  ASSUME IInv, NothingBelow
  PROVE  IInv'
<1>1. /\ problem.op = "merge" /\ visit = "match" /\ visit' = "up"
      /\ UNCHANGED <<status, cursor, calls, returning, captured, problem>>
  BY DEF NothingBelow, Visiting
<1>2. /\ calls = << >> /\ Placed(cursor) /\ Unmarked(cursor.tree)
      /\ cursor.path \in DOMAIN cursor.tree
      /\ cursor = Handle(cursor.tree, cursor.path)
      /\ IsPrefix(problem.at, cursor.path)
  BY <1>1, WalkFacts
<1>3. cursor' = Handle(cursor.tree, cursor.path)
  BY <1>1, <1>2
<1>. QED  BY <1>1, <1>2, <1>3, WalkStep

\* Above the cursor is still the place where the walk began.
LEMMA WalkAbove ==
  ASSUME NEW tree, IsShape(tree), NEW path \in DOMAIN tree, NEW at \in Position,
         IsPrefix(at, path), path # at
  PROVE  /\ path # << >> /\ path \in Position /\ Front(path) \in Position
         /\ Front(path) \in DOMAIN tree /\ IsPrefix(at, Front(path))
         /\ Last(path) \in Nat \ {0} /\ Last(path) <= NChildren(tree, Front(path))
<1>1. path \in Position /\ path # << >>
  BY ShapeFacts, PrefixOrder
<1>2. Front(path) \in Position /\ Last(path) \in Nat \ {0} /\ path = Append(Front(path), Last(path))
  BY <1>1, FrontPosition
<1>3. Front(path) \in DOMAIN tree /\ IsPrefix(at, Front(path))
  BY <1>1, ShapeFacts, PrefixFront
<1>4. Last(path) <= NChildren(tree, Front(path))
  BY <1>2, <1>3, ChildrenAreNumbered
<1>. QED  BY <1>1, <1>2, <1>3, <1>4

LEMMA NextChildPreserves ==
  ASSUME IInv, VisitNextChild
  PROVE  IInv'
<1>. DEFINE parent == Front(cursor.path)
            last == Last(cursor.path)
            path == Append(parent, last + 1)
<1>1. /\ problem.op = "merge" /\ visit = "up" /\ visit' = "match"
      /\ cursor.path # problem.at /\ ~ LastChild
      /\ cursor' = [cursor EXCEPT !.path = path]
      /\ UNCHANGED <<status, calls, returning, captured, problem>>
  BY DEF VisitNextChild, Visiting
<1>2. /\ calls = << >> /\ Placed(cursor) /\ Unmarked(cursor.tree)
      /\ IsShape(cursor.tree) /\ cursor.path \in DOMAIN cursor.tree
      /\ cursor = Handle(cursor.tree, cursor.path)
      /\ IsPrefix(problem.at, cursor.path) /\ problem.at \in Position
  BY <1>1, WalkFacts
<1>3. /\ parent \in Position /\ parent \in DOMAIN cursor.tree /\ IsPrefix(problem.at, parent)
      /\ last \in Nat \ {0} /\ last <= NChildren(cursor.tree, parent)
  BY <1>1, <1>2, WalkAbove
<1>4. last # NChildren(cursor.tree, parent)
  BY <1>1 DEF LastChild
<1>. HIDE DEF last, parent
<1>5. NChildren(cursor.tree, parent) \in Nat
  BY <1>2, <1>3, ChildrenAreNumbered
<1>6. last + 1 \in Nat \ {0} /\ last + 1 <= NChildren(cursor.tree, parent)
  BY <1>3, <1>4, <1>5
<1>7. path \in DOMAIN cursor.tree
  BY <1>2, <1>3, <1>6, ChildrenAreNumbered
<1>8. IsPrefix(problem.at, path)
  BY <1>2, <1>3, <1>6, PrefixAppend
<1>. HIDE DEF path
<1>9. cursor' = Handle(cursor.tree, path)
  <2>1. cursor = [tree |-> cursor.tree, path |-> cursor.path]
    BY <1>2 DEF Handle
  <2>. QED  BY <1>1, <2>1 DEF Handle
<1>. QED  BY <1>1, <1>2, <1>7, <1>8, <1>9, WalkStep

LEMMA ReturnToCallerPreserves ==
  ASSUME IInv, ReturnToCaller
  PROVE  IInv'
<1>. DEFINE path == Front(cursor.path)
<1>1. /\ problem.op = "merge" /\ visit = "up" /\ cursor.path # problem.at
      /\ cursor' = [cursor EXCEPT !.path = path]
      /\ UNCHANGED <<status, calls, returning, captured, problem, visit>>
  BY DEF ReturnToCaller, Visiting
<1>2. /\ calls = << >> /\ Placed(cursor) /\ Unmarked(cursor.tree)
      /\ IsShape(cursor.tree) /\ cursor.path \in DOMAIN cursor.tree
      /\ cursor = Handle(cursor.tree, cursor.path)
      /\ IsPrefix(problem.at, cursor.path) /\ problem.at \in Position
  BY <1>1, WalkFacts
<1>3. path \in DOMAIN cursor.tree /\ IsPrefix(problem.at, path)
  BY <1>1, <1>2, WalkAbove
<1>. HIDE DEF path
<1>4. cursor' = Handle(cursor.tree, path)
  <2>1. cursor = [tree |-> cursor.tree, path |-> cursor.path]
    BY <1>2 DEF Handle
  <2>. QED  BY <1>1, <2>1 DEF Handle
<1>. QED  BY <1>1, <1>2, <1>3, <1>4, WalkStep

LEMMA MatchAgainPreserves ==
  ASSUME IInv, MatchAgain
  PROVE  IInv'
<1>1. /\ Returned /\ At = << >> /\ Len(calls) = 1 /\ problem.op = "merge"
      /\ calls' = << >> /\ visit' = "match"
      /\ UNCHANGED <<status, cursor, returning, captured, problem>>
  BY DEF MatchAgain, BuilderReturns, Visiting
<1>2. calls # << >> /\ Placed(cursor) /\ Unmarked(cursor.tree)
  BY <1>1, ReturnedFacts
<1>3. PICK b : IsFraming(b)
  BY <1>2, Framing
<1>4. cursor.path = b[Len(calls)] \o At /\ b[Len(calls)] \in Position
  BY <1>2, <1>3, TopFacts
<1>5. cursor.path = b[1]
  BY <1>1, <1>4, ConcatPosition
<1>6. IsPrefix(problem.at, cursor.path)
  BY <1>1, <1>3, <1>5 DEF IsFraming
<1>7. CursorInv'
  BY <1>1, <1>2, PlacedNotNull DEF CursorInv, MarkedAt, Unmarked
<1>8. WalkInv'
  BY <1>1, <1>6 DEF IInv, WalkInv
<1>9. CallsInv'
  BY <1>1, NoCalls DEF CallsInv
<1>10. FrameInv(Bases)'
  <2>1. \E a \in [DOMAIN calls' -> Position] : FramedBy(calls', cursor', a)
    BY <1>1, NoCalls
  <2>. QED  BY <1>1, <2>1 DEF FrameInv, Bases
<1>. QED  BY <1>7, <1>8, <1>9, <1>10 DEF IInv

\* A call on its own.
LEMMA FirstCall ==
  ASSUME NEW call, IsCall(call), call.at = << >>, call.expanded = Null,
         NEW c, c = <<call>>, NEW cur, cur.path \in Position, NEW ret
  PROVE  /\ IsStack(c) /\ c # << >> /\ Len(c) = 1 /\ c[1] = call
         /\ \A k \in DOMAIN c : IsCall(c[k])
         /\ Expandable(c, ret) /\ IsFramed(c, cur, cur.path)
<1>1. c \in Seq({call}) /\ Len(c) = 1 /\ DOMAIN c = {1} /\ c[1] = call
  OBVIOUS
<1>2. IsStack(c) /\ c # << >>
  BY <1>1, StackOf
<1>3. Expandable(c, ret)
  BY <1>1 DEF Expandable
<1>. DEFINE b == [k \in {1} |-> cur.path]
<1>4. b \in [{1} -> Position] /\ b[1] = cur.path
  OBVIOUS
<1>. HIDE DEF b
<1>5. cur.path = b[1] \o call.at
  BY <1>4, ConcatPosition
<1>6. AwaitedIn(call, b[1], cur.tree)
  <2>1. \A p \in DOMAIN call.builder : IsPrefix(p, << >>) => p = << >>
    BY CallFacts, ShapeFacts, PrefixOrder
  <2>. QED  BY <2>1 DEF AwaitedIn
<1>7. FramedBy(c, cur, b)
  <2>1. \A k \in DOMAIN c, i \in DOMAIN c : k = 1 /\ i = 1 /\ ~ k < i /\ ~ i > 1 /\ ~ i < Len(c)
    BY <1>1
  <2>2. c[1].expanded = Null /\ c[1].at = call.at /\ cur.path = b[Len(c)] \o c[Len(c)].at
    BY <1>1, <1>5
  <2>3. AwaitedIn(c[1], b[1], cur.tree)
    BY <1>1, <1>6
  <2>. QED  BY <2>1, <2>2, <2>3 DEF FramedBy
<1>8. IsFramed(c, cur, cur.path)
  BY <1>1, <1>4, <1>7 DEF IsFramed
<1>. QED  BY <1>1, <1>2, <1>3, <1>8

LEMMA MergerFacts ==
  IsShape(Merger) /\ \A q \in DOMAIN Merger : ~ IsExpandMark(Merger[q])
<1>. DEFINE band == BuilderNode(NodeOf("band"), "merged")
            leaf == BuilderNode(NodeOf("leaf"), "subtree")
            none == << >>
            low == Over(leaf, none)
            one == <<low>>
            M == Over(band, one)
<1>1. Merger = M
  BY DEF Merger
<1>2. ~ IsExpandMark(band) /\ ~ IsExpandMark(leaf)
  BY NewNodes DEF IsExpandMark, BuilderNode
<1>. HIDE DEF band, leaf
<1>. DEFINE zero == 0
<1>3. zero \in Nat /\ DOMAIN none = 1..zero /\ \A i \in 1..zero : IsShape(none[i])
  OBVIOUS
<1>4. IsShape(low)
  <2>. HIDE DEF none, zero
  <2>. QED  BY <1>3, OverShape
<1>5. /\ \A q \in DOMAIN low : q = << >>
      /\ low[<< >>] = leaf
  <2>. HIDE DEF none, zero
  <2>1. \A q \in DOMAIN low : q # << >> => Head(q) \in 1..zero
    BY <1>3, OverFacts
  <2>2. low[<< >>] = leaf
    BY <1>3, OverFacts
  <2>. HIDE DEF low
  <2>. QED  BY <2>1, <2>2 DEF zero
<1>. HIDE DEF low
<1>. DEFINE k == 1
<1>6. k \in Nat /\ DOMAIN one = 1..k /\ \A i \in 1..k : one[i] = low /\ IsShape(one[i])
  BY <1>4
<1>. HIDE DEF one, k
<1>7. IsShape(M)
  BY <1>6, OverShape
<1>8. /\ M[<< >>] = band
      /\ \A q \in DOMAIN M : q \in Position
      /\ \A q \in DOMAIN M : q # << >> => Head(q) \in 1..k /\ Tail(q) \in DOMAIN one[Head(q)]
  BY <1>6, OverFacts
<1>9. ASSUME NEW q \in DOMAIN M PROVE ~ IsExpandMark(M[q])
  <2>1. CASE q = << >>
    BY <1>2, <1>8, <2>1
  <2>2. CASE q # << >>
    <3>. DEFINE i == Head(q)
                r == Tail(q)
    <3>1. i \in 1..k /\ r \in DOMAIN one[i] /\ q = <<i>> \o r
      BY <1>8, <2>2, HeadPosition
    <3>. HIDE DEF i, r
    <3>2. IsCopied(M, one, i, r)
      BY <1>6, <3>1, OverChild
    <3>3. M[q] = one[i][r]
      BY <3>1, <3>2 DEF IsCopied
    <3>4. one[i] = low
      BY <1>6, <3>1
    <3>. QED  BY <1>2, <1>5, <3>1, <3>3, <3>4
  <2>. QED  BY <2>1, <2>2
<1>. HIDE DEF M
<1>. QED  BY <1>1, <1>7, <1>9

\* A call that starts at a cursor.
LEMMA StartStep ==
  ASSUME NEW call, IsCall(call), call.at = << >>, call.expanded = Null,
         calls' = <<call>>, Placed(cursor'), Unmarked(cursor'.tree), returning' = FALSE,
         status' = "running", visit' = "rebuild", problem' \in Problems,
         Placed(captured'.grandchild), Unmarked(captured'.grandchild.tree),
         IsPrefix(problem'.at, cursor'.path)
  PROVE  IInv'
<1>1. cursor' # Null /\ cursor'.path \in Position
  BY PlacedNotNull
<1>2. /\ IsStack(calls') /\ calls' # << >> /\ \A k \in DOMAIN calls' : IsCall(calls'[k])
      /\ Expandable(calls', returning') /\ IsFramed(calls', cursor', cursor'.path)
  <2>. DEFINE c == calls'
              cur == cursor'
              ret == returning'
  <2>1. c = <<call>> /\ cur.path \in Position
    BY <1>1
  <2>. HIDE DEF c, cur, ret
  <2>2. /\ IsStack(c) /\ c # << >> /\ \A k \in DOMAIN c : IsCall(c[k])
        /\ Expandable(c, ret) /\ IsFramed(c, cur, cur.path)
    BY <2>1, FirstCall
  <2>. QED  BY <2>2 DEF c, cur, ret
<1>3. CursorInv'
  BY <1>1 DEF CursorInv, MarkedAt, Unmarked
<1>4. WalkInv'
  BY <1>2 DEF WalkInv
<1>5. CallsInv'
  BY <1>2 DEF CallsInv
<1>6. FrameInv(Bases)'
  <2>1. PICK a \in [DOMAIN calls' -> Position] :
          FramedBy(calls', cursor', a) /\ a[1] = cursor'.path
    BY <1>2 DEF IsFramed
  <2>2. problem'.op = "merge" => IsPrefix(problem'.at, a[1])
    BY <2>1
  <2>. QED  BY <2>1, <2>2 DEF FrameInv, Bases
<1>. QED  BY <1>3, <1>4, <1>5, <1>6 DEF IInv

LEMMA MatchAndCutPreserves ==
  ASSUME IInv, MatchAndCut
  PROVE  IInv'
<1>. DEFINE path == cursor.path
            low == Append(path, 1)
            lower == Append(low, 1)
            call == CallOf(Merger, Null)
            cut == Graft(cursor.tree, path, LeafTree)
<1>1. /\ problem.op = "merge" /\ visit = "match" /\ status = "running" /\ IsMatching(cursor)
      /\ captured' = [parent |-> cursor, child |-> Handle(cursor.tree, path \o <<1>>),
                      grandchild |-> Handle(cursor.tree, path \o <<1, 1>>)]
      /\ cursor' = Handle(cut, path) /\ calls' = <<call>> /\ returning' = FALSE
      /\ visit' = "rebuild" /\ status' = status /\ problem' = problem
  BY DEF MatchAndCut, Visiting, Cut
<1>2. /\ Placed(cursor) /\ Unmarked(cursor.tree) /\ IsTree(cursor.tree) /\ IsShape(cursor.tree)
      /\ path \in DOMAIN cursor.tree /\ path \in Position
      /\ IsPrefix(problem.at, path)
  BY <1>1, WalkFacts
<1>3. 1 \in Nat \ {0}
  OBVIOUS
<1>4. cursor.tree[path].type = "band" /\ cursor.tree[low].type = "band"
  BY <1>1 DEF IsMatching
<1>5. low \in DOMAIN cursor.tree /\ low \in Position
  BY <1>2, <1>3, <1>4, AppendPosition DEF IsTree
<1>6. lower \in DOMAIN cursor.tree
  <2>. HIDE DEF low
  <2>. QED  BY <1>2, <1>4, <1>5 DEF IsTree
<1>7. path \o <<1, 1>> = lower
  BY <1>2, <1>3, TwoBelow
<1>. DEFINE grandchild == Handle(cursor.tree, lower)
<1>8. captured'.grandchild = grandchild
  BY <1>1, <1>7
<1>. HIDE DEF lower, low
<1>9. Placed(grandchild) /\ Unmarked(grandchild.tree)
  BY <1>2, <1>6, HandleFacts
<1>. HIDE DEF grandchild
<1>10. /\ IsTree(LeafTree) /\ Unmarked(LeafTree) /\ IsShape(LeafTree)
  BY LeafIsTree, LeafUnmarked DEF IsTree
<1>11. IsTree(cut) /\ path \in DOMAIN cut
  BY <1>2, <1>10, GraftIsTree, GraftFacts
<1>12. Unmarked(cut)
  <2>1. \A q \in DOMAIN cursor.tree : ~ IsPrefix(path, q) => ~ IsExpandMark(cursor.tree[q])
    BY <1>2 DEF Unmarked
  <2>. HIDE DEF path
  <2>. QED  BY <1>2, <1>10, <2>1, UnmarkedGraft
<1>. HIDE DEF cut
<1>13. Placed(cursor') /\ cursor'.tree = cut /\ cursor'.path = path
  BY <1>1, <1>11, HandleFacts
<1>14. IsCall(call) /\ call.at = << >> /\ call.expanded = Null
  BY MergerFacts, NewCall
<1>15. problem \in Problems
  BY DEF IInv, WalkInv
<1>. HIDE DEF call, path
<1>. QED  BY <1>1, <1>2, <1>8, <1>9, <1>12, <1>13, <1>14, <1>15, StartStep

\* Dropping the children a copied context loses leaves the shape of a tree.
LEMMA ConstructedFacts ==
  ASSUME NEW expression, IsShape(expression),
         \A q \in DOMAIN expression : ~ IsExpandMark(expression[q])
  PROVE  /\ IsShape(Constructed(expression))
         /\ \A q \in DOMAIN Constructed(expression) :
              ~ IsExpandMark(Constructed(expression)[q])
<1>. DEFINE lost(q) == \E k \in 0..(Len(q) - 2) : LosesChild(expression[SubSeq(q, 1, k)])
            kept == {q \in DOMAIN expression : ~ lost(q)}
            C == Constructed(expression)
<1>1. DOMAIN C = kept
  BY DEF Constructed
<1>2. ASSUME NEW q \in kept PROVE ~ IsExpandMark(C[q])
  <2>1. C[q] = IF Len(q) > 0 /\ LosesChild(expression[Front(q)])
                 THEN BuilderNode(NodeOf("leaf"), "value") ELSE expression[q]
    BY DEF Constructed
  <2>2. ~ IsExpandMark(BuilderNode(NodeOf("leaf"), "value"))
    BY NewNodes DEF IsExpandMark, BuilderNode
  <2>. HIDE DEF C
  <2>3. CASE Len(q) > 0 /\ LosesChild(expression[Front(q)])
    BY <2>1, <2>2, <2>3
  <2>4. CASE ~ (Len(q) > 0 /\ LosesChild(expression[Front(q)]))
    BY <2>1, <2>4
  <2>. QED  BY <2>3, <2>4
<1>. HIDE DEF C
<1>3. /\ IsFiniteSet(DOMAIN expression) /\ << >> \in DOMAIN expression
      /\ \A q \in DOMAIN expression : q \in Position
  BY ShapeFacts
<1>4. IsFiniteSet(kept)
  BY <1>3, FS_Subset
<1>5. << >> \in kept
  <2>1. 0..(Len(<< >>) - 2) = {}
    OBVIOUS
  <2>. QED  BY <1>3, <2>1
\* As far as the nodes above the parent go, the positions agree.
<1>6. ASSUME NEW q \in Position, q # << >>, NEW i \in Nat \ {0},
             lost(Front(q)) \/ lost(Append(Front(q), i))
      PROVE  lost(q)
  <2>. DEFINE f == Front(q)
              s == Append(f, i)
  <2>1. /\ f \in Position /\ Len(f) = Len(q) - 1 /\ Len(q) \in Nat \ {0}
        /\ \A j \in 1..(Len(q) - 1) : f[j] = q[j]
    BY <1>6, FrontPosition
  <2>. HIDE DEF f
  <2>2. s \in Position /\ Len(s) = Len(q) /\ \A j \in 1..(Len(q) - 1) : s[j] = q[j]
    BY <2>1, AppendPosition DEF Position
  <2>. HIDE DEF s
  <2>3. ASSUME NEW p \in Position, NEW k \in 0..(Len(q) - 2), k <= Len(p),
               \A j \in 1..(Len(q) - 1) : p[j] = q[j]
        PROVE  SubSeq(p, 1, k) = SubSeq(q, 1, k)
    <3>1. k \in Nat /\ k <= Len(q) - 1
      BY <2>1
    <3>2. \A j \in 1..k : j \in 1..(Len(q) - 1) /\ p[j] = q[j]
      BY <2>1, <2>3, <3>1
    <3>. QED  BY <2>1, <2>3, <3>1, <3>2 DEF Position
  <2>4. CASE lost(f)
    <3>1. PICK k \in 0..(Len(f) - 2) : LosesChild(expression[SubSeq(f, 1, k)])
      BY <2>4
    <3>2. k \in 0..(Len(q) - 2) /\ k <= Len(f)
      BY <2>1
    <3>3. SubSeq(f, 1, k) = SubSeq(q, 1, k)
      BY <2>1, <2>3, <3>2
    <3>. QED  BY <3>1, <3>2, <3>3
  <2>5. CASE lost(s)
    <3>1. PICK k \in 0..(Len(s) - 2) : LosesChild(expression[SubSeq(s, 1, k)])
      BY <2>5
    <3>2. k \in 0..(Len(q) - 2) /\ k <= Len(s)
      BY <2>1, <2>2
    <3>3. SubSeq(s, 1, k) = SubSeq(q, 1, k)
      BY <2>2, <2>3, <3>2
    <3>. QED  BY <3>1, <3>2, <3>3
  <2>. QED  BY <1>6, <2>4, <2>5 DEF f, s
<1>. HIDE DEF lost
<1>7. ASSUME NEW q \in kept, q # << >>
      PROVE  Front(q) \in kept /\ \A i \in 1..Last(q) : Append(Front(q), i) \in kept
  <2>1. q \in Position /\ q \in DOMAIN expression /\ ~ lost(q)
    BY <1>3
  <2>2. /\ Front(q) \in DOMAIN expression
        /\ \A i \in 1..Last(q) : Append(Front(q), i) \in DOMAIN expression
    BY <1>7, <2>1, ShapeFacts
  <2>3. 1 \in Nat \ {0} /\ Last(q) \in Nat \ {0}
    BY <1>7, <2>1, FrontPosition
  <2>4. ~ lost(Front(q))
    BY <1>6, <1>7, <2>1, <2>3
  <2>5. ASSUME NEW i \in 1..Last(q) PROVE ~ lost(Append(Front(q), i))
    <3>1. i \in Nat \ {0}
      BY <2>3
    <3>. QED  BY <1>6, <1>7, <2>1, <3>1
  <2>. QED  BY <2>2, <2>4, <2>5
<1>8. IsShape(C)
  <2>1. \A q \in kept : q \in Position
    BY <1>3
  <2>. HIDE DEF kept
  <2>. QED  BY <1>1, <1>4, <1>5, <1>7, <2>1 DEF IsShape
<1>. QED  BY <1>1, <1>2, <1>8 DEF C

LEMMA StartFacts ==
  ASSUME problem \in Problems
  PROVE  /\ Placed(Start) /\ Unmarked(Start.tree) /\ Start.path = problem.at
         /\ problem.at \in Position /\ Start # Null
<1>1. /\ IsTree(problem.tree) /\ problem.at \in DOMAIN problem.tree
      /\ \A q \in DOMAIN problem.tree : ~ IsExpandMark(problem.tree[q])
  BY RewriterAssumption
<1>2. /\ Placed(Start) /\ Start # Null /\ Start.path = problem.at /\ Start.tree = problem.tree
  BY <1>1, HandleFacts DEF Start
<1>3. problem.at \in Position
  BY <1>1, ShapeFacts DEF IsTree
<1>. QED  BY <1>1, <1>2, <1>3 DEF Unmarked

\* The call that is made holds the invariant before its first step.
LEMMA InitInv == Init => IInv
<1>. SUFFICES ASSUME Init PROVE IInv
  OBVIOUS
<1>1. /\ problem \in Problems /\ status = "running" /\ returning = FALSE
      /\ captured.grandchild = Start
      /\ cursor = (IF problem.op = "build" THEN Null ELSE Start)
      /\ calls = (IF problem.op = "merge" THEN << >>
                  ELSE <<CallOf(Constructed(problem.expression), Null)>>)
      /\ visit = (IF problem.op = "merge" THEN "match" ELSE "rebuild")
  BY DEF Init
<1>2. /\ Placed(Start) /\ Unmarked(Start.tree) /\ Start.path = problem.at
      /\ problem.at \in Position /\ Start # Null
  BY <1>1, StartFacts
<1>3. /\ IsShape(problem.expression)
      /\ \A q \in DOMAIN problem.expression : ~ IsExpandMark(problem.expression[q])
  BY <1>1, RewriterAssumption DEF IsDescription
<1>4. CASE problem.op = "merge"
  <2>1. cursor = Start /\ calls = << >> /\ visit = "match"
    BY <1>1, <1>4
  <2>2. CursorInv
    BY <1>2, <2>1 DEF CursorInv, MarkedAt, Unmarked
  <2>3. IsPrefix(problem.at, cursor.path)
    BY <1>2, <2>1, PrefixOrder
  <2>4. WalkInv
    BY <1>1, <1>2, <1>4, <2>1, <2>3 DEF WalkInv
  <2>5. CallsInv
    BY <2>1, NoCalls DEF CallsInv
  <2>6. FrameInv(Bases)
    <3>1. \E b \in [DOMAIN calls -> Position] : FramedBy(calls, cursor, b)
      BY <2>1, NoCalls
    <3>. QED  BY <2>1, <3>1 DEF FrameInv, Bases
  <2>. QED  BY <2>2, <2>4, <2>5, <2>6 DEF IInv
<1>5. CASE problem.op # "merge"
  <2>. DEFINE call == CallOf(Constructed(problem.expression), Null)
  <2>1. calls = <<call>> /\ visit = "rebuild"
    BY <1>1, <1>5
  <2>2. IsCall(call) /\ call.at = << >> /\ call.expanded = Null
    BY <1>3, ConstructedFacts, NewCall
  <2>. HIDE DEF call
  <2>3. cursor.path \in Position
    <3>1. Null.path = << >> /\ << >> \in Position
      BY DEF Null, Handle, Position
    <3>. QED  BY <1>1, <1>2, <3>1
  <2>4. /\ IsStack(calls) /\ calls # << >> /\ Len(calls) = 1 /\ calls[1] = call
        /\ \A k \in DOMAIN calls : IsCall(calls[k])
        /\ Expandable(calls, returning) /\ IsFramed(calls, cursor, cursor.path)
    BY <2>1, <2>2, <2>3, FirstCall
  <2>5. CursorInv
    <3>1. CASE problem.op = "build"
      <4>1. cursor = Null
        BY <1>1, <3>1
      <4>. QED  BY <1>1, <2>2, <2>4, <3>1, <4>1 DEF CursorInv
    <3>2. CASE problem.op # "build"
      <4>1. cursor = Start
        BY <1>1, <3>2
      <4>. QED  BY <1>2, <4>1 DEF CursorInv, MarkedAt, Unmarked
    <3>. QED  BY <3>1, <3>2
  <2>6. WalkInv
    BY <1>1, <1>2, <1>5, <2>1, <2>4 DEF WalkInv
  <2>7. CallsInv
    BY <2>4 DEF CallsInv
  <2>8. FrameInv(Bases)
    BY <1>5, <2>4 DEF FrameInv, Bases, IsFramed
  <2>. QED  BY <2>5, <2>6, <2>7, <2>8 DEF IInv
<1>. QED  BY <1>4, <1>5

LEMMA BuildStepPreserves ==
  ASSUME IInv, BuildStep
  PROVE  IInv'
<1>1. InsertAtStep /\ UNCHANGED <<problem, visit>>
  BY DEF BuildStep
<1>2. CASE InsertDomain
  BY <1>1, <1>2, DomainPreserves
<1>3. CASE InsertBand \/ InsertFilter \/ InsertNamed \/ InsertExtension
  BY <1>1, <1>3, InsertionPreserves
<1>4. CASE InsertSequenceOrSet
  BY <1>1, <1>4, SeveralPreserves
<1>5. CASE StayAtLeaf
  BY <1>1, <1>5, LeafPreserves
<1>6. CASE EnterSubtree
  BY <1>1, <1>6, SubtreePreserves
<1>7. CASE FailAssertion
  BY <1>1, <1>7, FailPreserves
<1>8. CASE EnterExpansion
  BY <1>1, <1>8, ExpansionPreserves
<1>9. CASE InsertMark
  BY <1>1, <1>9, MarkPreserves
<1>10. CASE ExpandSchedule
  BY <1>1, <1>10, ExpandSchedulePreserves
<1>11. CASE DeleteMark
  BY <1>1, <1>11, DeletePreserves
<1>12. CASE ReturnToSequence
  BY <1>1, <1>12, ReturnToSequencePreserves
<1>13. CASE ReturnToParent
  BY <1>1, <1>13, ReturnToParentPreserves
<1>14. CASE ReturnFromSubtree
  BY <1>1, <1>14, ReturnFromSubtreePreserves
<1>. QED  BY <1>1, <1>2, <1>3, <1>4, <1>5, <1>6, <1>7, <1>8, <1>9, <1>10, <1>11, <1>12,
             <1>13, <1>14 DEF InsertAtStep

LEMMA StutterPreserves ==
  ASSUME IInv, UNCHANGED vars
  PROVE  IInv'
<1>1. /\ UNCHANGED <<cursor, calls, returning, captured, problem, visit>>
      /\ status' = status
  BY DEF vars, builderVars
<1>2. status' \in {"running", "done", "aborted"}
  BY <1>1 DEF IInv, WalkInv
<1>. QED  BY <1>1, <1>2, EndStep

LEMMA NextPreserves == IInv /\ [Next]_vars => IInv'
<1>. SUFFICES ASSUME IInv, [Next]_vars PROVE IInv'
  OBVIOUS
<1>1. CASE BuildStep
  BY <1>1, BuildStepPreserves
<1>2. CASE FinishBuild
  BY <1>2, EndStep DEF FinishBuild
<1>3. CASE MatchAndCut
  BY <1>3, MatchAndCutPreserves
<1>4. CASE MatchAgain
  BY <1>4, MatchAgainPreserves
<1>5. CASE VisitFirstChild
  BY <1>5, FirstChildPreserves
<1>6. CASE NothingBelow
  BY <1>6, NothingBelowPreserves
<1>7. CASE VisitNextChild
  BY <1>7, NextChildPreserves
<1>8. CASE ReturnToCaller
  BY <1>8, ReturnToCallerPreserves
<1>9. CASE FinishMerge
  BY <1>9, EndStep DEF FinishMerge
<1>10. CASE UNCHANGED vars
  BY <1>10, StutterPreserves
<1>. QED  BY <1>1, <1>2, <1>3, <1>4, <1>5, <1>6, <1>7, <1>8, <1>9, <1>10 DEF Next

\* Whatever is built, inserted or merged, in a tree of any shape: the cursor is
\* at a node of its tree and each call at a node of its builder, in all of the
\* recursion of insertAt and after all of it.
THEOREM TypeCorrect == Spec => []TypeOK
<1>1. IInv => TypeOK
  <2>. SUFFICES ASSUME IInv PROVE TypeOK
    OBVIOUS
  <2>1. status \in {"running", "done", "aborted"} /\ visit \in {"match", "rebuild", "up"}
        /\ returning \in BOOLEAN
    BY DEF IInv, WalkInv
  <2>2. cursor # Null => cursor.path \in DOMAIN cursor.tree
    BY DEF IInv, CursorInv, Placed
  <2>3. \A k \in DOMAIN calls : calls[k].at \in DOMAIN calls[k].builder
    BY DEF IInv, CallsInv, IsCall
  <2>. QED  BY <2>1, <2>2, <2>3 DEF TypeOK
<1>. QED  BY <1>1, InitInv, NextPreserves, PTL DEF Spec

-----------------------------------------------------------------------------
(* Where the tree changes *)

Local(node, cur) ==
  \A q \in DOMAIN node.tree \ Below(node.tree, node.path) :
    q \in DOMAIN cur.tree /\ cur.tree[q] = node.tree[q]

LEMMA GraftIsLocal ==
  ASSUME NEW node, NEW cur, NEW sub, cur.tree = Graft(node.tree, node.path, sub)
  PROVE  Local(node, cur)
<1>. DEFINE kept == DOMAIN node.tree \ Below(node.tree, node.path)
            all == kept \cup {node.path \o r : r \in DOMAIN sub}
            G == [q \in all |-> IF q \in kept THEN node.tree[q] ELSE sub[From(node.path, q)]]
<1>1. cur.tree = G
  BY DEF Graft
<1>2. \A q \in kept : q \in all
  OBVIOUS
<1>. HIDE DEF all, kept
<1>3. \A q \in kept : q \in DOMAIN G /\ G[q] = node.tree[q]
  BY <1>2
<1>. HIDE DEF G
<1>. QED  BY <1>1, <1>3 DEF Local, kept

LEMMA SameIsLocal ==
  ASSUME NEW node, NEW cur, cur.tree = node.tree
  PROVE  Local(node, cur)
BY DEF Local

LEMMA LocalStep ==
  ASSUME ~ (Len(calls') < Len(calls) /\ Inner.expanded # Null),
         cursor # Null => Local(cursor, cursor')
  PROVE  StepIsLocal
BY DEF StepIsLocal, Local

\* The leaves of the schedule that an expansion reaches are below the node it is
\* for: no other statement is contracted to get a statement of its subtree.
ReachesOnlyBelow ==
  LET node == Inner.expanded
      outer == calls[Len(calls) - 1]
  IN  \A q \in ReachedBy(node.tree, outer.builder[outer.at].expands, cursor.tree) :
        IsPrefix(node.path, q)

LEMMA GoToKeeps ==
  ASSUME IInv, calls # << >>, NEW at, GoTo(at)
  PROVE  Len(calls') = Len(calls)
<1>1. /\ IsStack(calls) /\ IsCall(calls[Len(calls)])
  <2>1. PICK b : IsFraming(b)
    BY Framing
  <2>. QED  BY <2>1, TopFacts
<1>2. IsUpdate(calls, calls', at)
  BY DEF GoTo, IsUpdate
<1>3. IsMoved(calls, calls', at)
  BY <1>1, <1>2, StackMoves
<1>. QED  BY <1>3 DEF IsMoved

LEMMA NotShorter ==
  ASSUME IInv, Len(calls') = Len(calls)
  PROVE  ~ (Len(calls') < Len(calls))
BY StackFacts DEF IInv, CallsInv

LEMMA InsertedIsLocal ==
  ASSUME IInv, calls # << >>, NEW tree, NEW path, InsertedAt(tree, path),
         NEW sub, cursor # Null => tree = Graft(cursor.tree, cursor.path, sub)
  PROVE  StepIsLocal
<1>1. cursor'.tree = tree
  BY DEF InsertedAt
<1>2. Len(calls') = Len(calls)
  <2>1. calls' = calls \/ GoTo(Append(At, 1))
    BY DEF InsertedAt
  <2>. QED  BY <2>1, GoToKeeps
<1>3. cursor # Null => Local(cursor, cursor')
  <2>1. SUFFICES ASSUME cursor # Null PROVE Local(cursor, cursor')
    OBVIOUS
  <2>. DEFINE cur == cursor'
              node == cursor
  <2>2. cur.tree = Graft(node.tree, node.path, sub)
    BY <1>1, <2>1
  <2>. HIDE DEF cur, node
  <2>3. Local(node, cur)
    BY <2>2, GraftIsLocal
  <2>. QED  BY <2>3 DEF cur, node
<1>. QED  BY <1>2, <1>3, NotShorter, LocalStep

LEMMA VisitIsLocal ==
  ASSUME IInv, calls # << >>, NEW at, NEW path, NEW tree, NEW i,
         VisitChildren(at, path, tree, i), cursor # Null,
         tree = cursor.tree \/ \E sub : tree = Graft(cursor.tree, cursor.path, sub)
  PROVE  StepIsLocal
<1>1. cursor'.tree = tree /\ \E to : GoTo(to)
  BY DEF VisitChildren
<1>2. Len(calls') = Len(calls)
  BY <1>1, GoToKeeps
<1>. DEFINE cur == cursor'
            node == cursor
<1>3. cur.tree = tree
  BY <1>1
<1>4. node.tree = tree \/ \E sub : tree = Graft(node.tree, node.path, sub)
  OBVIOUS
<1>. HIDE DEF cur, node
<1>5. Local(node, cur)
  BY <1>3, <1>4, GraftIsLocal, SameIsLocal
<1>6. Local(cursor, cursor')
  BY <1>5 DEF cur, node
<1>. QED  BY <1>2, <1>6, NotShorter, LocalStep

LEMMA UnchangedIsLocal ==
  ASSUME IInv, cursor'.tree = cursor.tree, Len(calls') = Len(calls) \/ Inner.expanded = Null
  PROVE  StepIsLocal
<1>. DEFINE cur == cursor'
            node == cursor
<1>1. cur.tree = node.tree
  OBVIOUS
<1>. HIDE DEF cur, node
<1>2. Local(node, cur)
  BY <1>1, SameIsLocal
<1>3. Local(cursor, cursor')
  BY <1>2 DEF cur, node
<1>. QED  BY <1>3, NotShorter, LocalStep

LEMMA InsertAtIsLocal ==
  ASSUME IInv, InsertAtStep, ~ ExpandSchedule
  PROVE  StepIsLocal
<1>1. CASE InsertDomain
  <2>1. /\ calls # << >> /\ cursor = Null
        /\ InsertedAt(Over(Statements("domain", Current.stmts), <<LeafTree>>), << >>)
    BY <1>1 DEF InsertDomain, HasType, Entered
  <2>. QED  BY <2>1, InsertedIsLocal
<1>2. CASE InsertBand \/ InsertFilter \/ InsertNamed \/ InsertExtension
  <2>1. calls # << >> /\ \E sub : InsertHere(sub)
    BY <1>2 DEF InsertBand, InsertFilter, InsertNamed, InsertExtension, HasType, Entered
  <2>2. PICK sub : InsertHere(sub)
    BY <2>1
  <2>. DEFINE tree == Graft(cursor.tree, cursor.path, sub)
  <2>3. InsertedAt(tree, cursor.path) /\ tree = Graft(cursor.tree, cursor.path, sub)
    BY <2>2 DEF InsertHere
  <2>. HIDE DEF tree
  <2>. QED  BY <2>1, <2>3, InsertedIsLocal
<1>3. CASE InsertSequenceOrSet
  <2>. DEFINE children == [i \in DOMAIN ChildFilters |-> FilterOver(ChildFilters[i].stmts, Here)]
              sub == Over(NodeOf(Current.type), children)
              tree == Graft(cursor.tree, cursor.path, sub)
              one == 1
  <2>1. calls # << >> /\ cursor # Null /\ VisitChildren(At, cursor.path, tree, one)
    BY <1>3 DEF InsertSequenceOrSet, HasType, Entered
  <2>2. \E s : tree = Graft(cursor.tree, cursor.path, s)
    OBVIOUS
  <2>. HIDE DEF tree, one
  <2>. QED  BY <2>1, <2>2, VisitIsLocal
<1>4. CASE StayAtLeaf \/ FailAssertion
  <2>1. cursor' = cursor /\ calls' = calls
    BY <1>4 DEF StayAtLeaf, FailAssertion
  <2>. QED  BY <2>1, UnchangedIsLocal
<1>5. CASE EnterSubtree
  <2>1. cursor' = cursor /\ calls # << >> /\ \E call : calls' = Append(calls, call)
    BY <1>5 DEF EnterSubtree, HasType, Entered
  <2>2. ~ (Len(calls') < Len(calls))
    <3>1. IsStack(calls) /\ Len(calls) \in Nat
      BY StackFacts DEF IInv, CallsInv
    <3>. QED  BY <2>1, <3>1, StackGrows
  <2>3. Local(cursor, cursor')
    BY <2>1 DEF Local
  <2>. QED  BY <2>2, <2>3, LocalStep
<1>6. CASE EnterExpansion
  <2>1. /\ cursor # Null
        /\ \E builder : calls' = Append(calls, CallOf(builder, cursor))
    BY <1>6 DEF EnterExpansion, HasType, Entered
  <2>2. PICK builder : calls' = Append(calls, CallOf(builder, cursor))
    BY <2>1
  <2>. DEFINE call == CallOf(builder, cursor)
  <2>3. call.expanded # Null
    BY <2>1 DEF CallOf
  <2>4. IsStack(calls) /\ Len(calls) \in Nat
    BY StackFacts DEF IInv, CallsInv
  <2>5. calls' = Append(calls, call)
    BY <2>2
  <2>. HIDE DEF call
  <2>6. /\ IsStack(calls') /\ calls' # << >> /\ Len(calls') = Len(calls) + 1
        /\ calls'[Len(calls) + 1] = call
    BY <2>4, <2>5, StackGrows
  <2>7. Last(calls') = call
    BY <2>6 DEF Last
  <2>. QED  BY <2>3, <2>4, <2>6, <2>7 DEF StepIsLocal
<1>7. CASE InsertMark
  <2>. DEFINE n == Len(calls)
  <2>1. /\ Returned /\ cursor' = cursor
        /\ \E tree : calls' = [calls EXCEPT ![Len(calls)].expanded.tree = tree]
    BY <1>7 DEF InsertMark
  <2>2. IsStack(calls) /\ calls # << >>
    BY <2>1, ReturnedFacts DEF IInv, CallsInv
  <2>3. \E top : IsReplaced(calls, calls', top)
    BY <2>1 DEF IsReplaced
  <2>4. Len(calls') = Len(calls)
    BY <2>2, <2>3, StackTop
  <2>. QED  BY <2>1, <2>4, UnchangedIsLocal
<1>8. CASE DeleteMark
  <2>. DEFINE path == cursor.path
              sub == Subtree(cursor.tree, Append(path, 1))
              tree == Graft(cursor.tree, path, sub)
  <2>1. calls' = calls /\ cursor # Null /\ cursor' = [cursor EXCEPT !.tree = tree]
    BY <1>8 DEF DeleteMark, AtMark, Delete
  <2>2. cursor = [tree |-> cursor.tree, path |-> cursor.path]
    BY <2>1, PlacedNotNull DEF IInv, CursorInv, Handle
  <2>. DEFINE cur == cursor'
              node == cursor
  <2>3. cur.tree = Graft(node.tree, node.path, sub)
    <3>. HIDE DEF sub
    <3>1. cursor'.tree = tree
      BY <2>1, <2>2
    <3>. QED  BY <3>1
  <2>. HIDE DEF cur, node, sub
  <2>4. Local(node, cur)
    BY <2>3, GraftIsLocal
  <2>5. Len(calls') = Len(calls)
    BY <2>1
  <2>. QED  BY <2>4, <2>5, NotShorter, LocalStep DEF cur, node
<1>9. CASE ReturnToSequence
  <2>. DEFINE tree == cursor.tree
  <2>1. Returned /\ \E at, path, i : VisitChildren(at, path, tree, i)
    BY <1>9 DEF ReturnToSequence
  <2>2. calls # << >> /\ cursor # Null
    BY <2>1, ReturnedFacts, PlacedNotNull
  <2>3. tree = cursor.tree
    OBVIOUS
  <2>. HIDE DEF tree
  <2>. QED  BY <2>1, <2>2, <2>3, VisitIsLocal
<1>10. CASE ReturnToParent
  <2>1. Returned /\ cursor' = [cursor EXCEPT !.path = Front(@)] /\ GoTo(Front(At))
    BY <1>10 DEF ReturnToParent
  <2>2. calls # << >> /\ cursor = [tree |-> cursor.tree, path |-> cursor.path]
    BY <2>1, ReturnedFacts, PlacedNotNull DEF Handle
  <2>3. cursor'.tree = cursor.tree
    BY <2>1, <2>2
  <2>. QED  BY <2>1, <2>2, <2>3, GoToKeeps, UnchangedIsLocal
<1>11. CASE ReturnFromSubtree
  <2>1. cursor' = cursor /\ Inner.expanded = Null
    BY <1>11 DEF ReturnFromSubtree
  <2>. QED  BY <2>1, UnchangedIsLocal
<1>. QED  BY <1>1, <1>2, <1>3, <1>4, <1>5, <1>6, <1>7, <1>8, <1>9, <1>10, <1>11 DEF InsertAtStep

LEMMA ExpandIsLocal ==
  ASSUME IInv, ExpandSchedule, ReachesOnlyBelow
  PROVE  StepIsLocal
<1>. DEFINE node == Inner.expanded
            outer == calls[Len(calls) - 1]
            pairs == outer.builder[outer.at].expands
            tree == Expand(node.tree, pairs, cursor.tree)
            R == ReachedBy(node.tree, pairs, cursor.tree)
            n == Len(calls)
            m == n - 1
            sub == cursor.tree
            whole == node.tree
            place == node.path
<1>1. /\ Returned /\ At = << >> /\ node # Null
      /\ cursor' = Handle(tree, DfsFirst({q \in DOMAIN tree : tree[q] = ExpandMark}))
      /\ calls' = Front(calls)
  BY DEF ExpandSchedule
<1>2. PICK b : IsFraming(b)
  BY <1>1, ReturnedFacts, Framing
<1>3. /\ IsStack(calls) /\ n \in Nat \ {0} /\ IsTree(whole) /\ IsTree(sub)
      /\ sub[<< >>].type # "leaf"
  BY <1>1, <1>2, ExpansionFacts
<1>4. Len(calls') = n - 1 /\ n - 1 < n /\ ~ (n - 1 > n)
  <2>1. calls # << >> /\ IsStack(calls)
    BY <1>1, <1>3 DEF Returned
  <2>2. Len(Front(calls)) = n - 1
    BY <2>1, StackShrinks
  <2>3. Len(calls') = n - 1
    BY <1>1, <2>2
  <2>4. n \in Nat
    BY <1>3
  <2>. HIDE DEF n
  <2>. QED  BY <2>3, <2>4
<1>5. cursor'.tree = tree
  BY <1>1 DEF Handle
<1>6. \A q \in R : IsPrefix(place, q)
  BY DEF ReachesOnlyBelow
<1>. HIDE DEF pairs, sub, whole, place
<1>7. /\ DOMAIN whole \subseteq DOMAIN tree
      /\ \A q \in DOMAIN whole : q \notin R => tree[q] = whole[q]
  <2>. DEFINE E == Expand(whole, pairs, sub)
              S == ReachedBy(whole, pairs, sub)
  <2>1. /\ E = [q \in DOMAIN E |-> E[q]]
        /\ S \subseteq DOMAIN whole /\ DOMAIN whole \subseteq DOMAIN E
        /\ \A q \in DOMAIN E :
             q \in DOMAIN whole \/ \E p \in S : \E r \in DOMAIN sub : r # << >> /\ q = p \o r
        /\ \A q \in S : E[q] = Expansion(pairs)
        /\ \A q \in DOMAIN whole : q \notin S => E[q] = whole[q]
        /\ \A p \in S : \A r \in DOMAIN sub : r # << >> =>
             /\ p \o r \in DOMAIN E /\ p \o r \notin DOMAIN whole
             /\ E[p \o r] = sub[r]
    BY <1>3, ExpandFacts
  <2>2. E = tree /\ S = R
    BY DEF sub, whole
  <2>. HIDE DEF E, S, tree, R
  <2>. QED  BY <2>1, <2>2
<1>. HIDE DEF tree, R
<1>8. \A q \in DOMAIN whole \ Below(whole, place) : q \in DOMAIN tree /\ tree[q] = whole[q]
  BY <1>6, <1>7 DEF Below
<1>9. Local(node, cursor')
  BY <1>5, <1>8 DEF Local, whole, place
<1>10. Len(calls') < Len(calls) /\ ~ (Len(calls') > Len(calls))
  BY <1>3, <1>4
<1>. HIDE DEF n
<1>. QED  BY <1>1, <1>9, <1>10 DEF StepIsLocal, Local

LEMMA WalkIsLocal ==
  ASSUME IInv, VisitFirstChild \/ NothingBelow \/ VisitNextChild \/ ReturnToCaller
  PROVE  StepIsLocal
<1>1. problem.op = "merge" /\ visit # "rebuild" /\ calls' = calls
  BY DEF VisitFirstChild, NothingBelow, VisitNextChild, ReturnToCaller, Visiting
<1>2. cursor = [tree |-> cursor.tree, path |-> cursor.path]
  BY <1>1, WalkFacts DEF Handle
<1>3. cursor' = cursor \/ \E path : cursor' = [cursor EXCEPT !.path = path]
  BY DEF VisitFirstChild, NothingBelow, VisitNextChild, ReturnToCaller
<1>4. cursor'.tree = cursor.tree
  BY <1>2, <1>3
<1>. QED  BY <1>1, <1>4, UnchangedIsLocal

LEMMA MatchAndCutIsLocal ==
  ASSUME IInv, MatchAndCut
  PROVE  StepIsLocal
<1>1. /\ problem.op = "merge" /\ visit = "match"
      /\ cursor' = Handle(Cut(cursor), cursor.path) /\ calls' = <<CallOf(Merger, Null)>>
  BY DEF MatchAndCut, Visiting
<1>2. calls = << >>
  BY <1>1, WalkFacts
<1>3. Len(calls') = 1 /\ Len(calls) = 0
  BY <1>1, <1>2
<1>. DEFINE cur == cursor'
            node == cursor
            sub == LeafTree
<1>4. cur.tree = Graft(node.tree, node.path, sub)
  <2>1. cursor'.tree = Cut(cursor)
    BY <1>1 DEF Handle
  <2>. QED  BY <2>1 DEF Cut
<1>. HIDE DEF cur, node, sub
<1>5. Local(node, cur)
  BY <1>4, GraftIsLocal
<1>6. ~ (Len(calls') < Len(calls))
  BY <1>3
<1>. QED  BY <1>5, <1>6, LocalStep DEF cur, node

LEMMA MatchAgainIsLocal ==
  ASSUME IInv, MatchAgain
  PROVE  StepIsLocal
<1>1. Returned /\ cursor' = cursor /\ Len(calls) = 1
  BY DEF MatchAgain, BuilderReturns
<1>2. calls # << >>
  BY <1>1, ReturnedFacts
<1>3. PICK b : IsFraming(b)
  BY <1>2, Framing
<1>4. FramedBy(calls, cursor, b) /\ Inner = calls[1] /\ DOMAIN calls = 1..1
  BY <1>1, <1>2, <1>3, TopFacts
<1>5. Inner.expanded = Null
  BY <1>4 DEF FramedBy
<1>. QED  BY <1>1, <1>5, UnchangedIsLocal

LEMMA OtherStepIsLocal ==
  ASSUME IInv, cursor' = cursor, calls' = calls
  PROVE  StepIsLocal
BY UnchangedIsLocal

LEMMA NextIsLocal ==
  ASSUME IInv, [Next]_vars, ExpandSchedule => ReachesOnlyBelow
  PROVE  StepIsLocal
<1>1. CASE BuildStep
  <2>1. InsertAtStep
    BY <1>1 DEF BuildStep
  <2>2. CASE ExpandSchedule
    BY <2>2, ExpandIsLocal
  <2>3. CASE ~ ExpandSchedule
    BY <2>1, <2>3, InsertAtIsLocal
  <2>. QED  BY <2>2, <2>3
<1>2. CASE FinishBuild \/ FinishMerge \/ UNCHANGED vars
  <2>1. cursor' = cursor /\ calls' = calls
    BY <1>2 DEF FinishBuild, FinishMerge, vars, builderVars
  <2>. QED  BY <2>1, OtherStepIsLocal
<1>3. CASE MatchAndCut
  BY <1>3, MatchAndCutIsLocal
<1>4. CASE MatchAgain
  BY <1>4, MatchAgainIsLocal
<1>5. CASE VisitFirstChild \/ NothingBelow \/ VisitNextChild \/ ReturnToCaller
  BY <1>5, WalkIsLocal
<1>. QED  BY <1>1, <1>2, <1>3, <1>4, <1>5 DEF Next

\* Insertion, removal of the mark, cutting and the walk leave every node outside
\* the subtree at the cursor as it is.  For the expansion of a whole schedule the
\* theorem says what it takes: the leaves it reaches are below its own node.
THEOREM ChangesStayBelow ==
  Spec /\ [][ExpandSchedule => ReachesOnlyBelow]_vars => ChangesAreLocal
<1>1. IInv /\ [Next]_vars /\ [ExpandSchedule => ReachesOnlyBelow]_vars => [StepIsLocal]_vars
  BY NextIsLocal
<1>2. Spec => []IInv
  BY InitInv, NextPreserves, PTL DEF Spec
<1>. QED  BY <1>1, <1>2, PTL DEF Spec, ChangesAreLocal

-----------------------------------------------------------------------------
(* Descriptions that can be built, node by node *)

\* What IsProper asks for at one node of a builder, put at the root of the call
\* or not, as far as insertAt looks when it comes to that node.
Fine(p, builder, q, root) ==
  LET node == builder[q]
      n == NChildren(builder, q)
  IN  /\ node.type \in SeveralTypes =>
           /\ n > 0
           /\ \A i \in 1..n : /\ builder[Append(q, i)].type = "filter"
                              /\ NChildren(builder, Append(q, i)) <= 1
      /\ node.type \notin SeveralTypes => n <= 1
      /\ node.type = "leaf" => n = 0
      /\ node.type = "expansion" => n = 1 /\ ~ IsIdentity(node.expands)
      /\ node.type = "domain" <=> root /\ q = << >>
      /\ node.from = "subtree" => p.at # << >>
AllFine(p, builder, root) == \A q \in DOMAIN builder : Fine(p, builder, q, root)

\* The children of a node as a set, and as they are numbered.
LEMMA ChildrenFacts ==
  ASSUME NEW tree, IsShape(tree), NEW p \in DOMAIN tree
  PROVE  /\ \A c \in Children(tree, p) :
              \E i \in 1..NChildren(tree, p) : c = Append(p, i)
         /\ \A i \in 1..NChildren(tree, p) : Append(p, i) \in Children(tree, p)
         /\ Children(tree, p) = {} <=> NChildren(tree, p) = 0
<1>. DEFINE n == NChildren(tree, p)
<1>1. p \in Position /\ n \in Nat
      /\ \A i \in Nat \ {0} : Append(p, i) \in DOMAIN tree <=> i <= n
  BY ShapeFacts, ChildrenAreNumbered
<1>2. ASSUME NEW c \in Children(tree, p)
      PROVE  \E i \in 1..n : c = Append(p, i)
  <2>1. c \in DOMAIN tree /\ Len(c) = Len(p) + 1 /\ IsPrefix(p, c)
    BY <1>2 DEF Children
  <2>2. c \in Position
    BY <2>1, ShapeFacts
  <2>3. c # p /\ c # << >>
    BY <1>1, <2>1 DEF Position
  <2>. DEFINE i == c[Len(p) + 1]
  <2>4. i \in Nat \ {0} /\ IsPrefix(Append(p, i), c)
    BY <1>1, <2>1, <2>2, <2>3, NextBelow
  <2>. HIDE DEF i
  <2>5. Append(p, i) \in Position /\ Len(Append(p, i)) = Len(c)
    BY <1>1, <2>1, <2>4, AppendPosition
  <2>6. c = Append(p, i)
    <3>. DEFINE a == Append(p, i)
    <3>1. a \in Position /\ Len(a) = Len(c) /\ IsPrefix(a, c)
      BY <2>4, <2>5
    <3>. HIDE DEF a
    <3>2. \A k \in 1..Len(a) : a[k] = c[k]
      BY <2>2, <3>1, PrefixEntries
    <3>3. a = c
      BY <2>2, <3>1, <3>2 DEF Position
    <3>. QED  BY <3>3 DEF a
  <2>7. i <= n
    BY <1>1, <2>1, <2>4, <2>6
  <2>. QED  BY <1>1, <2>4, <2>6, <2>7
<1>3. ASSUME NEW i \in 1..n
      PROVE  Append(p, i) \in Children(tree, p)
  <2>1. i \in Nat \ {0} /\ Append(p, i) \in DOMAIN tree
    BY <1>1, <1>3
  <2>2. Len(Append(p, i)) = Len(p) + 1 /\ IsPrefix(p, Append(p, i))
    BY <1>1, <2>1, AppendPosition, PrefixAppend
  <2>. QED  BY <2>1, <2>2 DEF Children
<1>4. Children(tree, p) = {} <=> n = 0
  <2>. HIDE DEF n
  <2>. QED  BY <1>1, <1>2, <1>3
<1>. QED  BY <1>2, <1>3, <1>4

\* Nodes with the same children have as many.
LEMMA SameCount ==
  ASSUME NEW one, IsShape(one), NEW p \in DOMAIN one, NEW two, IsShape(two),
         NEW q \in DOMAIN two,
         \A i \in Nat \ {0} : Append(p, i) \in DOMAIN one <=> Append(q, i) \in DOMAIN two
  PROVE  NChildren(one, p) = NChildren(two, q)
<1>. DEFINE m == NChildren(one, p)
            n == NChildren(two, q)
<1>1. /\ m \in Nat /\ n \in Nat
      /\ \A i \in Nat \ {0} : Append(p, i) \in DOMAIN one <=> i <= m
      /\ \A i \in Nat \ {0} : Append(q, i) \in DOMAIN two <=> i <= n
  BY ChildrenAreNumbered
<1>. HIDE DEF m, n
<1>2. \A i \in Nat \ {0} : i <= m <=> i <= n
  BY <1>1
<1>3. ~ m < n
  <2>1. SUFFICES ASSUME m < n PROVE FALSE
    OBVIOUS
  <2>2. n \in Nat \ {0} /\ ~ n <= m
    BY <1>1, <2>1
  <2>. QED  BY <1>2, <2>2
<1>4. ~ n < m
  <2>1. SUFFICES ASSUME n < m PROVE FALSE
    OBVIOUS
  <2>2. m \in Nat \ {0} /\ ~ m <= n
    BY <1>1, <2>1
  <2>. QED  BY <1>2, <2>2
<1>5. m = n
  BY <1>1, <1>3, <1>4
<1>. QED  BY <1>5 DEF m, n

LEMMA SeveralOrNot ==
  /\ \A type \in SingleChildTypes : type \notin SeveralTypes /\ type # "leaf" /\ type # "expansion"
  /\ "leaf" \notin SeveralTypes /\ "expansion" \notin SeveralTypes
  /\ "domain" \in SingleChildTypes /\ "filter" \in SingleChildTypes
  /\ \A type \in NodeTypes : type \in SingleChildTypes \/ type \in SeveralTypes
                             \/ type = "leaf" \/ type = "expansion"
BY DEF SingleChildTypes, SeveralTypes, NodeTypes

\* A description is proper exactly if all of its nodes are fine.
LEMMA ProperIsFine ==
  ASSUME IsShape(problem.expression), IsOrdinary(problem.expression)
  PROVE  IsProper(problem.expression)
           <=> AllFine(problem, problem.expression, problem.op = "build")
<1>. DEFINE e == problem.expression
            n(q) == NChildren(e, q)
            root == problem.op = "build"
<1>0. \A q \in DOMAIN e : n(q) \in Nat /\ q \in Position
  BY ShapeFacts, ChildrenAreNumbered
<1>1. ASSUME NEW q \in DOMAIN e, NEW i \in 1..n(q)
      PROVE  Append(q, i) \in DOMAIN e /\ Append(q, i) # << >>
  <2>1. i \in Nat \ {0} /\ i <= n(q) /\ q \in Position
    BY <1>0, <1>1
  <2>. QED  BY <2>1, AppendPosition, ChildrenAreNumbered
<1>2. ASSUME IsProper(e), NEW q \in DOMAIN e PROVE Fine(problem, e, q, root)
  <2>. DEFINE node == e[q]
  <2>1. /\ node.type \in SeveralTypes =>
             /\ Children(e, q) # {}
             /\ \A c \in Children(e, q) : e[c].type = "filter"
        /\ node.type = "leaf" => Children(e, q) = {}
        /\ node.type = "expansion" => Children(e, q) # {} /\ ~ IsIdentity(node.expands)
        /\ node.type = "domain" <=> root /\ q = << >>
    BY <1>2 DEF IsProper, SeveralTypes, IsIdentity
  <2>2. \A r \in DOMAIN e : e[r].type \in SingleChildTypes => n(r) <= 1
    BY <1>2 DEF IsProper, NChildren
  <2>3. node.from = "subtree" => problem.at # << >>
    BY <1>2 DEF IsProper
  <2>4. node.type \in NodeTypes /\ (node.type = "expansion" => n(q) <= 1)
    BY DEF IsOrdinary
  <2>5. /\ \A i \in 1..n(q) : Append(q, i) \in Children(e, q)
        /\ Children(e, q) = {} <=> n(q) = 0
    BY ChildrenFacts
  <2>6. node.type \in SeveralTypes =>
          /\ n(q) > 0
          /\ \A i \in 1..n(q) : e[Append(q, i)].type = "filter" /\ n(Append(q, i)) <= 1
    <3>1. SUFFICES ASSUME node.type \in SeveralTypes
                   PROVE  /\ n(q) > 0
                          /\ \A i \in 1..n(q) : e[Append(q, i)].type = "filter" /\ n(Append(q, i)) <= 1
      OBVIOUS
    <3>2. n(q) > 0
      BY <1>0, <2>1, <2>5, <3>1
    <3>3. ASSUME NEW i \in 1..n(q)
          PROVE  e[Append(q, i)].type = "filter" /\ n(Append(q, i)) <= 1
      <4>1. e[Append(q, i)].type = "filter"
        BY <2>1, <2>5, <3>1
      <4>. QED  BY <1>1, <2>2, <4>1, SeveralOrNot
    <3>. QED  BY <3>2, <3>3
  <2>7. node.type = "leaf" => n(q) = 0
    BY <2>1, <2>5
  <2>8. node.type = "expansion" => n(q) = 1 /\ ~ IsIdentity(node.expands)
    <3>1. SUFFICES ASSUME node.type = "expansion" PROVE n(q) = 1
      BY <2>1
    <3>2. n(q) # 0 /\ n(q) <= 1 /\ n(q) \in Nat
      BY <1>0, <2>1, <2>4, <2>5, <3>1
    <3>. HIDE DEF n
    <3>. QED  BY <3>2
  <2>9. node.type \notin SeveralTypes => n(q) <= 1
    <3>1. CASE node.type \in SingleChildTypes
      BY <2>2, <3>1
    <3>2. CASE node.type = "leaf"
      BY <2>7, <3>2
    <3>3. CASE node.type = "expansion"
      BY <2>4, <3>3
    <3>. QED  BY <2>4, <3>1, <3>2, <3>3, SeveralOrNot
  <2>. QED  BY <2>1, <2>3, <2>6, <2>7, <2>8, <2>9 DEF Fine
<1>3. ASSUME \A q \in DOMAIN e : Fine(problem, e, q, root) PROVE IsProper(e)
  <2>1. ASSUME NEW q \in DOMAIN e
        PROVE  /\ e[q].type \in {"sequence", "set"} =>
                    /\ Children(e, q) # {}
                    /\ \A c \in Children(e, q) : e[c].type = "filter"
               /\ e[q].type = "leaf" => Children(e, q) = {}
               /\ e[q].type = "expansion" =>
                    Children(e, q) # {} /\ \E a \in e[q].expands : a[1] # a[2]
               /\ e[q].type \in SingleChildTypes => Cardinality(Children(e, q)) <= 1
               /\ e[q].type = "domain" <=> problem.op = "build" /\ q = << >>
    <3>1. Fine(problem, e, q, root)
      BY <1>3
    <3>2. /\ \A c \in Children(e, q) : \E i \in 1..n(q) : c = Append(q, i)
          /\ Children(e, q) = {} <=> n(q) = 0
      BY ChildrenFacts
    <3>3. e[q].type \in SeveralTypes =>
            Children(e, q) # {} /\ \A c \in Children(e, q) : e[c].type = "filter"
      <4>1. SUFFICES ASSUME e[q].type \in SeveralTypes
                     PROVE  Children(e, q) # {} /\ \A c \in Children(e, q) : e[c].type = "filter"
        OBVIOUS
      <4>2. n(q) > 0 /\ \A i \in 1..n(q) : e[Append(q, i)].type = "filter"
        BY <3>1, <4>1 DEF Fine
      <4>3. Children(e, q) # {}
        BY <1>0, <3>2, <4>2
      <4>4. ASSUME NEW c \in Children(e, q) PROVE e[c].type = "filter"
        <5>1. PICK i \in 1..n(q) : c = Append(q, i)
          BY <3>2
        <5>. QED  BY <4>2, <5>1
      <4>. QED  BY <4>3, <4>4
    <3>4. e[q].type = "leaf" => Children(e, q) = {}
      BY <3>1, <3>2 DEF Fine
    <3>5. e[q].type = "expansion" => Children(e, q) # {} /\ \E a \in e[q].expands : a[1] # a[2]
      BY <3>1, <3>2 DEF Fine, IsIdentity
    <3>6. e[q].type \in SingleChildTypes => Cardinality(Children(e, q)) <= 1
      BY <3>1, SeveralOrNot DEF Fine, NChildren
    <3>7. e[q].type = "domain" <=> problem.op = "build" /\ q = << >>
      BY <3>1 DEF Fine
    <3>. QED  BY <3>3, <3>4, <3>5, <3>6, <3>7 DEF SeveralTypes
  <2>2. (\E q \in DOMAIN e : e[q].from = "subtree") => problem.at # << >>
    BY <1>3 DEF Fine
  <2>. QED  BY <2>1, <2>2 DEF IsProper
<1>. QED  BY <1>2, <1>3 DEF AllFine

(* Parts of descriptions and copies of trees *)

LEMMA PartCount ==
  ASSUME NEW tree, IsShape(tree), NEW p \in DOMAIN tree,
         NEW r \in DOMAIN Subtree(tree, p)
  PROVE  NChildren(Subtree(tree, p), r) = NChildren(tree, p \o r)
<1>. DEFINE part == Subtree(tree, p)
<1>1. /\ p \in Position /\ IsShape(part) /\ r \in DOMAIN part
      /\ \A s \in Position : s \in DOMAIN part <=> p \o s \in DOMAIN tree
      /\ r \in Position /\ p \o r \in DOMAIN tree
  BY ShapeFacts, SubtreeFacts, SubtreeShape
<1>. HIDE DEF part
<1>2. ASSUME NEW i \in Nat \ {0}
      PROVE  Append(r, i) \in DOMAIN part <=> Append(p \o r, i) \in DOMAIN tree
  <2>1. Append(r, i) \in Position /\ p \o Append(r, i) = Append(p \o r, i)
    BY <1>1, AppendPosition, ConcatAppend
  <2>2. Append(r, i) \in DOMAIN part <=> p \o Append(r, i) \in DOMAIN tree
    BY <1>1, <2>1
  <2>. QED  BY <2>1, <2>2
<1>3. NChildren(part, r) = NChildren(tree, p \o r)
  BY <1>1, <1>2, SameCount
<1>. QED  BY <1>3 DEF part

\* A node of a part of a builder is as fine as it is in the whole.
LEMMA PartIsFine ==
  ASSUME NEW builder, IsShape(builder), NEW p \in DOMAIN builder, p # << >>,
         NEW problemOf, NEW root, NEW r \in DOMAIN Subtree(builder, p)
  PROVE  /\ NChildren(Subtree(builder, p), r) = NChildren(builder, p \o r)
         /\ Fine(problemOf, Subtree(builder, p), r, FALSE)
              <=> Fine(problemOf, builder, p \o r, root)
<1>. DEFINE part == Subtree(builder, p)
            q == p \o r
<1>1. /\ p \in Position /\ IsShape(part)
      /\ \A s \in Position : s \in DOMAIN part <=> p \o s \in DOMAIN builder
      /\ \A s \in DOMAIN part :
           s \in Position /\ p \o s \in DOMAIN builder /\ part[s] = builder[p \o s]
  BY ShapeFacts, SubtreeFacts, SubtreeShape
<1>2. r \in Position /\ q \in DOMAIN builder /\ q \in Position /\ q # << >> /\ part[r] = builder[q]
  <2>1. r \in Position /\ q \in DOMAIN builder /\ q \in Position /\ part[r] = builder[q]
    BY <1>1, ShapeFacts
  <2>2. q # << >>
    BY <1>1, <2>1, ConcatPosition, ConcatFront
  <2>. QED  BY <2>1, <2>2
<1>. HIDE DEF part
<1>3. \A s \in DOMAIN part : NChildren(part, s) = NChildren(builder, p \o s)
  BY PartCount DEF part
<1>4. NChildren(part, r) = NChildren(builder, q)
  BY <1>3 DEF part
<1>5. ASSUME NEW i \in 1..NChildren(part, r)
      PROVE  /\ part[Append(r, i)].type = builder[Append(q, i)].type
             /\ NChildren(part, Append(r, i)) = NChildren(builder, Append(q, i))
  <2>1. r \in DOMAIN part
    BY DEF part
  <2>2. i \in Nat \ {0} /\ i <= NChildren(part, r)
    BY <1>1, <1>5, <2>1, ChildrenAreNumbered
  <2>3. Append(r, i) \in DOMAIN part
    BY <1>1, <2>1, <2>2, ChildrenAreNumbered
  <2>4. p \o Append(r, i) = Append(q, i)
    BY <1>1, <1>2, <2>2, ConcatAppend
  <2>. QED  BY <1>1, <1>3, <2>3, <2>4
<1>. DEFINE n == NChildren(part, r)
            Good(b, s) == \A i \in 1..n : /\ b[Append(s, i)].type = "filter"
                                          /\ NChildren(b, Append(s, i)) <= 1
<1>6. Good(part, r) <=> Good(builder, q)
  BY <1>5
<1>7. Fine(problemOf, part, r, FALSE) <=>
        /\ builder[q].type \in SeveralTypes => n > 0 /\ Good(part, r)
        /\ builder[q].type \notin SeveralTypes => n <= 1
        /\ builder[q].type = "leaf" => n = 0
        /\ builder[q].type = "expansion" => n = 1 /\ ~ IsIdentity(builder[q].expands)
        /\ builder[q].type # "domain"
        /\ builder[q].from = "subtree" => problemOf.at # << >>
  BY <1>2 DEF Fine
<1>8. Fine(problemOf, builder, q, root) <=>
        /\ builder[q].type \in SeveralTypes => n > 0 /\ Good(builder, q)
        /\ builder[q].type \notin SeveralTypes => n <= 1
        /\ builder[q].type = "leaf" => n = 0
        /\ builder[q].type = "expansion" => n = 1 /\ ~ IsIdentity(builder[q].expands)
        /\ builder[q].type # "domain"
        /\ builder[q].from = "subtree" => problemOf.at # << >>
  BY <1>2, <1>4 DEF Fine
<1>9. Fine(problemOf, part, r, FALSE) <=> Fine(problemOf, builder, q, root)
  <2>. HIDE DEF Good, n
  <2>. QED  BY <1>6, <1>7, <1>8
<1>. QED  BY <1>4, <1>9 DEF part

LEMMA PartIsOrdinary ==
  ASSUME NEW builder, IsShape(builder), NEW p \in DOMAIN builder, p # << >>,
         IsOrdinary(builder)
  PROVE  IsOrdinary(Subtree(builder, p))
<1>1. SUFFICES ASSUME NEW r \in DOMAIN Subtree(builder, p)
               PROVE  /\ Subtree(builder, p)[r].type \in NodeTypes
                      /\ Subtree(builder, p)[r].from = "subtree" => Subtree(builder, p)[r].type = "leaf"
                      /\ Subtree(builder, p)[r].type = "expansion" =>
                           NChildren(Subtree(builder, p), r) <= 1
  BY DEF IsOrdinary
<1>2. p \o r \in DOMAIN builder /\ Subtree(builder, p)[r] = builder[p \o r]
  BY <1>1, SubtreeFacts
<1>3. NChildren(Subtree(builder, p), r) = NChildren(builder, p \o r)
  BY <1>1, PartIsFine
<1>. QED  BY <1>2, <1>3 DEF IsOrdinary

\* What subtreeBuilder keeps of a node.
LEMMA CopiedNode ==
  ASSUME NEW tree, IsTree(tree), NEW q \in DOMAIN tree
  PROVE  /\ DOMAIN SubtreeBuilder(tree) = DOMAIN tree
         /\ SubtreeBuilder(tree)[q].type = tree[q].type
         /\ SubtreeBuilder(tree)[q].expands = tree[q].expands
         /\ SubtreeBuilder(tree)[q].from = "value"
<1>1. IsNode(tree[q])
  BY DEF IsTree
<1>. DEFINE old == tree[q]
            mid == [old EXCEPT !.coincident = << >>]
            new == [mid EXCEPT !.permutable = FALSE]
<1>2. new.type = old.type /\ new.expands = old.expands
  <2>1. old = NodeIn(old)
    BY <1>1 DEF IsNode
  <2>. HIDE DEF old
  <2>2. mid.type = old.type /\ mid.expands = old.expands /\ mid = NodeIn(mid)
    BY <2>1 DEF NodeIn
  <2>. HIDE DEF mid
  <2>3. new.type = mid.type /\ new.expands = mid.expands
    BY <2>2 DEF NodeIn
  <2>. QED  BY <2>2, <2>3
<1>3. SubtreeBuilder(tree)[q] = BuilderNode(new, "value")
  BY DEF SubtreeBuilder
<1>4. DOMAIN SubtreeBuilder(tree) = DOMAIN tree
  BY DEF SubtreeBuilder
<1>. HIDE DEF new
<1>. QED  BY <1>2, <1>3, <1>4 DEF BuilderNode

\* The captured schedule, taken apart and described again.
Copy(p) == SubtreeBuilder(Subtree(p.tree, p.at))

\* Every node of the copy is one of the schedule, with as many children.
LEMMA CopiedFrom ==
  ASSUME NEW p \in Problems, NEW r \in DOMAIN Copy(p)
  PROVE  /\ IsShape(Copy(p)) /\ << >> \in DOMAIN Copy(p)
         /\ r \in Position /\ p.at \in Position
         /\ p.at \o r \in DOMAIN p.tree
         /\ Copy(p)[r].type = p.tree[p.at \o r].type
         /\ Copy(p)[r].expands = p.tree[p.at \o r].expands
         /\ Copy(p)[r].from = "value"
         /\ NChildren(Copy(p), r) = NChildren(p.tree, p.at \o r)
<1>. DEFINE tree == p.tree
            at == p.at
            part == Subtree(tree, at)
            copy == SubtreeBuilder(part)
<1>1. IsTree(tree) /\ IsShape(tree) /\ at \in DOMAIN tree /\ Unmarked(tree)
  BY RewriterAssumption DEF IsTree, Unmarked
<1>2. IsTree(part) /\ IsShape(part)
  BY <1>1, SubtreeIsTree, SubtreeShape
<1>3. Unmarked(part)
  BY <1>1, SubtreeFacts DEF Unmarked
<1>4. r \in DOMAIN copy
  BY DEF Copy
<1>5. DOMAIN copy = DOMAIN part /\ << >> \in DOMAIN part
  BY <1>1, <1>2, SubtreeFacts, CopiedNode
<1>6. IsShape(copy)
  BY <1>2, <1>3, SubtreeBuilderFacts
<1>7. /\ r \in Position /\ at \in Position /\ at \o r \in DOMAIN tree /\ part[r] = tree[at \o r]
  BY <1>1, <1>4, <1>5, SubtreeFacts, ShapeFacts
<1>8. /\ copy[r].type = part[r].type /\ copy[r].expands = part[r].expands
      /\ copy[r].from = "value"
  BY <1>2, <1>4, <1>5, CopiedNode
<1>9. NChildren(copy, r) = NChildren(part, r)
  BY <1>5 DEF NChildren, Children
<1>10. NChildren(part, r) = NChildren(tree, at \o r)
  BY <1>1, <1>4, <1>5, PartCount
<1>11. copy = Copy(p)
  BY DEF Copy
<1>. HIDE DEF copy
<1>. QED  BY <1>5, <1>6, <1>7, <1>8, <1>9, <1>10, <1>11

LEMMA CopyIsOrdinary ==
  ASSUME NEW p \in Problems, IsSchedule(p.tree)
  PROVE  IsOrdinary(Copy(p))
<1>1. SUFFICES ASSUME NEW r \in DOMAIN Copy(p)
               PROVE  /\ Copy(p)[r].type \in NodeTypes
                      /\ Copy(p)[r].from = "subtree" => Copy(p)[r].type = "leaf"
                      /\ Copy(p)[r].type = "expansion" => NChildren(Copy(p), r) <= 1
  BY DEF IsOrdinary
<1>2. /\ p.at \o r \in DOMAIN p.tree /\ Copy(p)[r].type = p.tree[p.at \o r].type
      /\ Copy(p)[r].from = "value" /\ NChildren(Copy(p), r) = NChildren(p.tree, p.at \o r)
  BY <1>1, CopiedFrom
<1>3. Copy(p)[r].type \in NodeTypes
  BY <1>2 DEF IsSchedule
<1>4. Copy(p)[r].from # "subtree"
  BY <1>2
<1>5. ASSUME Copy(p)[r].type = "expansion" PROVE NChildren(Copy(p), r) <= 1
  <2>1. p.tree[p.at \o r].type \notin SeveralTypes
    BY <1>2, <1>5, SeveralOrNot
  <2>. QED  BY <1>2, <2>1 DEF IsSchedule
<1>. QED  BY <1>3, <1>4, <1>5

\* Below the root a schedule can be described and built; at the root there is
\* the domain, for which there is no place inside of another description.
LEMMA CopyIsFine ==
  ASSUME NEW p \in Problems, IsSchedule(p.tree)
  PROVE  /\ p.at # << >> => AllFine(p, Copy(p), FALSE)
         /\ p.at = << >> => ~ Fine(p, Copy(p), << >>, FALSE)
<1>. DEFINE tree == p.tree
            copy == Copy(p)
            Q(r) == p.at \o r
<1>0. IsTree(tree) /\ IsShape(tree) /\ << >> \in DOMAIN copy
  <2>1. IsTree(tree) /\ IsShape(tree) /\ p.at \in DOMAIN tree
    BY RewriterAssumption DEF IsTree
  <2>2. << >> \in DOMAIN copy
    BY <2>1, SubtreeFacts DEF Copy, SubtreeBuilder
  <2>. QED  BY <2>1, <2>2
<1>1. \A r \in DOMAIN copy :
        /\ IsShape(copy) /\ r \in Position /\ p.at \in Position /\ Q(r) \in DOMAIN tree
        /\ copy[r].type = tree[Q(r)].type /\ copy[r].expands = tree[Q(r)].expands
        /\ copy[r].from = "value" /\ NChildren(copy, r) = NChildren(tree, Q(r))
  BY CopiedFrom
<1>2. ASSUME p.at # << >>, NEW r \in DOMAIN copy PROVE Fine(p, copy, r, FALSE)
  <2>. DEFINE q == Q(r)
              n == NChildren(tree, q)
              node == tree[q]
  <2>1. /\ IsShape(copy) /\ r \in Position /\ q \in DOMAIN tree /\ q \in Position
        /\ copy[r].type = node.type /\ copy[r].expands = node.expands
        /\ copy[r].from = "value" /\ NChildren(copy, r) = n
    BY <1>0, <1>1, ShapeFacts
  <2>2. q # << >>
    BY <1>1, <1>2, <2>1, ConcatPosition, ConcatFront
  <2>3. n \in Nat /\ \A i \in Nat \ {0} : Append(q, i) \in DOMAIN tree <=> i <= n
    BY <1>0, <2>1, ChildrenAreNumbered
  <2>4. node.type = "leaf" <=> ~ 1 <= n
    <3>1. 1 \in Nat \ {0}
      OBVIOUS
    <3>2. node.type = "leaf" <=> Append(q, 1) \notin DOMAIN tree
      BY <1>0, <2>1 DEF IsTree
    <3>. HIDE DEF n, q, node
    <3>. QED  BY <2>3, <3>1, <3>2
  <2>5. /\ node.type \in NodeTypes /\ node.type # "domain"
        /\ node.type \notin SeveralTypes => n <= 1
        /\ node.type = "expansion" => ~ IsIdentity(node.expands)
    BY <2>1, <2>2 DEF IsSchedule
  <2>6. ASSUME node.type \in SeveralTypes, NEW i \in 1..n
        PROVE  copy[Append(r, i)].type = "filter" /\ NChildren(copy, Append(r, i)) <= 1
    <3>1. i \in Nat \ {0} /\ i <= n
      BY <2>3, <2>6
    <3>2. Append(r, i) \in DOMAIN copy
      BY <2>1, <3>1, ChildrenAreNumbered
    <3>3. Q(Append(r, i)) = Append(q, i)
      BY <1>1, <2>1, <3>1, ConcatAppend
    <3>4. Append(q, i) \in DOMAIN tree
      BY <2>3, <3>1
    <3>5. tree[Append(q, i)].type = "filter"
      BY <2>1, <2>6 DEF IsSchedule
    <3>6. NChildren(tree, Append(q, i)) <= 1
      BY <3>4, <3>5, SeveralOrNot DEF IsSchedule
    <3>. QED  BY <1>1, <3>2, <3>3, <3>5, <3>6
  <2>. HIDE DEF n, node, q, copy
  <2>7. /\ node.type \in SeveralTypes => n > 0
        /\ node.type = "leaf" => n = 0
        /\ node.type = "expansion" => n = 1
    BY <2>3, <2>4, <2>5, SeveralOrNot
  <2>8. copy[r].type \in SeveralTypes =>
          /\ NChildren(copy, r) > 0
          /\ \A i \in 1..NChildren(copy, r) : /\ copy[Append(r, i)].type = "filter"
                                             /\ NChildren(copy, Append(r, i)) <= 1
    BY <2>1, <2>6, <2>7
  <2>9. /\ copy[r].type \notin SeveralTypes => NChildren(copy, r) <= 1
        /\ copy[r].type = "leaf" => NChildren(copy, r) = 0
        /\ copy[r].type = "expansion" => NChildren(copy, r) = 1 /\ ~ IsIdentity(copy[r].expands)
        /\ copy[r].type # "domain" /\ copy[r].from # "subtree"
    BY <2>1, <2>5, <2>7
  <2>. QED  BY <2>8, <2>9 DEF Fine
<1>3. ASSUME p.at = << >> PROVE ~ Fine(p, copy, << >>, FALSE)
  <2>1. << >> \in Position /\ Q(<< >>) = << >>
    BY <1>3 DEF Position
  <2>2. copy[<< >>].type = tree[<< >>].type /\ << >> \in DOMAIN tree
    BY <1>0, <1>1, <2>1
  <2>3. tree[<< >>].type = "domain"
    BY <2>2 DEF IsSchedule
  <2>. QED  BY <2>2, <2>3 DEF Fine
<1>. QED  BY <1>2, <1>3 DEF AllFine

(* What insertAt has passed *)

\* Below an elder sibling of a node that at is below of, or is.
Before(q, at) ==
  \E p \in Position : \E i \in Nat \ {0}, j \in Nat \ {0} :
    i < j /\ IsPrefix(Append(p, i), q) /\ IsPrefix(Append(p, j), at)

\* A call at the position at has been in q; if it has returned, also in what is
\* below it.
Passed(q, at, ret) ==
  \/ IsPrefix(q, at) /\ q # at
  \/ Before(q, at)
  \/ ret /\ IsPrefix(at, q)

LEMMA PassedAtChild ==
  ASSUME NEW q \in Position, NEW at \in Position, NEW j \in Nat \ {0}, NEW ret
  PROVE  Passed(q, Append(at, j), ret) <=>
           \/ q = at \/ Passed(q, at, FALSE)
           \/ \E i \in Nat \ {0} : i < j /\ IsPrefix(Append(at, i), q)
           \/ ret /\ IsPrefix(Append(at, j), q)
<1>. DEFINE next == Append(at, j)
<1>0. next \in Position
  BY AppendPosition
<1>1. IsPrefix(q, next) /\ q # next <=> q = at \/ (IsPrefix(q, at) /\ q # at)
  BY AboveChild
<1>2. ASSUME Before(q, next)
      PROVE  Before(q, at) \/ \E i \in Nat \ {0} : i < j /\ IsPrefix(Append(at, i), q)
  <2>1. PICK p \in Position : \E i \in Nat \ {0}, k \in Nat \ {0} :
          i < k /\ IsPrefix(Append(p, i), q) /\ IsPrefix(Append(p, k), next)
    BY <1>2 DEF Before
  <2>2. PICK i \in Nat \ {0}, k \in Nat \ {0} :
          i < k /\ IsPrefix(Append(p, i), q) /\ IsPrefix(Append(p, k), next)
    BY <2>1
  <2>3. Append(p, k) \in Position
    BY AppendPosition
  <2>4. Append(p, k) = next \/ IsPrefix(Append(p, k), at)
    BY <2>2, <2>3, PrefixAppend
  <2>5. CASE Append(p, k) = next
    <3>1. p = at /\ k = j
      <4>1. Front(Append(p, k)) = p /\ Last(Append(p, k)) = k
        BY AppendPosition
      <4>2. Front(next) = at /\ Last(next) = j
        BY AppendPosition
      <4>. QED  BY <2>5, <4>1, <4>2
    <3>. QED  BY <2>2, <3>1
  <2>6. CASE IsPrefix(Append(p, k), at)
    BY <2>2, <2>6 DEF Before
  <2>. QED  BY <2>4, <2>5, <2>6
<1>3. ASSUME Before(q, at) PROVE Before(q, next)
  <2>1. PICK p \in Position : \E i \in Nat \ {0}, k \in Nat \ {0} :
          i < k /\ IsPrefix(Append(p, i), q) /\ IsPrefix(Append(p, k), at)
    BY <1>3 DEF Before
  <2>2. PICK i \in Nat \ {0}, k \in Nat \ {0} :
          i < k /\ IsPrefix(Append(p, i), q) /\ IsPrefix(Append(p, k), at)
    BY <2>1
  <2>3. Append(p, k) \in Position
    BY AppendPosition
  <2>4. IsPrefix(Append(p, k), next)
    BY <2>2, <2>3, PrefixAppend
  <2>. QED  BY <2>2, <2>4 DEF Before
<1>4. ASSUME NEW i \in Nat \ {0}, i < j, IsPrefix(Append(at, i), q) PROVE Before(q, next)
  <2>1. IsPrefix(Append(at, j), next)
    BY <1>0, PrefixOrder
  <2>. QED  BY <1>4, <2>1 DEF Before
<1>5. Passed(q, next, ret) <=>
        (IsPrefix(q, next) /\ q # next) \/ Before(q, next) \/ (ret /\ IsPrefix(next, q))
  BY DEF Passed
<1>6. Passed(q, at, FALSE) <=> (IsPrefix(q, at) /\ q # at) \/ Before(q, at)
  BY DEF Passed
<1>. HIDE DEF next
<1>7. Passed(q, next, ret) <=>
           \/ q = at \/ Passed(q, at, FALSE)
           \/ \E i \in Nat \ {0} : i < j /\ IsPrefix(Append(at, i), q)
           \/ ret /\ IsPrefix(next, q)
  BY <1>1, <1>2, <1>3, <1>4, <1>5, <1>6
<1>. QED  BY <1>7 DEF next

\* Everything below at is below one of its children.
LEMMA PassedHere ==
  ASSUME NEW tree, IsShape(tree), NEW at \in DOMAIN tree, NEW q \in DOMAIN tree,
         Passed(q, at, TRUE)
  PROVE  \/ q = at \/ Passed(q, at, FALSE)
         \/ \E i \in 1..NChildren(tree, at) :
              Append(at, i) \in DOMAIN tree /\ IsPrefix(Append(at, i), q)
<1>. DEFINE n == NChildren(tree, at)
<1>1. /\ q \in Position /\ at \in Position /\ n \in Nat
      /\ \A i \in Nat \ {0} : Append(at, i) \in DOMAIN tree <=> i <= n
  BY ShapeFacts, ChildrenAreNumbered
<1>2. SUFFICES ASSUME IsPrefix(at, q), q # at
               PROVE  \E i \in 1..n : Append(at, i) \in DOMAIN tree /\ IsPrefix(Append(at, i), q)
  BY DEF Passed
<1>. DEFINE i == q[Len(at) + 1]
<1>3. i \in Nat \ {0} /\ IsPrefix(Append(at, i), q)
  BY <1>1, <1>2, NextBelow
<1>. HIDE DEF i
<1>4. Append(at, i) \in Position
  BY <1>1, <1>3, AppendPosition
<1>5. Append(at, i) \in DOMAIN tree
  BY <1>3, <1>4, AboveAreThere
<1>6. i \in 1..n
  <2>1. i <= n
    BY <1>1, <1>3, <1>5
  <2>. HIDE DEF n
  <2>. QED  BY <1>1, <1>3, <2>1
<1>. QED  BY <1>3, <1>5, <1>6

\* A child without children is all there is below it.
LEMMA OnlyTheChild ==
  ASSUME NEW tree, IsShape(tree), NEW p \in DOMAIN tree, NChildren(tree, p) = 0,
         NEW q \in DOMAIN tree, IsPrefix(p, q)
  PROVE  q = p
<1>1. 1 \in Nat \ {0} /\ ~ 1 <= NChildren(tree, p)
  OBVIOUS
<1>2. Append(p, 1) \notin DOMAIN tree
  BY <1>1, ChildrenAreNumbered
<1>. QED  BY <1>2, WithoutChildren

LEMMA NothingPassed ==
  ASSUME NEW q \in Position
  PROVE  ~ Passed(q, << >>, FALSE) /\ Passed(q, << >>, TRUE)
<1>1. << >> \in Position
  BY DEF Position
<1>2. IsPrefix(q, << >>) => q = << >>
  BY <1>1, PrefixOrder
<1>3. IsPrefix(<< >>, q)
  BY <1>1, PrefixOrder
<1>4. ~ Before(q, << >>)
  <2>1. SUFFICES ASSUME NEW p \in Position, NEW j \in Nat \ {0}, IsPrefix(Append(p, j), << >>)
                 PROVE  FALSE
    BY DEF Before
  <2>2. Append(p, j) \in Position /\ Append(p, j) # << >>
    BY AppendPosition
  <2>. QED  BY <1>1, <2>1, <2>2, PrefixOrder
<1>. QED  BY <1>2, <1>3, <1>4 DEF Passed

(* The invariant *)

IsRoot(p, k) == k = 1 /\ p.op = "build"

\* What a call has passed is fine, and so is all of it in a proper description.
CallFine(p, call, root, ret) ==
  /\ IsOrdinary(call.builder)
  /\ AllFine(p, p.expression, p.op = "build") => AllFine(p, call.builder, root)
  /\ \A q \in DOMAIN call.builder :
       Passed(q, call.at, ret) => Fine(p, call.builder, q, root)

\* The node at which a call waits for the one above it on the stack.
WaitsFor(p, call, next, root) ==
  LET node == call.builder[call.at]
      n == NChildren(call.builder, call.at)
  IN  /\ ~ (root /\ call.at = << >>)
      /\ IF next.expanded = Null
           THEN /\ node.type = "leaf" /\ n = 0 /\ next.builder = Copy(p)
           ELSE /\ node.type = "expansion" /\ n = 1 /\ ~ IsIdentity(node.expands)
                /\ next.builder = Subtree(call.builder, Append(call.at, 1))

CallsFine(p, c, ret) ==
  /\ \A k \in 1..Len(c) : CallFine(p, c[k], IsRoot(p, k), k = Len(c) /\ ret)
  /\ \A k \in 1..(Len(c) - 1) : WaitsFor(p, c[k], c[k + 1], IsRoot(p, k))

Verdict(p) == AllFine(p, p.expression, p.op = "build")

BuildInv ==
  problem.op # "merge" =>
    /\ status = "aborted" => ~ Verdict(problem)
    /\ status = "done" => Verdict(problem)
    /\ captured.grandchild = Start
    /\ calls # << >> /\ calls[1].builder = problem.expression
    /\ Len(calls) = 1 /\ calls[1].at = << >> /\ ~ returning /\ problem.op = "build" =>
         cursor = Null
    /\ CallsFine(problem, calls, returning)

LEMMA SameCallFine ==
  ASSUME NEW p, NEW call, NEW root, NEW ret, NEW other, ret <=> other,
         CallFine(p, call, root, ret)
  PROVE  CallFine(p, call, root, other)
<1>1. \A q : Passed(q, call.at, other) <=> Passed(q, call.at, ret)
  BY DEF Passed
<1>. QED  BY <1>1 DEF CallFine

\* The innermost call moves to at, having passed only nodes that are fine.
LEMMA CallsFineMoved ==
  ASSUME NEW p, NEW c, IsStack(c), c # << >>, NEW ret, CallsFine(p, c, ret),
         NEW n, n = Len(c), NEW at, NEW new, IsMoved(c, new, at), NEW other,
         \A q \in DOMAIN c[n].builder : Passed(q, at, other) =>
           Passed(q, c[n].at, ret) \/ Fine(p, c[n].builder, q, IsRoot(p, n))
  PROVE  CallsFine(p, new, other)
<1>1. /\ n \in Nat \ {0} /\ Len(new) = n
      /\ new[n].builder = c[n].builder /\ new[n].at = at /\ new[n].expanded = c[n].expanded
      /\ \A k \in 1..(n - 1) : new[k] = c[k]
  BY StackFacts DEF IsMoved, MovedTo
<1>2. ASSUME NEW k \in 1..n
      PROVE  CallFine(p, new[k], IsRoot(p, k), k = n /\ other)
  <2>1. CallFine(p, c[k], IsRoot(p, k), k = n /\ ret)
    BY <1>2 DEF CallsFine
  <2>2. CASE k < n
    <3>1. k \in 1..(n - 1) /\ k # n
      BY <1>1, <2>2
    <3>2. new[k] = c[k]
      BY <1>1, <3>1
    <3>. QED  BY <2>1, <3>1, <3>2
  <2>3. CASE k = n
    <3>1. CallFine(p, c[n], IsRoot(p, n), n = n /\ ret)
      BY <2>1, <2>3
    <3>2. CallFine(p, c[n], IsRoot(p, n), ret)
      BY <3>1, SameCallFine
    <3>3. CallFine(p, new[n], IsRoot(p, n), other)
      <4>. DEFINE builder == c[n].builder
                  root == IsRoot(p, n)
      <4>1. /\ IsOrdinary(builder)
            /\ AllFine(p, p.expression, p.op = "build") => AllFine(p, builder, root)
            /\ \A q \in DOMAIN builder : Passed(q, c[n].at, ret) => Fine(p, builder, q, root)
        BY <3>2 DEF CallFine
      <4>2. \A q \in DOMAIN builder : Passed(q, at, other) => Fine(p, builder, q, root)
        BY <4>1
      <4>3. new[n].builder = builder /\ new[n].at = at
        BY <1>1
      <4>. HIDE DEF builder, root
      <4>4. CallFine(p, new[n], root, other)
        BY <4>1, <4>2, <4>3 DEF CallFine
      <4>. QED  BY <4>4 DEF root
    <3>4. CallFine(p, new[n], IsRoot(p, n), n = n /\ other)
      <4>. DEFINE flag == n = n /\ other
      <4>1. other <=> flag
        OBVIOUS
      <4>. HIDE DEF flag
      <4>2. CallFine(p, new[n], IsRoot(p, n), flag)
        BY <3>3, <4>1, SameCallFine
      <4>. QED  BY <4>2 DEF flag
    <3>. QED  BY <2>3, <3>4
  <2>. QED  BY <1>1, <1>2, <2>2, <2>3
<1>3. ASSUME NEW k \in 1..(n - 1)
      PROVE  WaitsFor(p, new[k], new[k + 1], IsRoot(p, k))
  <2>1. WaitsFor(p, c[k], c[k + 1], IsRoot(p, k))
    BY <1>3 DEF CallsFine
  <2>2. new[k] = c[k]
    BY <1>1, <1>3
  <2>3. new[k + 1].builder = c[k + 1].builder /\ new[k + 1].expanded = c[k + 1].expanded
    <3>1. CASE k + 1 = n
      BY <1>1, <3>1
    <3>2. CASE k + 1 # n
      <4>1. k + 1 \in 1..(n - 1)
        BY <1>1, <1>3, <3>2
      <4>. QED  BY <1>1, <4>1
    <3>. QED  BY <3>1, <3>2
  <2>. QED  BY <2>1, <2>2, <2>3 DEF WaitsFor
<1>. QED  BY <1>1, <1>2, <1>3 DEF CallsFine

\* What is known of the innermost call.
LEMMA InnerIsFine ==
  ASSUME IInv, BuildInv, problem.op # "merge", NEW n, n = Len(calls)
  PROVE  /\ calls # << >> /\ IsStack(calls) /\ n \in Nat \ {0} /\ Inner = calls[n]
         /\ IsCall(Inner) /\ IsCall(calls[n]) /\ IsShape(Inner.builder)
         /\ At \in DOMAIN Inner.builder /\ At \in Position
         /\ CallsFine(problem, calls, returning)
         /\ IsOrdinary(Inner.builder)
         /\ Verdict(problem) => AllFine(problem, Inner.builder, IsRoot(problem, n))
         /\ \A q \in DOMAIN Inner.builder :
              Passed(q, At, returning) => Fine(problem, Inner.builder, q, IsRoot(problem, n))
         /\ cursor = Null <=> IsRoot(problem, n) /\ At = << >> /\ ~ returning
<1>1. calls # << >> /\ CallsFine(problem, calls, returning)
  BY DEF BuildInv
<1>2. PICK b : IsFraming(b)
  BY <1>1, Framing
<1>3. /\ IsStack(calls) /\ n \in Nat \ {0} /\ Inner = calls[n] /\ IsCall(Inner)
      /\ At \in Position /\ At \in DOMAIN Inner.builder /\ IsShape(Inner.builder)
  BY <1>1, <1>2, TopFacts
<1>4. CallFine(problem, calls[n], IsRoot(problem, n), returning)
  <2>1. n \in 1..n
    BY <1>3
  <2>2. CallFine(problem, calls[n], IsRoot(problem, n), n = Len(calls) /\ returning)
    BY <1>1, <2>1 DEF CallsFine
  <2>3. n = Len(calls) /\ returning <=> returning
    OBVIOUS
  <2>. QED  BY <2>2, <2>3, SameCallFine
<1>5. /\ IsOrdinary(Inner.builder)
      /\ Verdict(problem) => AllFine(problem, Inner.builder, IsRoot(problem, n))
      /\ \A q \in DOMAIN Inner.builder :
           Passed(q, At, returning) => Fine(problem, Inner.builder, q, IsRoot(problem, n))
  BY <1>3, <1>4 DEF CallFine, Verdict, At
<1>6. cursor = Null => IsRoot(problem, n) /\ At = << >> /\ ~ returning
  BY <1>3 DEF IInv, CursorInv, IsRoot, At
<1>7. IsRoot(problem, n) /\ At = << >> /\ ~ returning => cursor = Null
  BY <1>3 DEF BuildInv, IsRoot, At
<1>. QED  BY <1>1, <1>3, <1>5, <1>6, <1>7

LEMMA TopMoves ==
  ASSUME IInv, BuildInv, problem.op # "merge", status = "running",
         UNCHANGED <<problem, captured, status>>,
         NEW at, IsMoved(calls, calls', at), at # << >> \/ returning', NEW n, n = Len(calls),
         \A q \in DOMAIN Inner.builder : Passed(q, at, returning') =>
           Passed(q, At, returning) \/ Fine(problem, Inner.builder, q, IsRoot(problem, n))
  PROVE  BuildInv'
<1>1. /\ calls # << >> /\ IsStack(calls) /\ n \in Nat \ {0} /\ Inner = calls[n]
      /\ CallsFine(problem, calls, returning)
  BY InnerIsFine
<1>2. CallsFine(problem, calls', returning')
  <2>1. \A q \in DOMAIN calls[n].builder : Passed(q, at, returning') =>
          Passed(q, calls[n].at, returning) \/ Fine(problem, calls[n].builder, q, IsRoot(problem, n))
    BY <1>1 DEF At
  <2>. QED  BY <1>1, <2>1, CallsFineMoved
<1>3. calls' # << >> /\ Len(calls') = n /\ calls'[n].builder = calls[n].builder /\ calls'[n].at = at
      /\ \A k \in 1..(n - 1) : calls'[k] = calls[k]
  BY DEF IsMoved, MovedTo
<1>4. calls'[1].builder = problem.expression
  <2>1. calls[1].builder = problem.expression
    BY DEF BuildInv
  <2>2. CASE n = 1
    BY <1>3, <2>1, <2>2
  <2>3. CASE n # 1
    <3>1. 1 \in 1..(n - 1)
      BY <1>1, <2>3
    <3>. QED  BY <1>3, <2>1, <3>1
  <2>. QED  BY <2>2, <2>3
<1>5. ~ (Len(calls') = 1 /\ calls'[1].at = << >> /\ ~ returning')
  BY <1>3
<1>6. captured'.grandchild = Start'
  BY DEF BuildInv, Start
<1>7. problem' = problem /\ status' = "running"
  OBVIOUS
<1>. QED  BY <1>2, <1>3, <1>4, <1>5, <1>6, <1>7 DEF BuildInv

(* Insertion of one node *)

\* The node a call enters is fine if it passes the checks of insertAt.
LEMMA EnteredIsFine ==
  ASSUME IInv, BuildInv, problem.op # "merge", Entered, NEW n, n = Len(calls),
         Current.type = "domain" <=> cursor = Null,
         Current.from = "subtree" => problem.at # << >>,
         Current.type \in SeveralTypes => FiltersAreProper,
         Current.type \notin SeveralTypes => ChildBuilders(At) <= 1,
         Current.type = "leaf" => ChildBuilders(At) = 0,
         Current.type = "expansion" => ChildBuilders(At) = 1 /\ ~ IsIdentity(Current.expands)
  PROVE  Fine(problem, Inner.builder, At, IsRoot(problem, n))
<1>. DEFINE m == NChildren(Inner.builder, At)
            builder == Inner.builder
            at == At
<1>1. cursor = Null <=> IsRoot(problem, n) /\ At = << >>
  BY InnerIsFine DEF Entered
<1>2. m \in Nat
  BY InnerIsFine, ChildrenAreNumbered
<1>3. ASSUME Current.type \in SeveralTypes
      PROVE  /\ m > 0
             /\ \A i \in 1..m : /\ builder[Append(at, i)].type = "filter"
                                /\ NChildren(builder, Append(at, i)) <= 1
  <2>1. DOMAIN ChildFilters = 1..m /\ \A i \in 1..m : ChildFilters[i] = builder[Append(at, i)]
    BY DEF ChildFilters, ChildBuilders
  <2>2. ChildFilters # << >>
    BY <1>3 DEF FiltersAreProper
  <2>3. m # 0
    <3>1. SUFFICES ASSUME m = 0 PROVE FALSE
      OBVIOUS
    <3>2. ChildFilters = [i \in 1..0 |-> builder[Append(at, i)]]
      BY <3>1 DEF ChildFilters, ChildBuilders
    <3>3. [i \in 1..0 |-> builder[Append(at, i)]] = << >>
      OBVIOUS
    <3>. QED  BY <2>2, <3>2, <3>3
  <2>4. \A i \in 1..m : ChildFilters[i].type = "filter" /\ ChildBuilders(Append(At, i)) <= 1
    BY <1>3, <2>1 DEF FiltersAreProper
  <2>5. ASSUME NEW i \in 1..m
        PROVE  builder[Append(at, i)].type = "filter" /\ NChildren(builder, Append(at, i)) <= 1
    BY <2>1, <2>4 DEF ChildBuilders
  <2>6. m > 0
    <3>. HIDE DEF m
    <3>. QED  BY <1>2, <2>3
  <2>. QED  BY <2>5, <2>6
<1>4. /\ builder[at].type = "domain" <=> IsRoot(problem, n) /\ at = << >>
      /\ builder[at].from = "subtree" => problem.at # << >>
      /\ builder[at].type \notin SeveralTypes => m <= 1
      /\ builder[at].type = "leaf" => m = 0
      /\ builder[at].type = "expansion" => m = 1 /\ ~ IsIdentity(builder[at].expands)
      /\ builder[at] = Current
  BY <1>1 DEF Current, ChildBuilders
<1>. QED  BY <1>3, <1>4 DEF Fine

\* Having put its node in place, a call returns from it or goes on to its child.
LEMMA InsertedIsFine ==
  ASSUME IInv, BuildInv, problem.op # "merge", Entered, UNCHANGED problem, NEW n, n = Len(calls),
         ChildBuilders(At) <= 1, Fine(problem, Inner.builder, At, IsRoot(problem, n)),
         NEW tree, NEW path, InsertedAt(tree, path)
  PROVE  BuildInv'
<1>. DEFINE builder == Inner.builder
            at == At
            m == NChildren(builder, at)
<1>1. /\ calls # << >> /\ IsStack(calls) /\ IsCall(calls[Len(calls)]) /\ IsShape(builder)
      /\ at \in DOMAIN builder /\ at \in Position /\ m \in Nat /\ Inner = calls[n]
      /\ status = "running" /\ ~ returning
      /\ \A i \in Nat \ {0} : Append(at, i) \in DOMAIN builder <=> i <= m
  BY InnerIsFine, ChildrenAreNumbered DEF Entered
<1>2. UNCHANGED <<status, captured>> /\ m <= 1
  BY DEF InsertedAt, ChildBuilders
<1>3. CASE m = 0
  <2>1. UNCHANGED calls /\ returning' = TRUE
    BY <1>3 DEF InsertedAt, ChildBuilders
  <2>2. IsMoved(calls, calls', at)
    BY <1>1, <2>1, StackStays DEF At
  <2>3. ASSUME NEW q \in DOMAIN builder, Passed(q, at, TRUE)
        PROVE  Passed(q, at, FALSE) \/ Fine(problem, builder, q, IsRoot(problem, n))
    <3>1. \/ q = at \/ Passed(q, at, FALSE)
          \/ \E i \in 1..m : Append(at, i) \in DOMAIN builder /\ IsPrefix(Append(at, i), q)
      BY <1>1, <2>3, PassedHere
    <3>2. 1..m = {}
      BY <1>3
    <3>. HIDE DEF m
    <3>3. q = at \/ Passed(q, at, FALSE)
      BY <3>1, <3>2
    <3>. QED  BY <3>3
  <2>4. \A q \in DOMAIN Inner.builder : Passed(q, at, returning') =>
          Passed(q, At, returning) \/ Fine(problem, Inner.builder, q, IsRoot(problem, n))
    BY <1>1, <2>1, <2>3 DEF Passed
  <2>. QED  BY <1>1, <1>2, <2>1, <2>2, <2>4, TopMoves
<1>4. CASE m # 0
  <2>1. GoTo(Append(at, 1)) /\ UNCHANGED returning
    BY <1>4 DEF InsertedAt, ChildBuilders
  <2>2. IsMoved(calls, calls', Append(at, 1))
    <3>1. IsUpdate(calls, calls', Append(at, 1))
      BY <2>1 DEF GoTo, IsUpdate
    <3>. QED  BY <1>1, <3>1, StackMoves
  <2>3. 1 \in Nat \ {0}
    OBVIOUS
  <2>4. Append(at, 1) # << >>
    BY <1>1, <2>3, AppendPosition
  <2>5. ASSUME NEW q \in DOMAIN builder, Passed(q, Append(at, 1), FALSE)
        PROVE  Passed(q, at, FALSE) \/ Fine(problem, builder, q, IsRoot(problem, n))
    <3>1. q \in Position
      BY <1>1, ShapeFacts
    <3>2. \/ q = at \/ Passed(q, at, FALSE)
          \/ \E i \in Nat \ {0} : i < 1 /\ IsPrefix(Append(at, i), q)
          \/ FALSE /\ IsPrefix(Append(at, 1), q)
      BY <1>1, <2>3, <2>5, <3>1, PassedAtChild
    <3>3. \A i \in Nat \ {0} : ~ i < 1
      OBVIOUS
    <3>. QED  BY <3>2, <3>3
  <2>6. \A q \in DOMAIN Inner.builder : Passed(q, Append(at, 1), returning') =>
          Passed(q, At, returning) \/ Fine(problem, Inner.builder, q, IsRoot(problem, n))
    BY <1>1, <2>1, <2>5 DEF Passed
  <2>. QED  BY <1>1, <1>2, <2>1, <2>2, <2>4, <2>6, TopMoves
<1>. QED  BY <1>3, <1>4

\* A filter with at most one child is fine wherever it is.
LEMMA FilterIsFine ==
  ASSUME NEW p, NEW builder, IsOrdinary(builder), NEW q \in DOMAIN builder, q # << >>,
         builder[q].type = "filter", NChildren(builder, q) <= 1, NEW root
  PROVE  Fine(p, builder, q, root)
<1>1. builder[q].from # "subtree"
  BY DEF IsOrdinary
<1>2. "filter" \notin SeveralTypes
  BY DEF SeveralTypes
<1>. QED  BY <1>1, <1>2 DEF Fine

LEMMA SingleStep ==
  ASSUME IInv, BuildInv, problem.op # "merge", UNCHANGED problem,
         NEW types, types \subseteq SingleChildTypes, HasType(types), ChildBuilders(At) <= 1,
         NEW tree, NEW path, InsertedAt(tree, path)
  PROVE  BuildInv'
<1>1. /\ Entered /\ Current.type \in SingleChildTypes
      /\ Current.type = "domain" <=> cursor = Null
  BY DEF HasType
<1>2. Current.type \notin SeveralTypes /\ Current.type # "leaf" /\ Current.type # "expansion"
  BY <1>1, SeveralOrNot
<1>3. Current.from # "subtree"
  BY <1>2, InnerIsFine DEF IsOrdinary, Current
<1>. DEFINE n == Len(calls)
<1>4. n = Len(calls)
  OBVIOUS
<1>. HIDE DEF n
<1>5. Fine(problem, Inner.builder, At, IsRoot(problem, n))
  BY <1>1, <1>2, <1>3, <1>4, EnteredIsFine
<1>. QED  BY <1>1, <1>4, <1>5, InsertedIsFine

LEMMA SinglesStayFine ==
  ASSUME IInv, BuildInv, problem.op # "merge", UNCHANGED problem,
         InsertDomain \/ InsertBand \/ InsertFilter \/ InsertNamed \/ InsertExtension
  PROVE  BuildInv'
<1>1. CASE InsertDomain
  <2>1. {"domain"} \subseteq SingleChildTypes
    BY DEF SingleChildTypes
  <2>. QED  BY <1>1, <2>1, SingleStep DEF InsertDomain
<1>2. CASE InsertBand
  <2>1. {"band"} \subseteq SingleChildTypes
    BY DEF SingleChildTypes
  <2>. QED  BY <1>2, <2>1, SingleStep DEF InsertBand, InsertHere
<1>3. CASE InsertFilter
  <2>1. {"filter"} \subseteq SingleChildTypes
    BY DEF SingleChildTypes
  <2>. QED  BY <1>3, <2>1, SingleStep DEF InsertFilter, InsertHere
<1>4. CASE InsertNamed
  <2>1. {"context", "guard", "mark"} \subseteq SingleChildTypes
    BY DEF SingleChildTypes
  <2>. QED  BY <1>4, <2>1, SingleStep DEF InsertNamed, InsertHere
<1>5. CASE InsertExtension
  <2>1. {"extension"} \subseteq SingleChildTypes
    BY DEF SingleChildTypes
  <2>. QED  BY <1>5, <2>1, SingleStep DEF InsertExtension, InsertHere
<1>. QED  BY <1>1, <1>2, <1>3, <1>4, <1>5

LEMMA LeafStaysFine ==
  ASSUME IInv, BuildInv, problem.op # "merge", UNCHANGED problem, StayAtLeaf
  PROVE  BuildInv'
<1>. DEFINE n == Len(calls)
            builder == Inner.builder
<1>0. n = Len(calls)
  OBVIOUS
<1>1. /\ Entered /\ Current.type = "leaf" /\ Current.from # "subtree" /\ ChildBuilders(At) = 0
      /\ Current.type = "domain" <=> cursor = Null
      /\ returning' = TRUE /\ UNCHANGED <<status, cursor, calls, captured>>
  BY DEF StayAtLeaf, HasType
<1>2. /\ calls # << >> /\ IsStack(calls) /\ IsCall(calls[Len(calls)]) /\ IsShape(builder)
      /\ At \in DOMAIN builder /\ At \in Position /\ Inner = calls[Len(calls)]
  BY InnerIsFine
<1>3. Current.type \notin SeveralTypes /\ Current.type # "expansion" /\ ChildBuilders(At) <= 1
  BY <1>1, SeveralOrNot
<1>. HIDE DEF n
<1>4. Fine(problem, builder, At, IsRoot(problem, n))
  BY <1>0, <1>1, <1>3, EnteredIsFine
<1>5. IsMoved(calls, calls', At)
  BY <1>1, <1>2, StackStays DEF At
<1>6. ASSUME NEW q \in DOMAIN builder, Passed(q, At, TRUE)
      PROVE  q = At \/ Passed(q, At, FALSE)
  <2>1. IsPrefix(At, q) => q = At
    BY <1>1, <1>2, <1>6, OnlyTheChild DEF ChildBuilders
  <2>. QED  BY <1>6, <2>1 DEF Passed
<1>7. ~ returning /\ status = "running"
  BY <1>1 DEF Entered
<1>8. \A q \in DOMAIN Inner.builder : Passed(q, At, returning') =>
        Passed(q, At, returning) \/ Fine(problem, Inner.builder, q, IsRoot(problem, n))
  BY <1>1, <1>4, <1>6, <1>7 DEF Passed
<1>. QED  BY <1>0, <1>1, <1>5, <1>7, <1>8, TopMoves

LEMMA FailIsJustified ==
  ASSUME IInv, BuildInv, problem.op # "merge", UNCHANGED problem, FailAssertion
  PROVE  BuildInv'
<1>. DEFINE n == Len(calls)
            builder == Inner.builder
            m == NChildren(builder, At)
<1>0. n = Len(calls)
  OBVIOUS
<1>. HIDE DEF n
<1>1. /\ Entered /\ Malformed /\ status' = "aborted"
      /\ UNCHANGED <<cursor, calls, returning, captured>>
  BY DEF FailAssertion
<1>2. ASSUME Verdict(problem) PROVE FALSE
  <2>1. Fine(problem, builder, At, IsRoot(problem, n))
    BY <1>0, <1>2, InnerIsFine DEF AllFine
  <2>2. cursor = Null <=> IsRoot(problem, n) /\ At = << >>
    BY <1>0, <1>1, InnerIsFine DEF Entered
  <2>3. /\ Current.type \in SeveralTypes =>
             /\ m > 0
             /\ \A i \in 1..m : /\ builder[Append(At, i)].type = "filter"
                                /\ NChildren(builder, Append(At, i)) <= 1
        /\ Current.type \notin SeveralTypes => m <= 1
        /\ Current.type = "leaf" => m = 0
        /\ Current.type = "expansion" => m = 1 /\ ~ IsIdentity(Current.expands)
        /\ Current.type = "domain" <=> cursor = Null
    BY <2>1, <2>2 DEF Fine, Current
  <2>4. m \in Nat
    BY <1>0, InnerIsFine, ChildrenAreNumbered
  <2>5. CASE Current.type = "expansion" /\ (ChildBuilders(At) = 0 \/ IsIdentity(Current.expands))
    BY <2>3, <2>5 DEF ChildBuilders
  <2>6. CASE Current.type \in SingleChildTypes /\ ChildBuilders(At) > 1
    <3>1. m <= 1 /\ m > 1
      BY <2>3, <2>6, SeveralOrNot DEF ChildBuilders
    <3>. HIDE DEF m
    <3>. QED  BY <2>4, <3>1
  <2>7. CASE Current.type = "domain" <=> cursor # Null
    BY <2>3, <2>7
  <2>8. CASE Current.type \in {"sequence", "set"} /\ ~ FiltersAreProper
    <3>1. /\ m > 0
          /\ \A i \in 1..m : /\ builder[Append(At, i)].type = "filter"
                             /\ NChildren(builder, Append(At, i)) <= 1
      BY <2>3, <2>8 DEF SeveralTypes
    <3>2. DOMAIN ChildFilters = 1..m /\ \A i \in 1..m : ChildFilters[i] = builder[Append(At, i)]
      BY DEF ChildFilters, ChildBuilders
    <3>3. ChildFilters # << >>
      <4>1. m > 0
        BY <3>1
      <4>2. 1 \in 1..m
        <5>. HIDE DEF m
        <5>. QED  BY <2>4, <4>1
      <4>3. 1 \in DOMAIN ChildFilters
        BY <3>2, <4>2
      <4>4. 1 \notin DOMAIN << >>
        OBVIOUS
      <4>. QED  BY <4>3, <4>4, Zenon
    <3>4. \A i \in DOMAIN ChildFilters :
            ChildFilters[i].type = "filter" /\ ChildBuilders(Append(At, i)) <= 1
      BY <3>1, <3>2 DEF ChildBuilders
    <3>. QED  BY <2>8, <3>3, <3>4 DEF FiltersAreProper
  <2>9. CASE Current.type = "leaf" /\ ChildBuilders(At) > 0
    BY <2>3, <2>9 DEF ChildBuilders
  <2>. QED  BY <1>1, <2>5, <2>6, <2>7, <2>8, <2>9 DEF Malformed
<1>3. /\ calls # << >> /\ calls[1].builder = problem.expression /\ captured.grandchild = Start
      /\ Len(calls) = 1 /\ calls[1].at = << >> /\ ~ returning /\ problem.op = "build" => cursor = Null
      /\ CallsFine(problem, calls, returning)
  BY DEF BuildInv
<1>4. Start' = Start
  BY DEF Start
<1>. QED  BY <1>1, <1>2, <1>3, <1>4 DEF BuildInv

(* Sequences and sets *)

\* The loop over the children of a sequence goes over filters that are fine
\* and have nothing below them.
LEMMA VisitIsFine ==
  ASSUME IInv, BuildInv, problem.op # "merge", UNCHANGED problem, status = "running",
         NEW n, n = Len(calls), NEW at, at \in DOMAIN Inner.builder,
         Inner.builder[at].type \in SeveralTypes,
         Fine(problem, Inner.builder, at, IsRoot(problem, n)), NEW first \in Nat \ {0},
         \A q \in DOMAIN Inner.builder :
           \/ q = at \/ Passed(q, at, FALSE)
           \/ \E i \in Nat \ {0} : i < first /\ IsPrefix(Append(at, i), q)
           => Passed(q, At, returning) \/ Fine(problem, Inner.builder, q, IsRoot(problem, n)),
         NEW tree, NEW path, VisitChildren(at, path, tree, first)
  PROVE  BuildInv'
<1>. DEFINE builder == Inner.builder
            m == NChildren(builder, at)
            next == {j \in first..m : NChildren(builder, Append(at, j)) > 0}
            Seen(q) == Passed(q, At, returning) \/ Fine(problem, builder, q, IsRoot(problem, n))
<1>1. /\ calls # << >> /\ IsStack(calls) /\ IsCall(calls[Len(calls)]) /\ IsShape(builder)
      /\ at \in Position /\ m \in Nat /\ Inner = calls[n] /\ IsOrdinary(builder)
      /\ \A i \in Nat \ {0} : Append(at, i) \in DOMAIN builder <=> i <= m
  BY InnerIsFine, ShapeFacts, ChildrenAreNumbered
<1>2. UNCHANGED <<status, captured>>
  BY DEF VisitChildren
<1>3. next = {j \in first..ChildBuilders(at) : ChildBuilders(Append(at, j)) > 0}
  BY DEF ChildBuilders
<1>4. ASSUME NEW i \in Nat \ {0}, i <= m
      PROVE  /\ Append(at, i) \in DOMAIN builder /\ Append(at, i) \in Position
             /\ NChildren(builder, Append(at, i)) \in Nat
             /\ Fine(problem, builder, Append(at, i), IsRoot(problem, n))
  <2>1. Append(at, i) \in DOMAIN builder /\ Append(at, i) \in Position /\ Append(at, i) # << >>
    BY <1>1, <1>4, AppendPosition
  <2>2. NChildren(builder, Append(at, i)) \in Nat
    BY <1>1, <2>1, ChildrenAreNumbered
  <2>3. i \in 1..m
    <3>. HIDE DEF m
    <3>. QED  BY <1>1, <1>4
  <2>4. builder[Append(at, i)].type = "filter" /\ NChildren(builder, Append(at, i)) <= 1
    BY <2>3 DEF Fine
  <2>. QED  BY <1>1, <2>1, <2>2, <2>4, FilterIsFine
<1>5. ASSUME NEW q \in DOMAIN builder, NEW i \in Nat \ {0}, i <= m, first <= i, i \notin next,
             IsPrefix(Append(at, i), q)
      PROVE  Seen(q)
  <2>1. i \in first..m
    <3>. HIDE DEF m
    <3>. QED  BY <1>1, <1>5
  <2>2. ~ NChildren(builder, Append(at, i)) > 0
    BY <1>5, <2>1
  <2>3. NChildren(builder, Append(at, i)) = 0
    BY <1>4, <1>5, <2>2
  <2>4. q = Append(at, i)
    BY <1>1, <1>4, <1>5, <2>3, OnlyTheChild
  <2>. QED  BY <1>4, <1>5, <2>4
<1>6. ASSUME NEW q \in DOMAIN builder, NEW i \in Nat \ {0}, i < first,
             IsPrefix(Append(at, i), q)
      PROVE  Seen(q)
  BY <1>6
<1>7. \A q \in DOMAIN builder : q = at \/ Passed(q, at, FALSE) => Seen(q)
  OBVIOUS
<1>8. CASE next = {}
  <2>1. GoTo(at) /\ returning' = TRUE
    BY <1>3, <1>8 DEF VisitChildren
  <2>2. IsMoved(calls, calls', at)
    <3>1. IsUpdate(calls, calls', at)
      BY <2>1 DEF GoTo, IsUpdate
    <3>. QED  BY <1>1, <3>1, StackMoves
  <2>3. ASSUME NEW q \in DOMAIN builder, Passed(q, at, TRUE) PROVE Seen(q)
    <3>1. \/ q = at \/ Passed(q, at, FALSE)
          \/ \E i \in 1..m : Append(at, i) \in DOMAIN builder /\ IsPrefix(Append(at, i), q)
      BY <1>1, <2>3, PassedHere
    <3>2. ASSUME NEW i \in 1..m, IsPrefix(Append(at, i), q) PROVE Seen(q)
      <4>1. i \in Nat \ {0} /\ i <= m
        <5>. HIDE DEF m
        <5>. QED  BY <1>1, <3>2
      <4>2. CASE i < first
        BY <1>6, <3>2, <4>1, <4>2
      <4>3. CASE ~ i < first
        <5>1. first <= i
          BY <4>1, <4>3
        <5>. QED  BY <1>5, <1>8, <3>2, <4>1, <5>1
      <4>. QED  BY <4>2, <4>3
    <3>. QED  BY <1>7, <3>1, <3>2
  <2>4. \A q \in DOMAIN Inner.builder : Passed(q, at, returning') =>
          Passed(q, At, returning) \/ Fine(problem, Inner.builder, q, IsRoot(problem, n))
    BY <2>1, <2>3 DEF Passed
  <2>. QED  BY <1>1, <1>2, <2>1, <2>2, <2>4, TopMoves
<1>9. CASE next # {}
  <2>. DEFINE j == Min(next)
              low == Append(Append(at, j), 1)
  <2>1. returning' = FALSE /\ IsUpdate(calls, calls', at \o <<j, 1>>)
    BY <1>3, <1>9 DEF VisitChildren, GoTo, IsUpdate
  <2>2. j \in next /\ \A i \in next : j <= i
    <3>1. next \subseteq Nat
      BY <1>1
    <3>. HIDE DEF next
    <3>2. \E x \in next : \A y \in next : x <= y
      BY <1>9, <3>1, LeastElement
    <3>. QED  BY <3>2 DEF Min
  <2>3. j \in Nat \ {0} /\ j <= m /\ first <= j
    <3>1. j \in first..m
      BY <2>2
    <3>. HIDE DEF j, m
    <3>. QED  BY <1>1, <3>1
  <2>. HIDE DEF j
  <2>4. at \o <<j, 1>> = low /\ low \in Position /\ low # << >> /\ Append(at, j) \in Position
        /\ 1 \in Nat \ {0}
    <3>1. at \o <<j, 1>> = low /\ low \in Position /\ Append(at, j) \in Position
      BY <1>1, <2>3, TwoBelow
    <3>2. 1 \in Nat \ {0}
      OBVIOUS
    <3>. QED  BY <3>1, <3>2, AppendPosition
  <2>5. IsMoved(calls, calls', low)
    BY <1>1, <2>1, <2>4, StackMoves
  <2>6. ASSUME NEW q \in DOMAIN builder, Passed(q, low, FALSE) PROVE Seen(q)
    <3>1. q \in Position
      BY <1>1, ShapeFacts
    <3>2. \/ q = Append(at, j) \/ Passed(q, Append(at, j), FALSE)
          \/ \E i \in Nat \ {0} : i < 1 /\ IsPrefix(Append(Append(at, j), i), q)
          \/ FALSE /\ IsPrefix(Append(Append(at, j), 1), q)
      BY <2>4, <2>6, <3>1, PassedAtChild
    <3>3. \A i \in Nat \ {0} : ~ i < 1
      OBVIOUS
    <3>4. CASE q = Append(at, j)
      BY <1>4, <2>3, <3>4
    <3>5. CASE Passed(q, Append(at, j), FALSE)
      <4>1. \/ q = at \/ Passed(q, at, FALSE)
            \/ \E i \in Nat \ {0} : i < j /\ IsPrefix(Append(at, i), q)
            \/ FALSE /\ IsPrefix(Append(at, j), q)
        BY <1>1, <2>3, <3>1, <3>5, PassedAtChild
      <4>2. ASSUME NEW i \in Nat \ {0}, i < j, IsPrefix(Append(at, i), q) PROVE Seen(q)
        <5>1. CASE i < first
          BY <1>6, <4>2, <5>1
        <5>2. CASE ~ i < first
          <6>1. first <= i /\ i <= m /\ ~ j <= i
            <7>. HIDE DEF m
            <7>. QED  BY <1>1, <2>3, <4>2, <5>2
          <6>2. i \notin next
            BY <2>2, <6>1
          <6>. QED  BY <1>5, <4>2, <6>1, <6>2
        <5>. QED  BY <5>1, <5>2
      <4>. QED  BY <1>7, <4>1, <4>2
    <3>. QED  BY <3>2, <3>3, <3>4, <3>5
  <2>7. \A q \in DOMAIN Inner.builder : Passed(q, low, returning') =>
          Passed(q, At, returning) \/ Fine(problem, Inner.builder, q, IsRoot(problem, n))
    BY <2>1, <2>6 DEF Passed
  <2>. HIDE DEF low
  <2>. QED  BY <1>1, <1>2, <2>1, <2>4, <2>5, <2>7, TopMoves
<1>. QED  BY <1>8, <1>9

LEMMA SeveralStayFine ==
  ASSUME IInv, BuildInv, problem.op # "merge", UNCHANGED problem, InsertSequenceOrSet
  PROVE  BuildInv'
<1>. DEFINE n == Len(calls)
            builder == Inner.builder
            at == At
<1>0. n = Len(calls)
  OBVIOUS
<1>. HIDE DEF n
<1>1. /\ Entered /\ Current.type \in {"sequence", "set"} /\ FiltersAreProper
      /\ Current.type = "domain" <=> cursor = Null
  BY DEF InsertSequenceOrSet, HasType
<1>2. Current.type \in SeveralTypes /\ Current.type # "leaf" /\ Current.type # "expansion"
  BY <1>1 DEF SeveralTypes
<1>3. at \in DOMAIN builder /\ Current = builder[at] /\ IsOrdinary(builder)
  BY InnerIsFine DEF Current
<1>4. Current.from # "subtree"
  BY <1>2, <1>3 DEF IsOrdinary
<1>5. Fine(problem, builder, at, IsRoot(problem, n))
  BY <1>0, <1>1, <1>2, <1>4, EnteredIsFine
<1>6. ~ returning /\ status = "running"
  BY <1>1 DEF Entered
<1>7. PICK tree, path : VisitChildren(at, path, tree, 1)
  BY DEF InsertSequenceOrSet
<1>8. ASSUME NEW q \in DOMAIN builder,
             \/ q = at \/ Passed(q, at, FALSE)
             \/ \E i \in Nat \ {0} : i < 1 /\ IsPrefix(Append(at, i), q)
      PROVE  Passed(q, At, returning) \/ Fine(problem, builder, q, IsRoot(problem, n))
  <2>1. \A i \in Nat \ {0} : ~ i < 1
    OBVIOUS
  <2>2. q = at \/ Passed(q, at, FALSE)
    BY <1>8, <2>1
  <2>3. Passed(q, at, FALSE) => Passed(q, At, returning)
    BY DEF Passed
  <2>. QED  BY <1>5, <2>2, <2>3
<1>9. 1 \in Nat \ {0} /\ builder[at].type \in SeveralTypes
  BY <1>2, <1>3
<1>. HIDE DEF at, builder
<1>. QED  BY <1>0, <1>3, <1>5, <1>6, <1>7, <1>8, <1>9, VisitIsFine DEF builder, at

LEMMA ReturnToSequenceIsFine ==
  ASSUME IInv, BuildInv, problem.op # "merge", UNCHANGED problem, ReturnToSequence
  PROVE  BuildInv'
<1>. DEFINE n == Len(calls)
            builder == Inner.builder
            f == Front(At)
            at == Front(f)
            j == Last(f)
            k == Last(At)
<1>0. n = Len(calls)
  OBVIOUS
<1>. HIDE DEF n
<1>1. /\ returning /\ status = "running" /\ At # << >> /\ f # << >>
      /\ builder[at].type \in SeveralTypes
  <2>1. Returned /\ At # << >> /\ FilterOfSequence(f)
    BY DEF ReturnToSequence
  <2>2. f \in Position
    BY <2>1, InnerIsFine, FrontPosition
  <2>3. f # << >>
    BY <2>1, <2>2 DEF FilterOfSequence, Position
  <2>. QED  BY <2>1, <2>3 DEF Returned, FilterOfSequence, SeveralTypes
<1>2. /\ IsShape(builder) /\ At \in DOMAIN builder /\ At \in Position
      /\ f \in DOMAIN builder /\ f \in Position /\ at \in DOMAIN builder /\ at \in Position
      /\ \A q \in DOMAIN builder :
           Passed(q, At, returning) => Fine(problem, builder, q, IsRoot(problem, n))
  <2>1. /\ IsShape(builder) /\ At \in DOMAIN builder /\ At \in Position
        /\ \A q \in DOMAIN builder :
             Passed(q, At, returning) => Fine(problem, builder, q, IsRoot(problem, n))
    BY <1>0, InnerIsFine
  <2>2. f \in DOMAIN builder /\ f \in Position
    BY <1>1, <2>1, ShapeFacts
  <2>3. at \in DOMAIN builder /\ at \in Position
    BY <1>1, <2>1, <2>2, ShapeFacts
  <2>. QED  BY <2>1, <2>2, <2>3
<1>3. j \in Nat \ {0} /\ f = Append(at, j) /\ k \in Nat \ {0} /\ At = Append(f, k)
  BY <1>1, <1>2, FrontPosition
<1>4. PICK tree, path : VisitChildren(at, path, tree, j + 1)
  BY DEF ReturnToSequence
<1>. HIDE DEF f, at, j, k
<1>5. \A q \in Position : Passed(q, At, returning) <=>
        \/ q = f \/ Passed(q, f, FALSE)
        \/ \E i \in Nat \ {0} : i < k /\ IsPrefix(Append(f, i), q)
        \/ returning /\ IsPrefix(Append(f, k), q)
  <2>0. f \in Position /\ k \in Nat \ {0}
    BY <1>2, <1>3
  <2>1. \A q \in Position : Passed(q, Append(f, k), returning) <=>
          \/ q = f \/ Passed(q, f, FALSE)
          \/ \E i \in Nat \ {0} : i < k /\ IsPrefix(Append(f, i), q)
          \/ returning /\ IsPrefix(Append(f, k), q)
    BY <2>0, PassedAtChild
  <2>. QED  BY <1>3, <2>1
<1>6. \A q \in Position : Passed(q, f, FALSE) <=>
        \/ q = at \/ Passed(q, at, FALSE)
        \/ \E i \in Nat \ {0} : i < j /\ IsPrefix(Append(at, i), q)
        \/ FALSE /\ IsPrefix(Append(at, j), q)
  BY <1>2, <1>3, PassedAtChild
<1>7. Fine(problem, builder, at, IsRoot(problem, n))
  BY <1>2, <1>5, <1>6
<1>8. NChildren(builder, f) <= 1
  <2>1. NChildren(builder, at) \in Nat /\ j <= NChildren(builder, at)
    BY <1>2, <1>3, ChildrenAreNumbered
  <2>2. j \in 1..NChildren(builder, at)
    BY <1>3, <2>1
  <2>. QED  BY <1>1, <1>3, <1>7, <2>2 DEF Fine
<1>9. ASSUME NEW q \in DOMAIN builder, IsPrefix(f, q)
      PROVE  Passed(q, At, returning)
  <2>1. q \in Position
    BY <1>2, ShapeFacts
  <2>2. CASE q = f
    BY <1>5, <2>1, <2>2
  <2>3. CASE q # f
    <3>. DEFINE x == q[Len(f) + 1]
    <3>1. x \in Nat \ {0} /\ IsPrefix(Append(f, x), q)
      BY <1>2, <1>9, <2>1, <2>3, NextBelow
    <3>. HIDE DEF x
    <3>2. Append(f, x) \in Position
      BY <1>2, <3>1, AppendPosition
    <3>3. Append(f, x) \in DOMAIN builder
      BY <1>2, <3>1, <3>2, AboveAreThere
    <3>4. NChildren(builder, f) \in Nat /\ x <= NChildren(builder, f) /\ k <= NChildren(builder, f)
      BY <1>2, <1>3, <3>1, <3>3, ChildrenAreNumbered
    <3>5. x = k
      BY <1>3, <1>8, <3>1, <3>4
    <3>. QED  BY <1>1, <1>5, <2>1, <3>1, <3>5
  <2>. QED  BY <2>2, <2>3
<1>10. ASSUME NEW q \in DOMAIN builder,
              \/ q = at \/ Passed(q, at, FALSE)
              \/ \E i \in Nat \ {0} : i < j + 1 /\ IsPrefix(Append(at, i), q)
       PROVE  Passed(q, At, returning)
  <2>1. q \in Position
    BY <1>2, ShapeFacts
  <2>2. CASE q = at \/ Passed(q, at, FALSE)
    BY <1>5, <1>6, <2>1, <2>2
  <2>3. ASSUME NEW i \in Nat \ {0}, i < j + 1, IsPrefix(Append(at, i), q)
        PROVE  Passed(q, At, returning)
    <3>1. CASE i < j
      BY <1>5, <1>6, <2>1, <2>3, <3>1
    <3>2. CASE ~ i < j
      <4>1. i = j
        BY <1>3, <2>3, <3>2
      <4>. QED  BY <1>3, <1>9, <2>3, <4>1
    <3>. QED  BY <3>1, <3>2
  <2>. QED  BY <1>10, <2>2, <2>3
<1>11. j + 1 \in Nat \ {0}
  BY <1>3
<1>. DEFINE first == j + 1
<1>. HIDE DEF first
<1>12. \A q \in DOMAIN builder :
         \/ q = at \/ Passed(q, at, FALSE)
         \/ \E i \in Nat \ {0} : i < first /\ IsPrefix(Append(at, i), q)
         => Passed(q, At, returning) \/ Fine(problem, builder, q, IsRoot(problem, n))
  BY <1>10 DEF first
<1>13. first \in Nat \ {0} /\ VisitChildren(at, path, tree, first)
  BY <1>4, <1>11 DEF first
<1>. QED  BY <1>0, <1>1, <1>2, <1>7, <1>12, <1>13, VisitIsFine

LEMMA ReturnToParentIsFine ==
  ASSUME IInv, BuildInv, problem.op # "merge", UNCHANGED problem, ReturnToParent
  PROVE  BuildInv'
<1>. DEFINE n == Len(calls)
            builder == Inner.builder
            at == Front(At)
            j == Last(At)
            m == NChildren(builder, at)
<1>0. n = Len(calls)
  OBVIOUS
<1>. HIDE DEF n
<1>1. /\ returning /\ status = "running" /\ At # << >> /\ GoTo(at)
      /\ UNCHANGED <<status, returning, captured>>
  BY DEF ReturnToParent, Returned
<1>2. /\ calls # << >> /\ IsStack(calls) /\ IsCall(calls[Len(calls)]) /\ IsShape(builder)
      /\ At \in DOMAIN builder /\ At \in Position /\ Inner = calls[n] /\ IsCall(Inner)
      /\ \A q \in DOMAIN builder :
           Passed(q, At, returning) => Fine(problem, builder, q, IsRoot(problem, n))
  BY <1>0, InnerIsFine
<1>3. at \in DOMAIN builder /\ at \in Position /\ j \in Nat \ {0} /\ At = Append(at, j)
  BY <1>1, <1>2, ShapeFacts, FrontPosition
<1>4. builder[at].type \notin SeveralTypes
  BY <1>1, <1>2 DEF IsCall, At
<1>5. IsMoved(calls, calls', at)
  <2>1. IsUpdate(calls, calls', at)
    BY <1>1 DEF GoTo, IsUpdate
  <2>. QED  BY <1>2, <2>1, StackMoves
<1>. HIDE DEF at, j
<1>6. \A q \in Position : Passed(q, At, returning) <=>
        \/ q = at \/ Passed(q, at, FALSE)
        \/ \E i \in Nat \ {0} : i < j /\ IsPrefix(Append(at, i), q)
        \/ returning /\ IsPrefix(Append(at, j), q)
  BY <1>3, PassedAtChild
<1>7. m \in Nat /\ m <= 1 /\ j <= m
  <2>1. Fine(problem, builder, at, IsRoot(problem, n))
    BY <1>2, <1>3, <1>6
  <2>2. m <= 1
    BY <1>4, <2>1 DEF Fine
  <2>. QED  BY <1>2, <1>3, <2>2, ChildrenAreNumbered
<1>8. ASSUME NEW q \in DOMAIN builder, Passed(q, at, TRUE)
      PROVE  Passed(q, At, returning)
  <2>1. q \in Position
    BY <1>2, ShapeFacts
  <2>2. \/ q = at \/ Passed(q, at, FALSE)
        \/ \E i \in 1..m : Append(at, i) \in DOMAIN builder /\ IsPrefix(Append(at, i), q)
    BY <1>2, <1>3, <1>8, PassedHere
  <2>3. ASSUME NEW i \in 1..m, IsPrefix(Append(at, i), q) PROVE Passed(q, At, returning)
    <3>1. i = j
      <4>. HIDE DEF m
      <4>. QED  BY <1>3, <1>7, <2>3
    <3>. QED  BY <1>1, <1>6, <2>1, <2>3, <3>1
  <2>. QED  BY <1>6, <2>1, <2>2, <2>3
<1>9. \A q \in DOMAIN Inner.builder : Passed(q, at, returning') =>
        Passed(q, At, returning) \/ Fine(problem, Inner.builder, q, IsRoot(problem, n))
  BY <1>1, <1>8 DEF Passed
<1>. QED  BY <1>0, <1>1, <1>5, <1>9, TopMoves

(* Builders inside of others *)

\* A call that starts has passed nothing.
LEMMA NewCallFine ==
  ASSUME NEW p, NEW call, IsShape(call.builder), call.at = << >>, IsOrdinary(call.builder),
         Verdict(p) => AllFine(p, call.builder, FALSE)
  PROVE  CallFine(p, call, FALSE, FALSE)
<1>1. \A q \in DOMAIN call.builder : ~ Passed(q, call.at, FALSE)
  BY ShapeFacts, NothingPassed
<1>. QED  BY <1>1 DEF CallFine, Verdict

LEMMA CallsFinePushed ==
  ASSUME NEW p, NEW c, IsStack(c), NEW n \in Nat \ {0}, n = Len(c), CallsFine(p, c, FALSE),
         NEW call, CallFine(p, call, FALSE, FALSE), WaitsFor(p, c[n], call, IsRoot(p, n))
  PROVE  CallsFine(p, Append(c, call), FALSE)
<1>. DEFINE new == Append(c, call)
<1>1. /\ Len(new) = n + 1 /\ new[n + 1] = call /\ \A k \in 1..n : new[k] = c[k]
  BY StackGrows
<1>. HIDE DEF new
<1>2. ASSUME NEW k \in 1..(n + 1)
      PROVE  CallFine(p, new[k], IsRoot(p, k), k = Len(new) /\ FALSE)
  <2>. DEFINE flag == k = Len(new) /\ FALSE
  <2>0. FALSE <=> flag
    OBVIOUS
  <2>. HIDE DEF flag
  <2>1. CASE k = n + 1
    <3>1. IsRoot(p, k) = FALSE
      <4>1. k # 1
        BY <2>1
      <4>. QED  BY <4>1 DEF IsRoot
    <3>2. CallFine(p, new[k], IsRoot(p, k), FALSE)
      BY <1>1, <2>1, <3>1
    <3>3. CallFine(p, new[k], IsRoot(p, k), flag)
      BY <2>0, <3>2, SameCallFine
    <3>. QED  BY <3>3 DEF flag
  <2>2. CASE k # n + 1
    <3>1. k \in 1..n
      BY <1>2, <2>2
    <3>. DEFINE before == k = Len(c) /\ FALSE
    <3>2. CallFine(p, c[k], IsRoot(p, k), before)
      BY <3>1 DEF CallsFine
    <3>3. before <=> flag
      BY <2>0
    <3>. HIDE DEF before
    <3>4. CallFine(p, c[k], IsRoot(p, k), flag)
      BY <3>2, <3>3, SameCallFine
    <3>5. new[k] = c[k]
      BY <1>1, <3>1
    <3>. QED  BY <3>4, <3>5 DEF flag
  <2>. QED  BY <2>1, <2>2
<1>3. ASSUME NEW k \in 1..n
      PROVE  WaitsFor(p, new[k], new[k + 1], IsRoot(p, k))
  <2>1. CASE k = n
    BY <1>1, <2>1
  <2>2. CASE k # n
    <3>1. k \in 1..(n - 1) /\ k + 1 \in 1..n /\ k \in 1..n
      BY <1>3, <2>2
    <3>2. WaitsFor(p, c[k], c[k + 1], IsRoot(p, k))
      BY <3>1 DEF CallsFine
    <3>3. new[k] = c[k] /\ new[k + 1] = c[k + 1]
      BY <1>1, <3>1
    <3>. QED  BY <3>2, <3>3
  <2>. QED  BY <2>1, <2>2
<1>4. (n + 1) - 1 = n
  OBVIOUS
<1>5. CallsFine(p, new, FALSE)
  BY <1>1, <1>2, <1>3, <1>4 DEF CallsFine
<1>. QED  BY <1>5 DEF new

LEMMA Pushes ==
  ASSUME IInv, BuildInv, problem.op # "merge", UNCHANGED problem, Entered,
         UNCHANGED <<status, returning, captured>>,
         NEW call, call.at = << >>, IsShape(call.builder), IsOrdinary(call.builder),
         Verdict(problem) => AllFine(problem, call.builder, FALSE),
         WaitsFor(problem, Inner, call, IsRoot(problem, Len(calls))), calls' = Append(calls, call)
  PROVE  BuildInv'
<1>. DEFINE n == Len(calls)
<1>0. n = Len(calls)
  OBVIOUS
<1>. HIDE DEF n
<1>1. /\ calls # << >> /\ IsStack(calls) /\ n \in Nat \ {0} /\ Inner = calls[n]
      /\ CallsFine(problem, calls, returning)
  BY <1>0, InnerIsFine
<1>2. status = "running" /\ ~ returning /\ returning = FALSE
  <2>1. returning \in BOOLEAN
    BY DEF IInv, WalkInv
  <2>. QED  BY <2>1 DEF Entered
<1>3. CallsFine(problem, calls, FALSE)
  BY <1>1, <1>2
<1>4. CallFine(problem, call, FALSE, FALSE)
  BY NewCallFine
<1>5. CallsFine(problem, calls', FALSE)
  BY <1>0, <1>1, <1>3, <1>4, CallsFinePushed
<1>6. calls' # << >> /\ Len(calls') = n + 1 /\ calls'[1] = calls[1]
  <2>1. /\ calls' # << >> /\ Len(calls') = n + 1 /\ \A k \in 1..n : calls'[k] = calls[k]
    BY <1>0, <1>1, StackGrows
  <2>2. 1 \in 1..n
    BY <1>1
  <2>. QED  BY <2>1, <2>2
<1>7. Len(calls') # 1
  BY <1>1, <1>6
<1>8. calls[1].builder = problem.expression /\ captured.grandchild = Start /\ Start' = Start
  BY DEF BuildInv, Start
<1>9. problem' = problem /\ status' = "running" /\ returning' = FALSE
  BY <1>2
<1>. QED  BY <1>5, <1>6, <1>7, <1>8, <1>9 DEF BuildInv

Plain == \A p \in Problems : IsPlain(p)

LEMMA ProblemFacts ==
  ASSUME Plain, IInv, problem.op # "merge"
  PROVE  /\ problem \in Problems /\ IsSchedule(problem.tree)
         /\ IsOrdinary(problem.expression) /\ IsShape(problem.expression)
         /\ \A q \in DOMAIN problem.expression : ~ LosesChild(problem.expression[q])
<1>1. problem \in Problems
  BY DEF IInv, WalkInv
<1>2. IsPlain(problem)
  BY <1>1 DEF Plain
<1>3. IsShape(problem.expression)
  BY <1>1, RewriterAssumption DEF IsDescription
<1>. QED  BY <1>1, <1>2, <1>3 DEF IsPlain

LEMMA CopyShape ==
  ASSUME NEW p \in Problems
  PROVE  IsShape(Copy(p)) /\ << >> \in DOMAIN Copy(p)
<1>1. << >> \in DOMAIN Copy(p)
  <2>1. IsShape(p.tree) /\ p.at \in DOMAIN p.tree
    BY RewriterAssumption DEF IsTree
  <2>. QED  BY <2>1, SubtreeFacts DEF Copy, SubtreeBuilder
<1>. QED  BY <1>1, CopiedFrom

LEMMA EnterSubtreeIsFine ==
  ASSUME Plain, IInv, BuildInv, problem.op # "merge", UNCHANGED problem, EnterSubtree
  PROVE  BuildInv'
<1>. DEFINE n == Len(calls)
            call == CallOf(Copy(problem), Null)
<1>0. n = Len(calls)
  OBVIOUS
<1>. HIDE DEF n
<1>1. /\ Entered /\ Current.type = "leaf" /\ Current.from = "subtree" /\ ChildBuilders(At) = 0
      /\ Current.type = "domain" <=> cursor = Null
      /\ UNCHANGED <<status, cursor, returning, captured>>
  BY DEF EnterSubtree, HasType
<1>2. calls' = Append(calls, call)
  <2>1. captured.grandchild = Start
    BY DEF BuildInv
  <2>2. captured.grandchild.tree = problem.tree /\ captured.grandchild.path = problem.at
    BY <2>1 DEF Start, Handle
  <2>. QED  BY <2>2 DEF EnterSubtree, Copy
<1>3. call.at = << >> /\ call.builder = Copy(problem) /\ call.expanded = Null
  BY DEF CallOf
<1>. HIDE DEF call
<1>4. IsShape(Copy(problem)) /\ IsOrdinary(Copy(problem))
  BY ProblemFacts, CopyShape, CopyIsOrdinary
<1>5. Verdict(problem) => AllFine(problem, Copy(problem), FALSE)
  <2>1. SUFFICES ASSUME Verdict(problem) PROVE AllFine(problem, Copy(problem), FALSE)
    OBVIOUS
  <2>2. Fine(problem, Inner.builder, At, IsRoot(problem, n))
    BY <1>0, <2>1, InnerIsFine DEF AllFine
  <2>3. problem.at # << >>
    BY <1>1, <2>2 DEF Fine, Current
  <2>. QED  BY <2>3, ProblemFacts, CopyIsFine
<1>6. WaitsFor(problem, Inner, call, IsRoot(problem, n))
  <2>1. cursor # Null /\ ~ returning
    BY <1>1 DEF Entered
  <2>2. ~ (IsRoot(problem, n) /\ At = << >>)
    BY <1>0, <2>1, InnerIsFine
  <2>. QED  BY <1>1, <1>3, <2>2 DEF WaitsFor, Current, At, ChildBuilders
<1>. QED  BY <1>0, <1>1, <1>2, <1>3, <1>4, <1>5, <1>6, Pushes

LEMMA EnterExpansionIsFine ==
  ASSUME IInv, BuildInv, problem.op # "merge", UNCHANGED problem, EnterExpansion
  PROVE  BuildInv'
<1>. DEFINE n == Len(calls)
            m == NChildren(Inner.builder, At)
            below == Append(At, 1)
            part == Subtree(Inner.builder, below)
            call == CallOf(part, cursor)
<1>0. n = Len(calls)
  OBVIOUS
<1>. HIDE DEF n
<1>1. /\ Entered /\ Current.type = "expansion" /\ m > 0 /\ ~ IsIdentity(Current.expands)
      /\ Current.type = "domain" <=> cursor = Null
      /\ UNCHANGED <<status, returning, captured>> /\ calls' = Append(calls, call)
  BY DEF EnterExpansion, HasType, ChildBuilders
<1>2. /\ IsShape(Inner.builder) /\ IsOrdinary(Inner.builder)
      /\ At \in DOMAIN Inner.builder /\ At \in Position
  BY <1>0, InnerIsFine
<1>3. m = 1
  <2>1. m \in Nat
    BY <1>2, ChildrenAreNumbered
  <2>2. m <= 1
    BY <1>1, <1>2 DEF IsOrdinary, Current
  <2>3. m > 0
    BY <1>1
  <2>. HIDE DEF m
  <2>. QED  BY <2>1, <2>2, <2>3
<1>4. below \in DOMAIN Inner.builder /\ below # << >>
  <2>1. 1 \in Nat \ {0} /\ 1 <= m
    BY <1>3
  <2>. QED  BY <1>2, <2>1, ChildrenAreNumbered, AppendPosition
<1>5. call.at = << >> /\ call.builder = part /\ call.expanded = cursor /\ cursor # Null
  BY <1>1 DEF CallOf
<1>. HIDE DEF call, below
<1>6. IsShape(part) /\ IsOrdinary(part)
  BY <1>2, <1>4, SubtreeShape, PartIsOrdinary
<1>7. Verdict(problem) => AllFine(problem, part, FALSE)
  <2>1. SUFFICES ASSUME Verdict(problem), NEW r \in DOMAIN part PROVE Fine(problem, part, r, FALSE)
    BY DEF AllFine
  <2>2. AllFine(problem, Inner.builder, IsRoot(problem, n))
    BY <1>0, <2>1, InnerIsFine
  <2>3. below \o r \in DOMAIN Inner.builder
    BY <1>2, <1>4, SubtreeFacts
  <2>4. Fine(problem, Inner.builder, below \o r, IsRoot(problem, n))
    BY <2>2, <2>3 DEF AllFine
  <2>. QED  BY <1>2, <1>4, <2>4, PartIsFine
<1>8. WaitsFor(problem, Inner, call, IsRoot(problem, n))
  <2>1. cursor # Null /\ ~ returning
    BY <1>1 DEF Entered
  <2>2. ~ (IsRoot(problem, n) /\ At = << >>)
    BY <1>0, <2>1, InnerIsFine
  <2>. QED  BY <1>1, <1>3, <1>5, <2>2 DEF WaitsFor, Current, At, below
<1>. HIDE DEF part
<1>. QED  BY <1>0, <1>1, <1>5, <1>6, <1>7, <1>8, Pushes

LEMMA CallsFinePopped ==
  ASSUME NEW p, NEW c, IsStack(c), NEW m \in Nat \ {0}, Len(c) = m + 1, NEW ret,
         CallsFine(p, c, ret),
         \A q \in DOMAIN c[m].builder :
           IsPrefix(c[m].at, q) => Fine(p, c[m].builder, q, IsRoot(p, m))
  PROVE  CallsFine(p, Front(c), TRUE)
<1>. DEFINE new == Front(c)
<1>1. Len(new) = m /\ \A k \in 1..m : new[k] = c[k]
  <2>1. c # << >> /\ (m + 1) - 1 = m
    BY StackFacts
  <2>2. Len(new) = Len(c) - 1 /\ \A k \in 1..(Len(c) - 1) : new[k] = c[k]
    BY <2>1, StackShrinks
  <2>. HIDE DEF new
  <2>. QED  BY <2>1, <2>2
<1>. HIDE DEF new
<1>2. ASSUME NEW k \in 1..m
      PROVE  CallFine(p, new[k], IsRoot(p, k), k = Len(new) /\ TRUE)
  <2>. DEFINE flag == k = Len(new) /\ TRUE
              before == k = Len(c) /\ ret
  <2>1. k \in 1..Len(c) /\ ~ before
    BY <1>2
  <2>2. CallFine(p, c[k], IsRoot(p, k), before)
    BY <2>1 DEF CallsFine
  <2>3. new[k] = c[k]
    BY <1>1
  <2>4. flag <=> k = m
    BY <1>1
  <2>. HIDE DEF before, flag
  <2>5. CASE k # m
    <3>1. before <=> flag
      BY <2>1, <2>4, <2>5
    <3>2. CallFine(p, c[k], IsRoot(p, k), flag)
      BY <2>2, <3>1, SameCallFine
    <3>. QED  BY <2>3, <3>2 DEF flag
  <2>6. CASE k = m
    <3>. DEFINE call == c[m]
                root == IsRoot(p, m)
    <3>1. /\ IsOrdinary(call.builder)
          /\ AllFine(p, p.expression, p.op = "build") => AllFine(p, call.builder, root)
          /\ \A q \in DOMAIN call.builder :
               Passed(q, call.at, before) => Fine(p, call.builder, q, root)
      BY <2>2, <2>6 DEF CallFine
    <3>2. \A q \in DOMAIN call.builder : IsPrefix(call.at, q) => Fine(p, call.builder, q, root)
      OBVIOUS
    <3>3. \A q \in DOMAIN call.builder :
            Passed(q, call.at, flag) => Passed(q, call.at, before) \/ IsPrefix(call.at, q)
      BY DEF Passed
    <3>. HIDE DEF call, root
    <3>4. CallFine(p, call, root, flag)
      BY <3>1, <3>2, <3>3 DEF CallFine
    <3>. QED  BY <2>3, <2>6, <3>4 DEF flag, call, root
  <2>. QED  BY <2>5, <2>6
<1>3. ASSUME NEW k \in 1..(m - 1)
      PROVE  WaitsFor(p, new[k], new[k + 1], IsRoot(p, k))
  <2>1. k \in 1..m /\ k + 1 \in 1..m /\ k \in 1..(Len(c) - 1)
    BY <1>3
  <2>2. WaitsFor(p, c[k], c[k + 1], IsRoot(p, k))
    BY <2>1 DEF CallsFine
  <2>. QED  BY <1>1, <2>1, <2>2
<1>4. CallsFine(p, new, TRUE)
  BY <1>1, <1>2, <1>3 DEF CallsFine
<1>. QED  BY <1>4 DEF new

\* When the call above has come back, all it stands for is fine.
LEMMA WaitedForIsFine ==
  ASSUME NEW p \in Problems, IsSchedule(p.tree), NEW call, NEW next, NEW root,
         WaitsFor(p, call, next, root), IsShape(call.builder), call.at \in DOMAIN call.builder,
         IsOrdinary(call.builder), AllFine(p, next.builder, FALSE),
         NEW q \in DOMAIN call.builder, IsPrefix(call.at, q)
  PROVE  Fine(p, call.builder, q, root)
<1>. DEFINE builder == call.builder
            at == call.at
            n == NChildren(builder, at)
            node == builder[at]
<1>1. at \in Position /\ q \in Position /\ ~ (root /\ at = << >>)
  BY ShapeFacts DEF WaitsFor
<1>2. CASE next.expanded = Null
  <2>1. node.type = "leaf" /\ n = 0 /\ next.builder = Copy(p)
    BY <1>2 DEF WaitsFor
  <2>2. q = at
    BY <2>1, OnlyTheChild
  <2>3. p.at # << >>
    <3>1. SUFFICES ASSUME p.at = << >> PROVE FALSE
      OBVIOUS
    <3>2. ~ Fine(p, Copy(p), << >>, FALSE) /\ << >> \in DOMAIN Copy(p)
      BY <3>1, CopyIsFine, CopyShape
    <3>. QED  BY <2>1, <3>2 DEF AllFine
  <2>4. Fine(p, builder, at, root)
    BY <1>1, <2>1, <2>3, SeveralOrNot DEF Fine
  <2>. QED  BY <2>2, <2>4
<1>3. CASE next.expanded # Null
  <2>. DEFINE below == Append(at, 1)
              part == Subtree(builder, below)
  <2>1. node.type = "expansion" /\ n = 1 /\ ~ IsIdentity(node.expands) /\ next.builder = part
    BY <1>3 DEF WaitsFor
  <2>2. CASE q = at
    <3>1. node.from # "subtree"
      BY <2>1 DEF IsOrdinary
    <3>2. Fine(p, builder, at, root)
      BY <1>1, <2>1, <3>1, SeveralOrNot DEF Fine
    <3>. QED  BY <2>2, <3>2
  <2>3. CASE q # at
    <3>. DEFINE x == q[Len(at) + 1]
    <3>1. x \in Nat \ {0} /\ IsPrefix(Append(at, x), q)
      BY <1>1, <2>3, NextBelow
    <3>. HIDE DEF x
    <3>2. Append(at, x) \in Position /\ Append(at, x) # << >>
      BY <1>1, <3>1, AppendPosition
    <3>3. Append(at, x) \in DOMAIN builder
      BY <3>1, <3>2, AboveAreThere
    <3>4. x <= n
      BY <3>1, <3>3, ChildrenAreNumbered
    <3>5. x = 1
      BY <2>1, <3>1, <3>4
    <3>6. below \in DOMAIN builder /\ below # << >> /\ below \in Position /\ IsPrefix(below, q)
      BY <3>1, <3>2, <3>3, <3>5
    <3>. DEFINE r == From(below, q)
    <3>. HIDE DEF below
    <3>7. r \in Position /\ below \o r = q
      BY <1>1, <3>6, PrefixFrom
    <3>. HIDE DEF r
    <3>8. r \in DOMAIN part
      BY <3>6, <3>7, SubtreeFacts
    <3>9. Fine(p, part, r, FALSE)
      BY <2>1, <3>8 DEF AllFine
    <3>10. Fine(p, builder, below \o r, root)
      BY <3>6, <3>8, <3>9, PartIsFine
    <3>. QED  BY <3>7, <3>10
  <2>. QED  BY <2>2, <2>3
<1>. QED  BY <1>2, <1>3

LEMMA Pops ==
  ASSUME Plain, IInv, BuildInv, problem.op # "merge", Returned, At = << >>,
         Len(calls) > 1, calls' = Front(calls), UNCHANGED <<problem, status, returning, captured>>
  PROVE  BuildInv'
<1>. DEFINE n == Len(calls)
            m == n - 1
<1>0. n = Len(calls)
  OBVIOUS
<1>. HIDE DEF n
<1>1. /\ calls # << >> /\ IsStack(calls) /\ n \in Nat \ {0} /\ Inner = calls[n]
      /\ CallsFine(problem, calls, returning) /\ IsShape(Inner.builder)
      /\ \A q \in DOMAIN Inner.builder :
           Passed(q, At, returning) => Fine(problem, Inner.builder, q, IsRoot(problem, n))
  BY <1>0, InnerIsFine
<1>2. m \in Nat \ {0} /\ n = m + 1 /\ n # 1 /\ m \in 1..n /\ m \in 1..(n - 1)
  BY <1>0, <1>1
<1>3. returning = TRUE /\ status = "running"
  <2>1. returning \in BOOLEAN
    BY DEF IInv, WalkInv
  <2>. QED  BY <2>1 DEF Returned
<1>4. AllFine(problem, calls[n].builder, FALSE)
  <2>1. SUFFICES ASSUME NEW q \in DOMAIN Inner.builder
                 PROVE  Fine(problem, Inner.builder, q, FALSE)
    BY <1>1 DEF AllFine
  <2>2. Passed(q, At, returning)
    BY <1>1, <1>3, ShapeFacts, NothingPassed
  <2>3. IsRoot(problem, n) = FALSE
    BY <1>2 DEF IsRoot
  <2>. QED  BY <1>1, <2>2, <2>3
<1>5. problem \in Problems /\ IsSchedule(problem.tree)
  BY ProblemFacts
<1>6. /\ IsShape(calls[m].builder) /\ calls[m].at \in DOMAIN calls[m].builder
      /\ IsOrdinary(calls[m].builder)
  <2>1. DOMAIN calls = 1..n
    BY <1>0, <1>1, StackFacts
  <2>2. IsCall(calls[m])
    BY <1>2, <2>1 DEF IInv, CallsInv
  <2>. DEFINE flag == m = Len(calls) /\ returning
  <2>3. CallFine(problem, calls[m], IsRoot(problem, m), flag)
    BY <1>0, <1>1, <1>2 DEF CallsFine
  <2>. HIDE DEF flag
  <2>4. IsOrdinary(calls[m].builder)
    BY <2>3 DEF CallFine
  <2>. QED  BY <2>2, <2>4, CallFacts
<1>7. WaitsFor(problem, calls[m], calls[n], IsRoot(problem, m))
  BY <1>0, <1>1, <1>2 DEF CallsFine
<1>. HIDE DEF m
<1>8. \A q \in DOMAIN calls[m].builder :
        IsPrefix(calls[m].at, q) => Fine(problem, calls[m].builder, q, IsRoot(problem, m))
  BY <1>4, <1>5, <1>6, <1>7, WaitedForIsFine
<1>9. CallsFine(problem, calls', TRUE)
  <2>1. CallsFine(problem, Front(calls), TRUE)
    BY <1>0, <1>1, <1>2, <1>8, CallsFinePopped
  <2>. QED  BY <2>1
<1>10. Len(calls') = m /\ \A k \in 1..m : calls'[k] = calls[k]
  <2>1. Len(calls') = n - 1 /\ \A k \in 1..(n - 1) : calls'[k] = calls[k]
    BY <1>0, <1>1, StackShrinks
  <2>. QED  BY <2>1 DEF m
<1>11. calls' # << >> /\ calls'[1] = calls[1]
  <2>1. 1 \in 1..m /\ Len(calls') # 0
    BY <1>2, <1>10
  <2>. QED  BY <1>10, <2>1
<1>12. calls[1].builder = problem.expression /\ captured.grandchild = Start /\ Start' = Start
  BY DEF BuildInv, Start
<1>13. problem' = problem /\ status' = "running" /\ returning' = TRUE
  BY <1>3
<1>. QED  BY <1>9, <1>11, <1>12, <1>13 DEF BuildInv

LEMMA ReturnFromSubtreeIsFine ==
  ASSUME Plain, IInv, BuildInv, problem.op # "merge", UNCHANGED problem, ReturnFromSubtree
  PROVE  BuildInv'
<1>1. /\ Returned /\ At = << >> /\ Len(calls) > 1 /\ calls' = Front(calls)
      /\ UNCHANGED <<status, returning, captured>>
  BY DEF ReturnFromSubtree
<1>. QED  BY <1>1, Pops

LEMMA ExpandScheduleIsFine ==
  ASSUME Plain, IInv, BuildInv, problem.op # "merge", UNCHANGED problem, ExpandSchedule
  PROVE  BuildInv'
<1>1. /\ Returned /\ At = << >> /\ Inner.expanded # Null /\ calls' = Front(calls)
      /\ UNCHANGED <<status, returning, captured>>
  BY DEF ExpandSchedule
<1>2. calls # << >>
  BY DEF BuildInv
<1>3. PICK b : IsFraming(b)
  BY <1>2, Framing
<1>. DEFINE n == Len(calls)
            node == Inner.expanded
            m == Len(calls) - 1
<1>4. n = Len(calls) /\ node = Inner.expanded /\ m = Len(calls) - 1
  OBVIOUS
<1>. HIDE DEF n, node, m
<1>5. n > 1
  BY <1>1, <1>3, <1>4, ExpansionFacts
<1>. QED  BY <1>1, <1>4, <1>5, Pops

\* The handle that waits for an expansion gets another tree: the calls go on
\* waiting at the same nodes.
LEMMA CallsFineMarked ==
  ASSUME NEW p, NEW c, NEW n \in Nat \ {0}, n = Len(c), NEW ret, CallsFine(p, c, ret),
         NEW new, Len(new) = n, \A k \in 1..(n - 1) : new[k] = c[k],
         new[n].builder = c[n].builder, new[n].at = c[n].at,
         c[n].expanded # Null, new[n].expanded # Null
  PROVE  CallsFine(p, new, ret)
<1>1. ASSUME NEW k \in 1..n
      PROVE  CallFine(p, new[k], IsRoot(p, k), k = Len(new) /\ ret)
  <2>. DEFINE flag == k = Len(new) /\ ret
              before == k = Len(c) /\ ret
              root == IsRoot(p, k)
  <2>1. before <=> flag
    OBVIOUS
  <2>2. CallFine(p, c[k], root, before)
    BY DEF CallsFine
  <2>3. new[k].builder = c[k].builder /\ new[k].at = c[k].at
    <3>1. k = n \/ k \in 1..(n - 1)
      OBVIOUS
    <3>. QED  BY <3>1
  <2>. HIDE DEF flag, before, root
  <2>4. CallFine(p, c[k], root, flag)
    BY <2>1, <2>2, SameCallFine
  <2>5. CallFine(p, new[k], root, flag)
    BY <2>3, <2>4 DEF CallFine
  <2>. QED  BY <2>5 DEF flag, root
<1>2. ASSUME NEW k \in 1..(n - 1)
      PROVE  WaitsFor(p, new[k], new[k + 1], IsRoot(p, k))
  <2>1. WaitsFor(p, c[k], c[k + 1], IsRoot(p, k))
    BY DEF CallsFine
  <2>2. new[k] = c[k]
    OBVIOUS
  <2>3. /\ new[k + 1].builder = c[k + 1].builder
        /\ new[k + 1].expanded = Null <=> c[k + 1].expanded = Null
    <3>1. k + 1 = n \/ k + 1 \in 1..(n - 1)
      OBVIOUS
    <3>. QED  BY <3>1
  <2>. QED  BY <2>1, <2>2, <2>3 DEF WaitsFor
<1>. QED  BY <1>1, <1>2 DEF CallsFine

LEMMA MarkIsFine ==
  ASSUME IInv, BuildInv, problem.op # "merge", UNCHANGED problem, InsertMark
  PROVE  BuildInv'
<1>. DEFINE node == Inner.expanded
            path == node.path
            marked == Graft(node.tree, path, Over(ExpandMark, <<Subtree(node.tree, path)>>))
            n == Len(calls)
            m == Len(calls) - 1
<1>0. n = Len(calls) /\ node = Inner.expanded /\ m = Len(calls) - 1
  OBVIOUS
<1>1. /\ Returned /\ At = << >> /\ node # Null /\ node.tree[path] # ExpandMark
      /\ calls' = [calls EXCEPT ![Len(calls)].expanded.tree = marked]
      /\ UNCHANGED <<status, cursor, returning, captured>>
  BY DEF InsertMark
<1>2. calls # << >> /\ returning
  BY <1>1, ReturnedFacts
<1>3. PICK b : IsFraming(b)
  BY <1>2, Framing
<1>4. IsMarking(calls, calls', marked)
  BY <1>1 DEF IsMarking
<1>. HIDE DEF n, m, node
<1>5. /\ IsStack(calls) /\ Inner = calls[n] /\ n \in Nat \ {0} /\ n > 1
      /\ \A k \in DOMAIN calls : IsCall(calls[k])
      /\ n \in DOMAIN calls /\ Placed(node) /\ MarkedAt(node)
      /\ IsTree(node.tree) /\ path \in DOMAIN node.tree /\ path \in Position
  BY <1>0, <1>1, <1>3, ExpansionFacts
<1>6. Unmarked(node.tree)
  BY <1>1, <1>5 DEF MarkedAt, Unmarked
<1>7. IsTree(marked) /\ path \in DOMAIN marked
  BY <1>5, <1>6, MarkedGraft
<1>. HIDE DEF marked
<1>8. node = Handle(node.tree, path)
  BY <1>5 DEF Placed
<1>9. calls[n].expanded = Handle(calls[n].expanded.tree, calls[n].expanded.path) /\ IsCall(calls[n])
  BY <1>0, <1>5, <1>8
<1>10. IsMarked(calls, calls', marked, n)
  BY <1>0, <1>2, <1>4, <1>5, <1>9, StackMarks
<1>11. /\ calls' # << >> /\ Len(calls') = n /\ \A k \in 1..(n - 1) : calls'[k] = calls[k]
       /\ calls'[n].builder = calls[n].builder /\ calls'[n].at = calls[n].at
       /\ calls'[n].expanded = Handle(marked, path)
  BY <1>0, <1>5, <1>10 DEF IsMarked
<1>12. calls'[n].expanded # Null /\ calls[n].expanded # Null
  BY <1>0, <1>1, <1>5, <1>7, <1>11, HandleFacts
<1>. HIDE DEF path
<1>13. CallsFine(problem, calls, returning)
  BY DEF BuildInv
<1>14. CallsFine(problem, calls', returning)
  BY <1>0, <1>5, <1>11, <1>12, <1>13, CallsFineMarked
<1>15. calls'[1].builder = problem.expression
  <2>1. 1 \in 1..(n - 1)
    BY <1>5
  <2>. QED  BY <1>11, <2>1 DEF BuildInv
<1>16. captured.grandchild = Start /\ Start' = Start
  BY DEF BuildInv, Start
<1>17. problem' = problem /\ returning' = returning /\ status' = "running"
       /\ captured' = captured
  BY <1>1 DEF Returned
<1>18. returning' /\ calls' # << >> /\ captured'.grandchild = Start'
  BY <1>2, <1>11, <1>16, <1>17
<1>19. CallsFine(problem', calls', returning')
  BY <1>14, <1>17
<1>. QED  BY <1>15, <1>17, <1>18, <1>19 DEF BuildInv

LEMMA DeleteIsFine ==
  ASSUME IInv, BuildInv, problem.op # "merge", UNCHANGED problem, DeleteMark
  PROVE  BuildInv'
<1>1. /\ status = "running" /\ cursor # Null /\ cursor.tree[cursor.path] = ExpandMark
      /\ UNCHANGED <<status, calls, returning, captured>>
  BY DEF DeleteMark, AtMark
<1>2. returning
  <2>1. Placed(cursor) /\ (~ returning => Unmarked(cursor.tree))
    BY <1>1 DEF IInv, CursorInv
  <2>2. IsExpandMark(ExpandMark)
    BY NewNodes DEF ExpandMark, IsExpandMark
  <2>. QED  BY <1>1, <2>1, <2>2 DEF Placed, Unmarked
<1>3. Start' = Start
  BY DEF Start
<1>. QED  BY <1>1, <1>2, <1>3 DEF BuildInv

LEMMA BuildStepIsFine ==
  ASSUME Plain, IInv, BuildInv, BuildStep
  PROVE  BuildInv'
<1>1. InsertAtStep /\ UNCHANGED problem
  BY DEF BuildStep
<1>2. CASE problem.op = "merge"
  BY <1>1, <1>2 DEF BuildInv
<1>3. CASE problem.op # "merge"
  <2>1. CASE InsertDomain \/ InsertBand \/ InsertFilter \/ InsertNamed \/ InsertExtension
    BY <1>1, <1>3, <2>1, SinglesStayFine
  <2>2. CASE InsertSequenceOrSet
    BY <1>1, <1>3, <2>2, SeveralStayFine
  <2>3. CASE StayAtLeaf
    BY <1>1, <1>3, <2>3, LeafStaysFine
  <2>4. CASE EnterSubtree
    BY <1>1, <1>3, <2>4, EnterSubtreeIsFine
  <2>5. CASE FailAssertion
    BY <1>1, <1>3, <2>5, FailIsJustified
  <2>6. CASE EnterExpansion
    BY <1>1, <1>3, <2>6, EnterExpansionIsFine
  <2>7. CASE InsertMark
    BY <1>1, <1>3, <2>7, MarkIsFine
  <2>8. CASE ExpandSchedule
    BY <1>1, <1>3, <2>8, ExpandScheduleIsFine
  <2>9. CASE DeleteMark
    BY <1>1, <1>3, <2>9, DeleteIsFine
  <2>10. CASE ReturnToSequence
    BY <1>1, <1>3, <2>10, ReturnToSequenceIsFine
  <2>11. CASE ReturnToParent
    BY <1>1, <1>3, <2>11, ReturnToParentIsFine
  <2>12. CASE ReturnFromSubtree
    BY <1>1, <1>3, <2>12, ReturnFromSubtreeIsFine
  <2>. QED  BY <1>1, <2>1, <2>2, <2>3, <2>4, <2>5, <2>6, <2>7, <2>8, <2>9, <2>10, <2>11, <2>12
            DEF InsertAtStep
<1>. QED  BY <1>2, <1>3

\* The first call has returned from its root: nothing is left to come to.
LEMMA FinishIsFine ==
  ASSUME IInv, BuildInv, FinishBuild
  PROVE  BuildInv'
<1>1. /\ Returned /\ At = << >> /\ Len(calls) = 1 /\ problem.op # "merge" /\ status' = "done"
      /\ UNCHANGED <<cursor, calls, returning, captured, problem, visit>>
  BY DEF FinishBuild, BuilderReturns
<1>2. returning
  BY <1>1 DEF Returned
<1>3. calls[1].builder = problem.expression
  BY <1>1 DEF BuildInv
<1>. DEFINE n == Len(calls)
<1>4. n = Len(calls)
  OBVIOUS
<1>. HIDE DEF n
<1>5. /\ n = 1 /\ Inner = calls[n] /\ IsShape(Inner.builder)
      /\ \A q \in DOMAIN Inner.builder :
           Passed(q, At, returning) => Fine(problem, Inner.builder, q, IsRoot(problem, n))
  BY <1>1, <1>4, InnerIsFine
<1>6. Verdict(problem)
  <2>. DEFINE root == problem.op = "build"
  <2>1. IsRoot(problem, n) = root
    BY <1>5 DEF IsRoot
  <2>. HIDE DEF root
  <2>2. \A q \in DOMAIN problem.expression : Fine(problem, problem.expression, q, root)
    <3>1. SUFFICES ASSUME NEW q \in DOMAIN problem.expression
                   PROVE  Fine(problem, problem.expression, q, root)
      OBVIOUS
    <3>2. q \in Position
      BY <1>3, <1>5, ShapeFacts
    <3>3. Passed(q, << >>, TRUE)
      BY <3>2, NothingPassed
    <3>4. Passed(q, At, returning)
      BY <1>1, <1>2, <3>3 DEF Passed
    <3>. QED  BY <1>3, <1>5, <2>1, <3>4
  <2>3. AllFine(problem, problem.expression, root)
    BY <2>2 DEF AllFine
  <2>. QED  BY <2>3 DEF Verdict, root
<1>7. Start' = Start
  BY <1>1 DEF Start
<1>. QED  BY <1>1, <1>2, <1>6, <1>7 DEF BuildInv

LEMMA FineNextPreserves ==
  ASSUME Plain, IInv, BuildInv, [Next]_vars
  PROVE  BuildInv'
<1>1. CASE BuildStep
  BY <1>1, BuildStepIsFine
<1>2. CASE FinishBuild
  BY <1>2, FinishIsFine
<1>3. CASE \/ MatchAndCut \/ MatchAgain \/ VisitFirstChild \/ NothingBelow
           \/ VisitNextChild \/ ReturnToCaller \/ FinishMerge
  <2>1. problem' = problem /\ problem.op = "merge"
    BY <1>3 DEF MatchAndCut, MatchAgain, VisitFirstChild, NothingBelow, VisitNextChild,
                ReturnToCaller, FinishMerge, Visiting
  <2>. QED  BY <2>1 DEF BuildInv
<1>4. CASE UNCHANGED vars
  <2>1. UNCHANGED <<status, cursor, calls, returning, captured, problem>>
    BY <1>4 DEF vars, builderVars
  <2>2. Start' = Start
    BY <2>1 DEF Start
  <2>. QED  BY <2>1, <2>2 DEF BuildInv
<1>. QED  BY <1>1, <1>2, <1>3, <1>4 DEF Next

\* The constructors make what the expression says.
LEMMA NothingLost ==
  ASSUME NEW expression, IsDescription(expression),
         \A q \in DOMAIN expression : ~ LosesChild(expression[q])
  PROVE  Constructed(expression) = expression
<1>. DEFINE lost(q) == \E k \in 0..(Len(q) - 2) : LosesChild(expression[SubSeq(q, 1, k)])
            kept == {q \in DOMAIN expression : ~ lost(q)}
            C == Constructed(expression)
<1>1. /\ IsShape(expression) /\ expression = [q \in DOMAIN expression |-> expression[q]]
      /\ \A q \in DOMAIN expression : q \in Position
  BY ShapeFacts DEF IsDescription
<1>2. ASSUME NEW q \in DOMAIN expression, NEW k \in 0..(Len(q) - 2)
      PROVE  SubSeq(q, 1, k) \in DOMAIN expression
  <2>. DEFINE p == SubSeq(q, 1, k)
  <2>1. q \in Position /\ Len(q) \in Nat /\ k \in Nat /\ k <= Len(q)
    BY <1>1 DEF Position
  <2>2. p \in Position /\ Len(p) = k /\ \A j \in 1..k : p[j] = q[j]
    <3>1. q \in Seq(Nat \ {0})
      BY <2>1 DEF Position
    <3>2. \A j \in 1..k : q[j] \in Nat \ {0}
      BY <2>1, <3>1
    <3>. QED  BY <2>1, <3>1, <3>2, SubSeqProperties DEF Position
  <2>. HIDE DEF p
  <2>3. IsPrefix(p, q)
    BY <2>1, <2>2, PrefixEntries
  <2>4. p \in DOMAIN expression
    BY <1>1, <2>2, <2>3, AboveAreThere
  <2>. QED  BY <2>4 DEF p
<1>3. kept = DOMAIN expression
  BY <1>2
<1>4. ASSUME NEW q \in DOMAIN expression PROVE C[q] = expression[q]
  <2>1. C[q] = IF Len(q) > 0 /\ LosesChild(expression[Front(q)])
                 THEN BuilderNode(NodeOf("leaf"), "value") ELSE expression[q]
    BY <1>3 DEF Constructed
  <2>2. ~ (Len(q) > 0 /\ LosesChild(expression[Front(q)]))
    <3>1. SUFFICES ASSUME Len(q) > 0 PROVE Front(q) \in DOMAIN expression
      OBVIOUS
    <3>2. q # << >>
      BY <3>1
    <3>. QED  BY <1>1, <3>2, ShapeFacts
  <2>. HIDE DEF C
  <2>. QED  BY <2>1, <2>2
<1>5. C = [q \in DOMAIN expression |-> C[q]]
  <2>1. C = [q \in kept |->
               IF Len(q) > 0 /\ LosesChild(expression[Front(q)])
                 THEN BuilderNode(NodeOf("leaf"), "value") ELSE expression[q]]
    BY DEF Constructed
  <2>. QED  BY <1>3, <2>1
<1>. HIDE DEF C
<1>6. C = expression
  BY <1>1, <1>4, <1>5
<1>. QED  BY <1>6 DEF C

LEMMA InitIsFine ==
  ASSUME Plain, Init
  PROVE  BuildInv
<1>. SUFFICES ASSUME problem.op # "merge" PROVE BuildInv
  BY DEF BuildInv
<1>. DEFINE call == CallOf(problem.expression, Null)
            root == IsRoot(problem, 1)
<1>1. /\ problem \in Problems /\ status = "running" /\ returning = FALSE
      /\ captured.grandchild = Start
      /\ cursor = (IF problem.op = "build" THEN Null ELSE Start)
      /\ calls = <<CallOf(Constructed(problem.expression), Null)>>
  BY DEF Init
<1>2. /\ IsOrdinary(problem.expression) /\ IsDescription(problem.expression)
      /\ IsShape(problem.expression)
      /\ \A q \in DOMAIN problem.expression : ~ LosesChild(problem.expression[q])
  BY <1>1, RewriterAssumption DEF Plain, IsPlain, IsDescription
<1>3. calls = <<call>>
  <2>1. Constructed(problem.expression) = problem.expression
    BY <1>2, NothingLost
  <2>. QED  BY <1>1, <2>1
<1>4. call.builder = problem.expression /\ call.at = << >>
  BY DEF CallOf
<1>. HIDE DEF call
<1>5. Len(calls) = 1 /\ calls[1] = call /\ calls # << >>
  BY <1>3
<1>6. root <=> problem.op = "build"
  BY DEF IsRoot
<1>7. CallFine(problem, call, root, FALSE)
  <2>1. \A q \in DOMAIN call.builder : ~ Passed(q, call.at, FALSE)
    BY <1>2, <1>4, ShapeFacts, NothingPassed
  <2>2. AllFine(problem, problem.expression, problem.op = "build") =>
          AllFine(problem, call.builder, root)
    <3>1. \A q \in DOMAIN problem.expression :
            Fine(problem, problem.expression, q, problem.op = "build") =>
              Fine(problem, problem.expression, q, root)
      BY <1>6 DEF Fine
    <3>. HIDE DEF root
    <3>. QED  BY <1>4, <3>1 DEF AllFine
  <2>. HIDE DEF root
  <2>. QED  BY <1>2, <1>4, <2>1, <2>2 DEF CallFine
<1>8. CallsFine(problem, calls, FALSE)
  <2>1. ASSUME NEW k \in 1..1
        PROVE  CallFine(problem, calls[k], IsRoot(problem, k), k = Len(calls) /\ FALSE)
    <3>. DEFINE flag == k = Len(calls) /\ FALSE
    <3>1. k = 1 /\ calls[k] = call /\ (FALSE <=> flag)
      BY <1>5
    <3>2. CallFine(problem, calls[k], IsRoot(problem, k), FALSE)
      BY <1>7, <3>1
    <3>. HIDE DEF flag
    <3>3. CallFine(problem, calls[k], IsRoot(problem, k), flag)
      BY <3>1, <3>2, SameCallFine
    <3>. QED  BY <3>3 DEF flag
  <2>2. 1..(1 - 1) = {}
    OBVIOUS
  <2>. QED  BY <1>5, <2>1, <2>2 DEF CallsFine
<1>9. problem.op = "build" => cursor = Null
  BY <1>1
<1>. QED  BY <1>1, <1>4, <1>5, <1>8, <1>9 DEF BuildInv

\* build() and insertAt on a schedule of isl, for a description of any shape:
\* the assertions scattered over the recursion let it through exactly if it is
\* well formed, whatever the depth of the fault and of the calls that meet it.
THEOREM AbortsAsDescribed ==
  ASSUME \A p \in Problems : IsPlain(p)
  PROVE  Spec => []AbortsExactlyWhenMalformed
<1>1. Plain
  BY DEF Plain
<1>2. Init => IInv /\ BuildInv
  BY <1>1, InitInv, InitIsFine
<1>3. IInv /\ BuildInv /\ [Next]_vars => (IInv /\ BuildInv)'
  BY <1>1, NextPreserves, FineNextPreserves
<1>4. IInv /\ BuildInv => AbortsExactlyWhenMalformed
  <2>. SUFFICES ASSUME IInv, BuildInv, problem.op # "merge"
                PROVE  /\ status = "aborted" => ~ IsProper(problem.expression)
                       /\ status = "done" => IsProper(problem.expression)
    BY DEF AbortsExactlyWhenMalformed
  <2>1. IsProper(problem.expression) <=> Verdict(problem)
    BY <1>1, ProblemFacts, ProperIsFine DEF Verdict
  <2>. QED  BY <2>1 DEF BuildInv
<1>. QED  BY <1>2, <1>3, <1>4, PTL DEF Spec

=============================================================================
