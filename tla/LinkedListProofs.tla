-------------------------- MODULE LinkedListProofs --------------------------
(***************************************************************************)
(* Proofs about LinkedList, for any number of elements, any items and any  *)
(* integer keys: the pointers always spell out one list, and the list      *)
(* implements the sequence of AbstractList.                                *)
(***************************************************************************)
EXTENDS LinkedList, FiniteSetTheorems, SequenceTheorems, WellFoundedInduction, TLAPS

-----------------------------------------------------------------------------
(* What it means that the pointers of a heap h, from the first element f to *)
(* the last one l, spell out the sequence s; and that they do it over cells. *)

Chain(s, h, f, l) ==
  /\ \A m, n \in 1..Len(s) : s[m] = s[n] => m = n
  /\ f = IF Len(s) = 0 THEN NULL ELSE s[1]
  /\ l = IF Len(s) = 0 THEN NULL ELSE s[Len(s)]
  /\ \A n \in 1..Len(s) : h[s[n]].next = IF n = Len(s) THEN NULL ELSE s[n + 1]

Covers(s, cells) ==
  /\ \A n \in 1..Len(s) : s[n] \in cells
  /\ \A x \in cells : \E n \in 1..Len(s) : s[n] = x

\* The heap holds the elements spelled out by s, and perhaps one more.
Spells(s) ==
  /\ Chain(s, heap, first, last)
  /\ Covers(s, Linked)
  /\ DOMAIN heap \subseteq Element

\* A set of numbers that is closed under successor holds them all: this is how
\* the recursion of Path is taken apart.
LEMMA Successors ==
  ASSUME NEW S \in SUBSET Nat, 0 \in S, \A n \in Nat : n \in S => n + 1 \in S
  PROVE  S = Nat
<1> SUFFICES ASSUME Nat \ S # {} PROVE FALSE
  OBVIOUS
<1>1. \E x \in Nat \ S : \A y \in Nat \ S : ~(<<y, x>> \in OpToRel(<, Nat))
  BY NatLessThanWellFounded, WFMin
<1>2. PICK x \in Nat \ S : \A y \in Nat \ S : ~(y < x)
  BY <1>1 DEF OpToRel
<1>3. x # 0
  OBVIOUS
<1>4. x - 1 \in Nat /\ x - 1 < x /\ (x - 1) + 1 = x
  BY <1>3
<1>5. x - 1 \in S
  BY <1>2, <1>4
<1> QED BY <1>4, <1>5

\* A heap on which s is spelled out has at least as many cells as s.
LEMMA CellsCount ==
  ASSUME NEW s \in Seq(Element), NEW cells, Covers(s, cells),
         \A m, n \in 1..Len(s) : s[m] = s[n] => m = n
  PROVE  IsFiniteSet(cells) /\ Cardinality(cells) = Len(s)
<1>1. Len(s) \in Nat /\ s \in [1..Len(s) -> cells] /\ DOMAIN s = 1..Len(s)
  BY LenProperties DEF Covers
<1>2. s \in Bijection(1..Len(s), cells)
  <2>1. s \in Injection(1..Len(s), cells)
    BY <1>1 DEF Injection, IsInjective
  <2>2. s \in Surjection(1..Len(s), cells)
    BY <1>1 DEF Covers, Surjection
  <2> QED BY <2>1, <2>2 DEF Bijection
<1>3. ExistsBijection(1..Len(s), cells)
  BY <1>2 DEF ExistsBijection
<1> QED BY <1>1, <1>3, FS_CountingElements, FS_NatBijection

\* Following the pointers from first, Path finds s and then nothing.
LEMMA PathFollows ==
  ASSUME NEW s \in Seq(Element), Spells(s)
  PROVE  \A n \in Nat : Path[n] = IF n < Len(s) THEN s[n + 1] ELSE NULL
<1> DEFINE g == [n \in Nat |-> IF n < Len(s) THEN s[n + 1] ELSE NULL]
           Step(f, n) == IF n = 0 THEN first
                         ELSE IF f[n - 1] \in DOMAIN heap THEN heap[f[n - 1]].next
                         ELSE NULL
<1>0. Len(s) \in Nat /\ NULL \notin DOMAIN heap
  BY LenProperties, LinkedListAssumption DEF Spells
<1>1. ASSUME NEW n \in Nat PROVE g[n] = Step(g, n)
  <2>1. CASE n = 0
    BY <1>0, <2>1 DEF Spells, Chain
  <2>2. CASE n # 0 /\ n - 1 < Len(s)
    <3>1. n \in 1..Len(s) /\ n - 1 \in Nat /\ (n - 1) + 1 = n
      BY <1>0, <2>2
    <3>2. g[n - 1] = s[n]
      BY <2>2, <3>1
    <3>3. s[n] \in DOMAIN heap
      BY <3>1 DEF Spells, Covers, Linked
    <3>4. heap[s[n]].next = IF n = Len(s) THEN NULL ELSE s[n + 1]
      BY <3>1 DEF Spells, Chain
    <3>5. n = Len(s) <=> ~(n < Len(s))
      BY <1>0, <3>1
    <3> QED BY <2>2, <3>2, <3>3, <3>4, <3>5
  <2>3. CASE n # 0 /\ ~(n - 1 < Len(s))
    <3>1. n - 1 \in Nat /\ ~(n < Len(s))
      BY <1>0, <2>3
    <3>2. g[n - 1] = NULL /\ g[n] = NULL
      BY <2>3, <3>1
    <3> QED BY <1>0, <2>3, <3>2
  <2> QED BY <2>1, <2>2, <2>3
<1>2. g = [n \in Nat |-> Step(g, n)]
  BY <1>1
<1>3. Path = CHOOSE f : f = [n \in Nat |-> Step(f, n)]
  BY DEF Path
<1>4. Path = [n \in Nat |-> Step(Path, n)]
  BY <1>2, <1>3
<1>5. \A n \in Nat : Path[n] = Step(Path, n)
  BY <1>4
<1> DEFINE S == {n \in Nat : Path[n] = g[n]}
<1>6. 0 \in S
  BY <1>1, <1>5
<1>7. ASSUME NEW n \in Nat, n \in S PROVE n + 1 \in S
  <2>1. n + 1 \in Nat /\ n + 1 # 0 /\ (n + 1) - 1 = n
    OBVIOUS
  <2>2. Path[n + 1] = Step(Path, n + 1) /\ g[n + 1] = Step(g, n + 1)
    BY <1>1, <1>5, <2>1
  <2>3. Path[n] = g[n]
    BY <1>7
  <2>4. Step(Path, n + 1) = Step(g, n + 1)
    BY <2>1, <2>3
  <2> QED BY <2>1, <2>2, <2>4
<1>8. S = Nat
  <2> HIDE DEF S
  <2>1. S \in SUBSET Nat
    BY DEF S
  <2> QED BY <1>6, <1>7, <2>1, Successors
<1>9. ASSUME NEW n \in Nat PROVE Path[n] = g[n]
  BY <1>8
<1> QED BY <1>9

LEMMA NodesAre == \A s \in Seq(Element) : Spells(s) => Nodes = s
<1> SUFFICES ASSUME NEW s \in Seq(Element), Spells(s) PROVE Nodes = s
  OBVIOUS
<1> DEFINE c == Cardinality(DOMAIN heap)
           long == {n \in 0..c : Path[n] # NULL}
<1>1. Len(s) \in Nat /\ DOMAIN s = 1..Len(s) /\ s = [n \in 1..Len(s) |-> s[n]]
  BY LenProperties
<1>2. c \in Nat /\ Len(s) <= c
  <2>1. IsFiniteSet(Linked) /\ Cardinality(Linked) = Len(s)
    BY CellsCount DEF Spells, Chain
  <2>2. DOMAIN heap \subseteq Linked \cup {element} /\ Linked \subseteq DOMAIN heap
    BY DEF Linked
  <2>3. IsFiniteSet(Linked \cup {element})
    BY <2>1, FS_AddElement
  <2>4. IsFiniteSet(DOMAIN heap)
    BY <2>2, <2>3, FS_Subset
  <2> QED BY <2>1, <2>2, <2>4, FS_Subset, FS_CardinalityType
<1>3. \A n \in 1..Len(s) : s[n] # NULL
  BY LinkedListAssumption, ElementOfSeq
<1>4. long = 0..(Len(s) - 1)
  <2>1. ASSUME NEW n \in Nat PROVE n \in long <=> n \in 0..(Len(s) - 1)
    <3>1. Path[n] # NULL <=> n < Len(s)
      <4>1. n < Len(s) => n + 1 \in 1..Len(s)
        BY <1>1
      <4> QED BY <1>3, <4>1, PathFollows
    <3> QED BY <1>1, <1>2, <3>1
  <2> QED BY <1>1, <1>2, <2>1
<1>5. Cardinality(long) = Len(s)
  <2>1. Cardinality(0..(Len(s) - 1)) = Len(s)
    <3>1. 0 \in Int /\ Len(s) - 1 \in Int
      BY <1>1
    <3>2. Cardinality(0..(Len(s) - 1)) =
            IF 0 > Len(s) - 1 THEN 0 ELSE (Len(s) - 1) - 0 + 1
      BY <3>1, FS_Interval
    <3> QED BY <1>1, <3>2
  <2> QED BY <1>4, <2>1
<1>6. Nodes = [n \in 1..Len(s) |-> Path[n - 1]]
  BY <1>5 DEF Nodes
<1>7. ASSUME NEW n \in 1..Len(s) PROVE Path[n - 1] = s[n]
  <2>1. n - 1 \in Nat /\ n - 1 < Len(s) /\ (n - 1) + 1 = n
    BY <1>1
  <2> QED BY <2>1, PathFollows
<1> QED BY <1>1, <1>6, <1>7

LEMMA NodesAreNext == (\A s \in Seq(Element) : Spells(s) => Nodes = s)'
BY NodesAre, PTL

\* The pieces of Spells(s)'.
LEMMA SpellsNext ==
  ASSUME NEW s, Chain(s, heap', first', last'), Covers(s, Linked'),
         DOMAIN heap' \subseteq Element
  PROVE  Spells(s)'
BY DEF Spells, Chain, Covers, Linked

-----------------------------------------------------------------------------
(* What inserting an element and removing the first one do to the sequence. *)

\* s with e behind its first p members.
Insert(s, p, e) ==
  [n \in 1..(Len(s) + 1) |->
     IF n <= p THEN s[n] ELSE IF n = p + 1 THEN e ELSE s[n - 1]]

LEMMA InsertSeq ==
  ASSUME NEW S, NEW s \in Seq(S), NEW p \in 0..Len(s), NEW e \in S
  PROVE  Insert(s, p, e) \in Seq(S) /\ Len(Insert(s, p, e)) = Len(s) + 1
<1>1. Len(s) \in Nat
  BY LenProperties
<1>2. Insert(s, p, e) \in [1..(Len(s) + 1) -> S]
  <2>1. ASSUME NEW n \in 1..(Len(s) + 1)
        PROVE  (IF n <= p THEN s[n] ELSE IF n = p + 1 THEN e ELSE s[n - 1]) \in S
    <3>1. n <= p => n \in 1..Len(s)
      BY <1>1
    <3>2. n > p /\ n # p + 1 => n - 1 \in 1..Len(s)
      BY <1>1
    <3> QED BY <1>1, <3>1, <3>2, ElementOfSeq
  <2> QED BY <2>1 DEF Insert
<1>3. Insert(s, p, e) \in Seq(S)
  <2>1. Len(s) + 1 \in Nat
    BY <1>1
  <2> HIDE DEF Insert
  <2> QED BY <1>2, <2>1, SeqDef
<1>4. Len(Insert(s, p, e)) = Len(s) + 1
  <2>1. DOMAIN Insert(s, p, e) = 1..(Len(s) + 1)
    BY DEF Insert
  <2> HIDE DEF Insert
  <2>2. Len(Insert(s, p, e)) \in Nat /\ 1..Len(Insert(s, p, e)) = 1..(Len(s) + 1)
    BY <1>3, <2>1, LenProperties
  <2> QED BY <1>1, <2>2
<1> QED BY <1>3, <1>4

\* Linking e behind the first p elements of a list, as Append, Prepend and the
\* three ways out of SortedInsert do.
LEMMA InsertChain ==
  ASSUME NEW s \in Seq(Element), NEW h, NEW f, NEW l, Chain(s, h, f, l),
         NEW p \in 0..Len(s), NEW e \in Element, \A n \in 1..Len(s) : s[n] # e,
         NEW h2,
         h2[e].next = IF p = Len(s) THEN NULL ELSE s[p + 1],
         p # 0 => h2[s[p]].next = e,
         \A n \in 1..Len(s) : n # p => h2[s[n]].next = h[s[n]].next
  PROVE  Chain(Insert(s, p, e), h2,
               IF p = 0 THEN e ELSE f, IF p = Len(s) THEN e ELSE l)
<1> DEFINE t == Insert(s, p, e)
<1>1. Len(s) \in Nat /\ Len(t) = Len(s) + 1 /\ p \in Nat /\ p <= Len(s)
  BY LenProperties, InsertSeq
<1>2. /\ \A n \in 1..p : t[n] = s[n] /\ n \in 1..Len(s)
      /\ t[p + 1] = e
      /\ \A n \in (p + 2)..(Len(s) + 1) : t[n] = s[n - 1] /\ n - 1 \in (p + 1)..Len(s)
  BY <1>1 DEF Insert
<1> HIDE DEF t
<1>3. \A n \in 1..(Len(s) + 1) :
        n \in 1..p \/ n = p + 1 \/ n \in (p + 2)..(Len(s) + 1)
  BY <1>1
<1>4. ASSUME NEW m \in 1..Len(t), NEW n \in 1..Len(t), t[m] = t[n]
      PROVE  m = n
  <2>1. \A i, j \in 1..Len(s) : s[i] = s[j] => i = j
    BY DEF Chain
  <2>2. \A i \in (p + 1)..Len(s) : i \in 1..Len(s) /\ i \notin 1..p
    BY <1>1
  <2>3. m \in 1..(Len(s) + 1) /\ n \in 1..(Len(s) + 1)
    BY <1>1
  <2>4. \A k \in 1..(Len(s) + 1) : t[k] = e => k = p + 1
    <3>1. \A k \in 1..p : t[k] # e
      BY <1>2
    <3>2. \A k \in (p + 2)..(Len(s) + 1) : t[k] # e
      BY <1>2, <2>2
    <3> QED BY <1>3, <3>1, <3>2
  <2>c. CASE m = p + 1 \/ n = p + 1
    <3>1. t[m] = e /\ t[n] = e
      BY <1>2, <1>4, <2>c
    <3> QED BY <2>3, <2>4, <3>1
  <2>5. CASE m \in 1..p /\ n \in 1..p
    BY <1>2, <1>4, <2>1, <2>5
  <2>6. CASE m \in (p + 2)..(Len(s) + 1) /\ n \in (p + 2)..(Len(s) + 1)
    <3>1. m - 1 = n - 1
      BY <1>2, <1>4, <2>1, <2>2, <2>6
    <3> QED BY <2>3, <3>1
  <2>7. CASE m \in 1..p /\ n \in (p + 2)..(Len(s) + 1)
    <3>1. m = n - 1
      BY <1>2, <1>4, <2>1, <2>2, <2>7
    <3> QED BY <1>2, <2>2, <2>7, <3>1
  <2>8. CASE n \in 1..p /\ m \in (p + 2)..(Len(s) + 1)
    <3>1. n = m - 1
      BY <1>2, <1>4, <2>1, <2>2, <2>8
    <3> QED BY <1>2, <2>2, <2>8, <3>1
  <2> QED BY <1>3, <2>3, <2>c, <2>5, <2>6, <2>7, <2>8
<1>5. (IF p = 0 THEN e ELSE f) = t[1]
  <2>1. p # 0 => 1 \in 1..p /\ Len(s) # 0
    BY <1>1
  <2> QED BY <1>2, <2>1 DEF Chain
<1>6. (IF p = Len(s) THEN e ELSE l) = t[Len(t)]
  <2>1. p # Len(s) => /\ Len(s) + 1 \in (p + 2)..(Len(s) + 1)
                      /\ (Len(s) + 1) - 1 = Len(s) /\ Len(s) # 0
    BY <1>1
  <2> QED BY <1>1, <1>2, <2>1 DEF Chain
<1>7. ASSUME NEW n \in 1..Len(t)
      PROVE  h2[t[n]].next = IF n = Len(t) THEN NULL ELSE t[n + 1]
  <2>0. n \in 1..(Len(s) + 1)
    BY <1>1
  <2>1. CASE n \in 1..p /\ n # p
    <3>1. n + 1 \in 1..p /\ n # Len(t) /\ n # Len(s)
      BY <1>1, <2>1
    <3>2. h2[s[n]].next = s[n + 1]
      BY <1>2, <2>1, <3>1 DEF Chain
    <3> QED BY <1>2, <2>1, <3>1, <3>2
  <2>2. CASE n = p
    <3>1. p # 0 /\ n # Len(t) /\ n \in 1..p
      BY <1>1, <2>0, <2>2
    <3> QED BY <1>2, <2>2, <3>1
  <2>3. CASE n = p + 1
    <3>1. n = Len(t) <=> p = Len(s)
      BY <1>1, <2>3
    <3>2. p # Len(s) => t[n + 1] = s[p + 1]
      <4>1. p # Len(s) => /\ n + 1 \in (p + 2)..(Len(s) + 1)
                          /\ (n + 1) - 1 = p + 1
        BY <1>1, <2>3
      <4> QED BY <1>2, <4>1
    <3> QED BY <1>2, <2>3, <3>1, <3>2
  <2>4. CASE n \in (p + 2)..(Len(s) + 1)
    <3>1. /\ n - 1 \in 1..Len(s) /\ n - 1 # p
          /\ n = Len(t) <=> n - 1 = Len(s)
          /\ n # Len(t) => /\ n + 1 \in (p + 2)..(Len(s) + 1)
                           /\ (n + 1) - 1 = (n - 1) + 1
      BY <1>1, <2>4
    <3>2. h2[s[n - 1]].next = IF n - 1 = Len(s) THEN NULL ELSE s[(n - 1) + 1]
      BY <3>1 DEF Chain
    <3> QED BY <1>2, <2>4, <3>1, <3>2
  <2> QED BY <1>3, <2>0, <2>1, <2>2, <2>3, <2>4
<1>8. Len(t) # 0
  BY <1>1
<1> DEFINE f2 == IF p = 0 THEN e ELSE f
           l2 == IF p = Len(s) THEN e ELSE l
<1>9. f2 = t[1] /\ l2 = t[Len(t)]
  BY <1>5, <1>6
<1> HIDE DEF f2, l2
<1>10. Chain(t, h2, f2, l2)
  BY <1>4, <1>7, <1>8, <1>9 DEF Chain
<1> QED BY <1>10 DEF t, f2, l2

LEMMA InsertCovers ==
  ASSUME NEW s \in Seq(Element), NEW cells, Covers(s, cells),
         NEW p \in 0..Len(s), NEW e \in Element
  PROVE  Covers(Insert(s, p, e), cells \cup {e})
<1> DEFINE t == Insert(s, p, e)
<1>1. Len(s) \in Nat /\ Len(t) = Len(s) + 1
  BY LenProperties, InsertSeq
<1>2. ASSUME NEW n \in 1..(Len(s) + 1) PROVE t[n] \in cells \cup {e}
  <2>1. n <= p => n \in 1..Len(s)
    BY <1>1
  <2>2. n > p /\ n # p + 1 => n - 1 \in 1..Len(s)
    BY <1>1
  <2> QED BY <1>1, <2>1, <2>2 DEF Insert, Covers
<1>3. \E n \in 1..(Len(s) + 1) : t[n] = e
  <2>1. p + 1 \in 1..(Len(s) + 1) /\ ~(p + 1 <= p)
    BY <1>1
  <2> QED BY <2>1 DEF Insert
<1>4. ASSUME NEW n \in 1..Len(s)
      PROVE  \E m \in 1..(Len(s) + 1) : t[m] = s[n]
  <2>1. CASE n <= p
    <3>1. n \in 1..(Len(s) + 1)
      BY <1>1
    <3> QED BY <2>1, <3>1 DEF Insert
  <2>2. CASE n > p
    <3>1. /\ n + 1 \in 1..(Len(s) + 1) /\ ~(n + 1 <= p)
          /\ n + 1 # p + 1 /\ (n + 1) - 1 = n
      BY <1>1, <2>2
    <3> QED BY <3>1 DEF Insert
  <2> QED BY <1>1, <2>1, <2>2
<1> HIDE DEF t
<1>5. Covers(t, cells \cup {e})
  <2>1. ASSUME NEW x \in cells PROVE \E n \in 1..(Len(s) + 1) : t[n] = x
    BY <1>4 DEF Covers
  <2> QED BY <1>1, <1>2, <1>3, <2>1 DEF Covers
<1> QED BY <1>5 DEF t

\* Unlinking and deleting the first element, as Remove does.
LEMMA TailChain ==
  ASSUME NEW s \in Seq(Element), NEW h, NEW f, NEW l, Chain(s, h, f, l), s # <<>>,
         NEW h2, \A n \in 2..Len(s) : h2[s[n]].next = h[s[n]].next
  PROVE  /\ Len(s) \in Nat \ {0} /\ f = s[1] /\ f \in Element
         /\ f = l <=> Len(s) = 1
         /\ Chain(Tail(s), h2, h[f].next, IF Len(s) = 1 THEN NULL ELSE l)
<1> DEFINE t == Tail(s)
<1>1. Len(s) \in Nat \ {0} /\ f = s[1] /\ f \in Element
  <2>1. Len(s) \in Nat \ {0}
    BY EmptySeq
  <2>2. 1 \in 1..Len(s)
    BY <2>1
  <2> QED BY <2>1, <2>2, ElementOfSeq DEF Chain
<1>2. Len(t) = Len(s) - 1 /\ \A n \in 1..(Len(s) - 1) : t[n] = s[n + 1]
  BY HeadTailProperties
<1> HIDE DEF t
<1>3. f = l <=> Len(s) = 1
  <2>1. Len(s) \in 1..Len(s) /\ 1 \in 1..Len(s)
    BY <1>1
  <2>2. Len(s) # 0
    BY <1>1
  <2>3. f = s[1] /\ l = s[Len(s)]
    BY <1>1, <2>2 DEF Chain
  <2> QED BY <2>1, <2>3 DEF Chain
<1>4. ASSUME NEW m \in 1..Len(t), NEW n \in 1..Len(t), t[m] = t[n]
      PROVE  m = n
  <2>1. m + 1 \in 1..Len(s) /\ n + 1 \in 1..Len(s)
    BY <1>1, <1>2
  <2>2. m + 1 = n + 1
    BY <1>2, <1>4, <2>1 DEF Chain
  <2> QED BY <1>1, <1>2, <2>2
<1>5. h[f].next = IF Len(t) = 0 THEN NULL ELSE t[1]
  <2>1. 1 \in 1..Len(s) /\ (Len(s) # 1 => 1 \in 1..(Len(s) - 1))
    <3>1. \A k \in Nat \ {0} : 1 \in 1..k /\ (k # 1 => 1 \in 1..(k - 1))
      OBVIOUS
    <3> QED BY <1>1, <3>1
  <2>2. h[s[1]].next = IF 1 = Len(s) THEN NULL ELSE s[1 + 1]
    BY <2>1 DEF Chain
  <2>3. Len(s) = 1 <=> Len(t) = 0
    BY <1>1, <1>2
  <2> QED BY <1>1, <1>2, <2>1, <2>2, <2>3
<1>6. (IF Len(s) = 1 THEN NULL ELSE l) = IF Len(t) = 0 THEN NULL ELSE t[Len(t)]
  <2>1. Len(s) # 1 => Len(t) \in 1..(Len(s) - 1) /\ Len(t) + 1 = Len(s)
    BY <1>1, <1>2
  <2>2. Len(s) = 1 <=> Len(t) = 0
    BY <1>1, <1>2
  <2> QED BY <1>1, <1>2, <2>1, <2>2 DEF Chain
<1>7. ASSUME NEW n \in 1..Len(t)
      PROVE  h2[t[n]].next = IF n = Len(t) THEN NULL ELSE t[n + 1]
  <2>1. /\ n \in 1..(Len(s) - 1) /\ n + 1 \in 1..Len(s) /\ n + 1 \in 2..Len(s)
        /\ n = Len(t) <=> n + 1 = Len(s)
        /\ n # Len(t) => n + 1 \in 1..(Len(s) - 1)
    BY <1>1, <1>2
  <2>2. h2[s[n + 1]].next = IF n + 1 = Len(s) THEN NULL ELSE s[(n + 1) + 1]
    BY <2>1 DEF Chain
  <2> QED BY <1>2, <2>1, <2>2
<1>8. Chain(t, h2, h[f].next, IF Len(s) = 1 THEN NULL ELSE l)
  BY <1>4, <1>5, <1>6, <1>7 DEF Chain
<1> QED BY <1>1, <1>3, <1>8 DEF t

LEMMA TailCovers ==
  ASSUME NEW s \in Seq(Element), NEW cells, Covers(s, cells), s # <<>>,
         \A m, n \in 1..Len(s) : s[m] = s[n] => m = n
  PROVE  Covers(Tail(s), cells \ {s[1]})
<1>1. Len(s) \in Nat \ {0} /\ Len(Tail(s)) = Len(s) - 1
      /\ \A n \in 1..(Len(s) - 1) : Tail(s)[n] = s[n + 1]
  BY HeadTailProperties, EmptySeq
<1>2. ASSUME NEW n \in 1..Len(Tail(s))
      PROVE  Tail(s)[n] \in cells \ {s[1]}
  <2>1. n \in 1..(Len(s) - 1) /\ n + 1 \in 1..Len(s) /\ n + 1 # 1 /\ 1 \in 1..Len(s)
    BY <1>1
  <2> QED BY <1>1, <2>1 DEF Covers
<1>3. ASSUME NEW x \in cells \ {s[1]}
      PROVE  \E n \in 1..Len(Tail(s)) : Tail(s)[n] = x
  <2>1. PICK m \in 1..Len(s) : s[m] = x
    BY DEF Covers
  <2>2. m - 1 \in 1..(Len(s) - 1) /\ (m - 1) + 1 = m
    BY <1>1, <2>1
  <2> QED BY <1>1, <2>1, <2>2
<1> QED BY <1>2, <1>3 DEF Covers

-----------------------------------------------------------------------------
(* The inductive invariant. *)

\* SortedInsert has passed the elements up to ptr, none of which has a larger key
\* than the element that it holds in its hand.
InWalk ==
  phase = "walk" =>
    /\ element \in DOMAIN heap
    /\ heap[element].next = NULL /\ heap[element].key \in Key
    /\ \E p \in 1..Len(Nodes) :
         /\ ptr = Nodes[p]
         /\ \A n \in 1..p : heap[Nodes[n]].key <= heap[element].key

Inv ==
  /\ TypeOK
  /\ \E s \in Seq(Element) : Spells(s)
  /\ InWalk
  /\ StaysSorted

\* What is known of the sequence s that is spelled out.
LEMMA Spelled ==
  ASSUME TypeOK, NEW s \in Seq(Element), Spells(s)
  PROVE  /\ Nodes = s /\ Len(s) \in Nat
         /\ \A n \in 1..Len(s) : /\ s[n] \in Linked /\ s[n] \in DOMAIN heap
                                 /\ s[n] \in Element /\ s[n] # NULL
                                 /\ heap[s[n]].key \in Int
                                 /\ heap[s[n]].item \in Item
         /\ first = NULL <=> Len(s) = 0
         /\ Len(s) # 0 => /\ first = s[1] /\ last = s[Len(s)]
                          /\ 1 \in 1..Len(s) /\ Len(s) \in 1..Len(s)
<1>1. Nodes = s
  BY NodesAre
<1>2. Len(s) \in Nat
  BY LenProperties
<1>3. Key \cup {0} \subseteq Int
  BY LinkedListAssumption
<1>4. ASSUME NEW n \in 1..Len(s)
      PROVE  /\ s[n] \in Linked /\ s[n] \in DOMAIN heap
             /\ s[n] \in Element /\ s[n] # NULL
  BY LinkedListAssumption, ElementOfSeq DEF Spells, Covers, Linked
<1>5. ASSUME NEW x \in DOMAIN heap
      PROVE  heap[x].key \in Int /\ heap[x].item \in Item
  BY <1>3 DEF TypeOK, ListElement
<1>6. /\ first = NULL <=> Len(s) = 0
      /\ Len(s) # 0 => /\ first = s[1] /\ last = s[Len(s)]
                       /\ 1 \in 1..Len(s) /\ Len(s) \in 1..Len(s)
  BY <1>2, <1>4 DEF Spells, Chain
<1> QED BY <1>1, <1>2, <1>4, <1>5, <1>6

LEMMA InvInit == Init => Inv
<1> SUFFICES ASSUME Init PROVE Inv
  OBVIOUS
<1>1. DOMAIN heap = {}
  BY DEF Init
<1>2. TypeOK
  BY DEF Init, TypeOK
<1>3. <<>> \in Seq(Element) /\ Len(<<>>) = 0
  BY EmptySeq
<1>4. Spells(<<>>)
  BY <1>1, <1>3 DEF Init, Spells, Chain, Covers, Linked
<1>5. Nodes = <<>>
  BY <1>3, <1>4, NodesAre
<1>6. InWalk /\ StaysSorted
  BY <1>3, <1>5 DEF Init, InWalk, StaysSorted
<1> QED BY <1>2, <1>3, <1>4, <1>6 DEF Inv

-----------------------------------------------------------------------------
(* A step that links an element, and what it does to the nodes, the entries *)
(* and their order.                                                         *)

\* e comes onto the list, behind its first p elements s[1], ..., s[p].
Inserts(s, p, e) ==
  /\ p \in 0..Len(s)
  /\ e \in Element /\ e \notin Linked
  /\ DOMAIN heap' \subseteq Element /\ Linked' = Linked \cup {e}
  /\ heap'[e].next = IF p = Len(s) THEN NULL ELSE s[p + 1]
  /\ p # 0 => heap'[s[p]].next = e
  /\ \A n \in 1..Len(s) : n # p => heap'[s[n]].next = heap[s[n]].next
  /\ \A n \in 1..Len(s) : /\ heap'[s[n]].item = heap[s[n]].item
                          /\ heap'[s[n]].key = heap[s[n]].key
  /\ first' = IF p = 0 THEN e ELSE first
  /\ last' = IF p = Len(s) THEN e ELSE last

LEMMA InsertsNodes ==
  ASSUME NEW s \in Seq(Element), Spells(s), NEW p, NEW e, Inserts(s, p, e)
  PROVE  /\ Insert(s, p, e) \in Seq(Element)
         /\ Spells(Insert(s, p, e))' /\ Nodes' = Insert(s, p, e)
<1>1. \A n \in 1..Len(s) : s[n] # e
  BY DEF Spells, Covers, Inserts
<1>2. PICK t \in Seq(Element) : t = Insert(s, p, e)
  BY InsertSeq DEF Inserts
<1>3. Chain(t, heap', IF p = 0 THEN e ELSE first, IF p = Len(s) THEN e ELSE last)
  BY <1>1, <1>2, InsertChain DEF Inserts, Spells
<1>4. Chain(t, heap', first', last')
  BY <1>3 DEF Inserts
<1>5. Covers(t, Linked')
  BY <1>2, InsertCovers DEF Inserts, Spells
<1>6. Spells(t)'
  BY <1>4, <1>5, SpellsNext DEF Inserts
<1>7. Nodes' = t
  BY <1>6, NodesAreNext
<1> QED BY <1>2, <1>6, <1>7

\* The sequence of AbstractList.
AnEntry == [item : Item, key : Key \cup {0}]

LEMMA EntriesSeq ==
  ASSUME TypeOK, NEW s \in Seq(Element), Spells(s)
  PROVE  /\ Entries \in Seq(AnEntry) /\ Len(Entries) = Len(s)
         /\ \A n \in 1..Len(s) :
              Entries[n] = [item |-> heap[s[n]].item, key |-> heap[s[n]].key]
<1>1. Nodes = s /\ Len(s) \in Nat /\ \A n \in 1..Len(s) : s[n] \in DOMAIN heap
  BY Spelled
<1>2. Entries = [n \in 1..Len(s) |-> [item |-> heap[s[n]].item,
                                      key |-> heap[s[n]].key]]
  BY <1>1 DEF Entries
<1>3. ASSUME NEW n \in 1..Len(s)
      PROVE  [item |-> heap[s[n]].item, key |-> heap[s[n]].key] \in AnEntry
  BY <1>1 DEF TypeOK, ListElement, AnEntry
<1>4. Entries \in [1..Len(s) -> AnEntry] /\ DOMAIN Entries = 1..Len(s)
  BY <1>2, <1>3
<1>5. Entries \in Seq(AnEntry)
  BY <1>1, <1>4, SeqDef
<1>6. Len(Entries) = Len(s)
  <2>1. Len(Entries) \in Nat /\ 1..Len(Entries) = 1..Len(s)
    BY <1>4, <1>5, LenProperties
  <2> QED BY <1>1, <2>1
<1> QED BY <1>2, <1>5, <1>6

LEMMA EntriesKeys ==
  ASSUME TypeOK, NEW s \in Seq(Element), Spells(s)
  PROVE  \A n \in 1..Len(s) : Entries[n].key = heap[s[n]].key
<1> SUFFICES ASSUME NEW n \in 1..Len(s) PROVE Entries[n].key = heap[s[n]].key
  OBVIOUS
<1>1. Entries[n] = [item |-> heap[s[n]].item, key |-> heap[s[n]].key]
  BY EntriesSeq
<1> QED BY <1>1

LEMMA InsertsEntries ==
  ASSUME TypeOK, NEW s \in Seq(Element), Spells(s), NEW p, NEW e, Inserts(s, p, e)
  PROVE  Entries' =
           Insert(Entries, p, [item |-> heap'[e].item, key |-> heap'[e].key])
<1> DEFINE t == Insert(s, p, e)
           x == [item |-> heap'[e].item, key |-> heap'[e].key]
<1>1. Nodes' = t /\ Len(t) = Len(s) + 1
  <2>1. Nodes' = t
    BY InsertsNodes
  <2>2. p \in 0..Len(s) /\ e \in Element
    BY DEF Inserts
  <2>3. Len(t) = Len(s) + 1
    BY <2>2, InsertSeq
  <2> QED BY <2>1, <2>3
<1>2. Entries' = [n \in 1..(Len(s) + 1) |-> [item |-> heap'[t[n]].item,
                                             key |-> heap'[t[n]].key]]
  BY <1>1 DEF Entries
<1>3. Len(Entries) = Len(s) /\ Len(s) \in Nat
      /\ \A n \in 1..Len(s) :
           Entries[n] = [item |-> heap'[s[n]].item, key |-> heap'[s[n]].key]
  BY EntriesSeq, LenProperties DEF Inserts
<1>4. ASSUME NEW n \in 1..(Len(s) + 1)
      PROVE  [item |-> heap'[t[n]].item, key |-> heap'[t[n]].key] =
               IF n <= p THEN Entries[n] ELSE IF n = p + 1 THEN x ELSE Entries[n - 1]
  <2>1. CASE n <= p
    <3>1. n \in 1..Len(s) /\ t[n] = s[n]
      BY <1>3, <2>1 DEF Inserts, Insert
    <3> QED BY <1>3, <2>1, <3>1
  <2>2. CASE n = p + 1
    <3>1. t[n] = e /\ ~(n <= p)
      BY <2>2 DEF Inserts, Insert
    <3> QED BY <2>2, <3>1
  <2>3. CASE ~(n <= p) /\ n # p + 1
    <3>1. n - 1 \in 1..Len(s) /\ t[n] = s[n - 1]
      BY <1>3, <2>3 DEF Inserts, Insert
    <3> QED BY <1>3, <2>3, <3>1
  <2> QED BY <2>1, <2>2, <2>3
<1> HIDE DEF t, x
<1>5. Entries' = Insert(Entries, p, x)
  BY <1>2, <1>3, <1>4 DEF Insert
<1> QED BY <1>5 DEF x

\* The list stays sorted when e goes behind no larger key and before no smaller.
LEMMA InsertsSorted ==
  ASSUME TypeOK, StaysSorted, UNCHANGED sortedOnly,
         NEW s \in Seq(Element), Spells(s), NEW p, NEW e, Inserts(s, p, e),
         p # 0 => heap[s[p]].key <= heap'[e].key,
         p # Len(s) => heap'[e].key <= heap[s[p + 1]].key
  PROVE  StaysSorted'
<1> DEFINE t == Insert(s, p, e)
<1>1. Nodes = s /\ Nodes' = t /\ Len(t) = Len(s) + 1 /\ Len(s) \in Nat
  <2>1. Nodes = s /\ Len(s) \in Nat
    BY Spelled
  <2>2. Nodes' = t
    BY InsertsNodes
  <2>3. Len(t) = Len(s) + 1
    BY InsertSeq DEF Inserts
  <2> QED BY <2>1, <2>2, <2>3
<1>2. p \in Nat /\ p <= Len(s)
  BY <1>1 DEF Inserts
<1>3. /\ \A n \in 1..p : t[n] = s[n] /\ n \in 1..Len(s)
      /\ t[p + 1] = e
      /\ \A n \in (p + 2)..(Len(s) + 1) : t[n] = s[n - 1] /\ n - 1 \in 1..Len(s)
  BY <1>1, <1>2 DEF Insert
<1> HIDE DEF t
<1>4. \A n \in 1..Len(s) : heap'[s[n]].key = heap[s[n]].key
  BY DEF Inserts
<1>5. ASSUME sortedOnly, NEW n \in 1..Len(s)
      PROVE  heap'[t[n]].key <= heap'[t[n + 1]].key
  <2>0. \A i \in 1..(Len(s) - 1) : heap[s[i]].key <= heap[s[i + 1]].key
    BY <1>1, <1>5 DEF StaysSorted
  <2>1. CASE n < p
    <3>1. n \in 1..p /\ n + 1 \in 1..p /\ n \in 1..(Len(s) - 1)
      BY <1>1, <1>2, <2>1
    <3> QED BY <1>3, <1>4, <2>0, <3>1
  <2>2. CASE n = p
    <3>1. n \in 1..p /\ p # 0
      BY <1>2, <2>2
    <3> QED BY <1>3, <1>4, <2>2, <3>1
  <2>3. CASE n = p + 1
    <3>1. /\ n + 1 \in (p + 2)..(Len(s) + 1) /\ (n + 1) - 1 = p + 1
          /\ p # Len(s) /\ p + 1 \in 1..Len(s)
      BY <1>1, <1>2, <2>3
    <3> QED BY <1>3, <1>4, <2>3, <3>1
  <2>4. CASE n > p + 1
    <3>1. /\ n \in (p + 2)..(Len(s) + 1) /\ n + 1 \in (p + 2)..(Len(s) + 1)
          /\ (n + 1) - 1 = (n - 1) + 1 /\ n - 1 \in 1..(Len(s) - 1)
      BY <1>1, <1>2, <2>4
    <3> QED BY <1>3, <1>4, <2>0, <3>1
  <2> QED BY <1>1, <1>2, <2>1, <2>2, <2>3, <2>4
<1>6. \A n \in 1..(Len(Nodes') - 1) : n \in 1..Len(s)
  BY <1>1
<1> QED BY <1>1, <1>5, <1>6 DEF StaysSorted

-----------------------------------------------------------------------------
(* The steps. *)

\* The heap after "element = new ListElement" and one or two assignments to next.
LEMMA NewHeap ==
  ASSUME TypeOK, NEW e \in Element, e \notin DOMAIN heap,
         NEW i \in Item, NEW k \in Key \cup {0}
  PROVE  /\ DOMAIN New(e, i, k) = DOMAIN heap \cup {e}
         /\ New(e, i, k) \in [DOMAIN heap \cup {e} -> ListElement]
         /\ New(e, i, k)[e] = [item |-> i, key |-> k, next |-> NULL]
         /\ \A x \in DOMAIN heap : New(e, i, k)[x] = heap[x]
BY DEF TypeOK, New, ListElement

LEMMA LinkHeap ==
  ASSUME NEW cells, NEW h \in [cells -> ListElement], NEW x \in cells,
         NEW y \in Element \cup {NULL}
  PROVE  /\ DOMAIN Link(h, x, y) = cells
         /\ Link(h, x, y) \in [cells -> ListElement]
         /\ Link(h, x, y)[x].next = y
         /\ Link(h, x, y)[x].item = h[x].item /\ Link(h, x, y)[x].key = h[x].key
         /\ \A z \in cells : z # x => Link(h, x, y)[z] = h[z]
BY DEF Link, ListElement

\* A free element never is on the list.
LEMMA FreeElement ==
  ASSUME phase = "idle"
  PROVE  Linked = DOMAIN heap
BY DEF Linked

\* The new element on an empty list.
LEMMA OnlyInserts ==
  ASSUME TypeOK, NEW s \in Seq(Element), Spells(s), phase = "idle", phase' = "idle",
         NEW e \in Element, e \notin DOMAIN heap, NEW i \in Item, NEW k \in Key \cup {0},
         IsEmpty, heap' = New(e, i, k), OnlyElement(e)
  PROVE  /\ Inserts(s, 0, e) /\ Len(s) = 0
         /\ heap'[e].item = i /\ heap'[e].key = k
         /\ DOMAIN heap' \subseteq Element /\ heap' \in [DOMAIN heap' -> ListElement]
<1>1. Len(s) = 0
  BY Spelled DEF IsEmpty
<1>2. /\ DOMAIN heap' = DOMAIN heap \cup {e}
      /\ heap' \in [DOMAIN heap \cup {e} -> ListElement]
      /\ heap'[e] = [item |-> i, key |-> k, next |-> NULL]
  BY NewHeap
<1>3. Linked = DOMAIN heap /\ Linked' = Linked \cup {e}
  BY <1>2 DEF Linked
<1> QED BY <1>1, <1>2, <1>3 DEF Inserts, OnlyElement, TypeOK

\* In front of the others.
LEMMA FrontInserts ==
  ASSUME TypeOK, NEW s \in Seq(Element), Spells(s), phase = "idle", phase' = "idle",
         NEW e \in Element, e \notin DOMAIN heap, NEW i \in Item, NEW k \in Key \cup {0},
         ~IsEmpty, InFront(New(e, i, k), e)
  PROVE  /\ Inserts(s, 0, e) /\ Len(s) # 0
         /\ heap'[e].item = i /\ heap'[e].key = k
         /\ DOMAIN heap' \subseteq Element /\ heap' \in [DOMAIN heap' -> ListElement]
<1> DEFINE h == New(e, i, k)
           cells == DOMAIN heap \cup {e}
<1>1. /\ Len(s) \in Nat \ {0} /\ first = s[1] /\ first \in Element
      /\ \A n \in 1..Len(s) : s[n] \in DOMAIN heap /\ s[n] # e
  BY Spelled DEF IsEmpty
<1>2. /\ h \in [cells -> ListElement]
      /\ h[e] = [item |-> i, key |-> k, next |-> NULL]
      /\ \A x \in DOMAIN heap : h[x] = heap[x]
  BY NewHeap
<1>3. heap' = Link(h, e, first) /\ e \in cells
  BY DEF InFront
<1> HIDE DEF h
<1>4. /\ DOMAIN heap' = cells /\ heap' \in [cells -> ListElement]
      /\ heap'[e].next = first /\ heap'[e].item = h[e].item /\ heap'[e].key = h[e].key
      /\ \A z \in cells : z # e => heap'[z] = h[z]
  BY <1>1, <1>2, <1>3, LinkHeap
<1>5. heap'[e].item = i /\ heap'[e].key = k
  BY <1>2, <1>4
<1>6. \A n \in 1..Len(s) : heap'[s[n]] = heap[s[n]]
  BY <1>1, <1>2, <1>4
<1>7. Linked = DOMAIN heap /\ Linked' = Linked \cup {e}
  BY <1>4 DEF Linked
<1> QED BY <1>1, <1>4, <1>5, <1>6, <1>7 DEF Inserts, InFront, TypeOK

\* Behind the others.
LEMMA EndInserts ==
  ASSUME TypeOK, NEW s \in Seq(Element), Spells(s), phase = "idle", phase' = "idle",
         NEW e \in Element, e \notin DOMAIN heap, NEW i \in Item, NEW k \in Key \cup {0},
         ~IsEmpty, AtEnd(New(e, i, k), e)
  PROVE  /\ Inserts(s, Len(s), e)
         /\ heap'[e].item = i /\ heap'[e].key = k
         /\ DOMAIN heap' \subseteq Element /\ heap' \in [DOMAIN heap' -> ListElement]
<1> DEFINE h == New(e, i, k)
           cells == DOMAIN heap \cup {e}
<1>1. /\ Len(s) \in Nat \ {0} /\ last = s[Len(s)] /\ last \in DOMAIN heap
      /\ \A n \in 1..Len(s) : s[n] \in DOMAIN heap /\ s[n] # e
  BY Spelled DEF IsEmpty
<1>2. /\ h \in [cells -> ListElement]
      /\ h[e] = [item |-> i, key |-> k, next |-> NULL]
      /\ \A x \in DOMAIN heap : h[x] = heap[x]
  BY NewHeap
<1>3. heap' = Link(h, last, e) /\ last \in cells /\ last # e
  BY <1>1 DEF AtEnd
<1> HIDE DEF h
<1>4. /\ DOMAIN heap' = cells /\ heap' \in [cells -> ListElement]
      /\ heap'[last].next = e
      /\ heap'[last].item = h[last].item /\ heap'[last].key = h[last].key
      /\ \A z \in cells : z # last => heap'[z] = h[z]
  <2>1. e \in Element \cup {NULL}
    OBVIOUS
  <2> HIDE DEF cells
  <2> QED BY <1>2, <1>3, <2>1, LinkHeap
<1>5. heap'[e] = [item |-> i, key |-> k, next |-> NULL]
  BY <1>2, <1>3, <1>4
<1>6. \A n \in 1..Len(s) : s[n] = last => n = Len(s)
  <2>1. Len(s) \in 1..Len(s)
    BY <1>1
  <2> QED BY <1>1, <2>1 DEF Spells, Chain
<1>7. \A n \in 1..Len(s) : n # Len(s) => heap'[s[n]] = heap[s[n]]
  BY <1>1, <1>2, <1>4, <1>6
<1>8. heap'[last].item = heap[last].item /\ heap'[last].key = heap[last].key
  BY <1>1, <1>2, <1>4
<1>9. Linked = DOMAIN heap /\ Linked' = Linked \cup {e}
  BY <1>4 DEF Linked
<1>10. Len(s) \in 0..Len(s)
  BY <1>1
<1> QED BY <1>1, <1>4, <1>5, <1>7, <1>8, <1>9, <1>10 DEF Inserts, AtEnd, TypeOK

LEMMA AppendStep ==
  ASSUME Inv, NEW s \in Seq(Element), Spells(s),
         NEW e \in Element, NEW i \in Item, AppendItem(e, i)
  PROVE  /\ Inserts(s, Len(s), e) /\ heap'[e].item = i /\ heap'[e].key = 0
         /\ DOMAIN heap' \subseteq Element /\ heap' \in [DOMAIN heap' -> ListElement]
<1>1. phase = "idle" /\ phase' = "idle" /\ e \notin DOMAIN heap /\ TypeOK
  BY DEF AppendItem, Unsorted, Inv
<1>2. CASE IsEmpty
  BY <1>1, <1>2, OnlyInserts DEF AppendItem
<1>3. CASE ~IsEmpty
  BY <1>1, <1>3, EndInserts DEF AppendItem
<1> QED BY <1>2, <1>3

LEMMA PrependStep ==
  ASSUME Inv, NEW s \in Seq(Element), Spells(s),
         NEW e \in Element, NEW i \in Item, Prepend(e, i)
  PROVE  /\ Inserts(s, 0, e) /\ heap'[e].item = i /\ heap'[e].key = 0
         /\ DOMAIN heap' \subseteq Element /\ heap' \in [DOMAIN heap' -> ListElement]
<1>1. phase = "idle" /\ phase' = "idle" /\ e \notin DOMAIN heap /\ TypeOK
  BY DEF Prepend, Unsorted, Inv
<1>2. CASE IsEmpty
  BY <1>1, <1>2, OnlyInserts DEF Prepend
<1>3. CASE ~IsEmpty
  BY <1>1, <1>3, FrontInserts DEF Prepend
<1> QED BY <1>2, <1>3

\* SortedInsert links the new element in front, or starts its walk with the element
\* in its hand and the list as it was.
LEMMA SortedInsertStep ==
  ASSUME Inv, NEW s \in Seq(Element), Spells(s),
         NEW e \in Element, NEW i \in Item, NEW k \in Key, SortedInsert(e, i, k)
  PROVE  /\ DOMAIN heap' \subseteq Element /\ heap' \in [DOMAIN heap' -> ListElement]
         /\ heap'[e].item = i /\ heap'[e].key = k
         /\ \/ /\ phase' = "idle" /\ Inserts(s, 0, e)
               /\ Len(s) # 0 => k < heap[s[1]].key
            \/ /\ phase' = "walk" /\ ptr' = s[1] /\ element' = e /\ Len(s) # 0
               /\ e \in DOMAIN heap' /\ heap'[e].next = NULL
               /\ heap[s[1]].key <= k
               /\ \A n \in 1..Len(s) : heap'[s[n]] = heap[s[n]]
               /\ Spells(s)'
<1>1. phase = "idle" /\ e \notin DOMAIN heap /\ TypeOK /\ k \in Key \cup {0}
  BY DEF SortedInsert, Inv
<1>2. CASE IsEmpty
  <2>1. phase' = "idle"
    BY <1>1, <1>2 DEF SortedInsert
  <2> QED BY <1>1, <1>2, <2>1, OnlyInserts DEF SortedInsert
<1>3. CASE ~IsEmpty /\ k < heap[first].key
  <2>1. phase' = "idle" /\ first = s[1] /\ k \in Int /\ heap[first].key \in Int
    BY <1>1, <1>3, Spelled, LinkedListAssumption DEF SortedInsert, IsEmpty
  <2>2. InFront(New(e, i, k), e)
    BY <1>3, <2>1 DEF SortedInsert
  <2> QED BY <1>1, <1>3, <2>1, <2>2, FrontInserts
<1>4. CASE ~IsEmpty /\ ~(k < heap[first].key)
  <2>1. /\ heap' = New(e, i, k) /\ phase' = "walk" /\ ptr' = first /\ element' = e
        /\ UNCHANGED <<first, last>> /\ heap[first].key <= k
    BY <1>4 DEF SortedInsert
  <2>2. /\ DOMAIN heap' = DOMAIN heap \cup {e}
        /\ heap' \in [DOMAIN heap \cup {e} -> ListElement]
        /\ heap'[e] = [item |-> i, key |-> k, next |-> NULL]
        /\ \A x \in DOMAIN heap : heap'[x] = heap[x]
    BY <1>1, <2>1, NewHeap
  <2>3. Len(s) # 0 /\ first = s[1] /\ \A n \in 1..Len(s) : s[n] \in DOMAIN heap
    BY <1>1, <1>4, Spelled DEF IsEmpty
  <2>4. \A n \in 1..Len(s) : heap'[s[n]] = heap[s[n]]
    BY <2>2, <2>3
  <2>5. Chain(s, heap', first', last')
    BY <2>1, <2>4 DEF Spells, Chain
  <2>6. Linked' = Linked
    BY <1>1, <2>1, <2>2 DEF Linked
  <2>7. Covers(s, Linked')
    BY <2>6 DEF Spells
  <2>8. DOMAIN heap' \subseteq Element
    BY <1>1, <2>2 DEF TypeOK
  <2>9. Spells(s)'
    BY <2>5, <2>7, <2>8, SpellsNext
  <2> QED BY <2>1, <2>2, <2>3, <2>4, <2>8, <2>9
<1> QED BY <1>2, <1>3, <1>4

\* A step of the walk passes one more element, or links the element in its hand
\* behind the last one whose key is not larger.
LEMMA WalkStep ==
  ASSUME Inv, NEW s \in Seq(Element), Spells(s), Walk
  PROVE  \E p \in 1..Len(s) :
           /\ \A n \in 1..p : heap[s[n]].key <= heap[element].key
           /\ \/ /\ ptr' = s[p]
                 /\ UNCHANGED <<first, last, heap, phase, element>>
              \/ /\ phase' = "idle" /\ Inserts(s, p, element)
                 /\ p # Len(s) => heap[element].key < heap[s[p + 1]].key
                 /\ heap'[element].item = heap[element].item
                 /\ heap'[element].key = heap[element].key
                 /\ DOMAIN heap' \subseteq Element
                 /\ heap' \in [DOMAIN heap' -> ListElement]
<1> DEFINE e == element
           next == heap[ptr].next
           cells == DOMAIN heap
<1>1. /\ phase = "walk" /\ TypeOK /\ e \in cells /\ heap[e].next = NULL
      /\ cells \subseteq Element /\ heap \in [cells -> ListElement]
      /\ Linked = cells \ {e} /\ e \in Element
  BY DEF Walk, Inv, InWalk, TypeOK, Linked
<1>2. /\ Nodes = s /\ Len(s) \in Nat
      /\ \A n \in 1..Len(s) : /\ s[n] \in cells /\ s[n] # e
                              /\ s[n] \in Element /\ s[n] # NULL
                              /\ heap[s[n]].key \in Int
      /\ Len(s) # 0 => last = s[Len(s)]
  BY <1>1, Spelled
<1>3. PICK p \in 1..Len(s) : /\ ptr = s[p]
                             /\ \A n \in 1..p : heap[s[n]].key <= heap[e].key
  BY <1>1, <1>2 DEF Inv, InWalk
<1>4. next = IF p = Len(s) THEN NULL ELSE s[p + 1]
  BY <1>3 DEF Spells, Chain
<1>5. p # Len(s) => p + 1 \in 1..Len(s)
  BY <1>2
<1>6. p \in 1..Len(s) /\ p # 0 /\ p \in 0..Len(s)
  BY <1>2
<1>7. next = NULL <=> p = Len(s)
  BY <1>2, <1>4, <1>5
<1>8. heap[e].key \in Int
  BY <1>1, LinkedListAssumption DEF ListElement
<1>9. \A n \in 1..Len(s) : s[n] = s[p] => n = p
  BY DEF Spells, Chain
<1>10. CASE p # Len(s) /\ ~GoesBefore(next)
  <2>1. /\ ptr' = s[p + 1] /\ UNCHANGED <<first, last, heap, phase, element>>
    BY <1>4, <1>7, <1>10 DEF Walk
  <2>2. heap[s[p + 1]].key <= heap[e].key
    BY <1>2, <1>4, <1>5, <1>8, <1>10 DEF GoesBefore
  <2>3. \A n \in 1..(p + 1) : heap[s[n]].key <= heap[e].key
    <3>1. \A n \in 1..(p + 1) : n \in 1..p \/ n = p + 1
      BY <1>6
    <3> QED BY <1>3, <2>2, <3>1
  <2> QED BY <1>5, <1>10, <2>1, <2>3
<1>11. CASE p # Len(s) /\ GoesBefore(next)
  <2> DEFINE h == Link(heap, e, next)
  <2>1. heap' = Link(h, ptr, e) /\ phase' = "idle" /\ UNCHANGED <<first, last>>
    BY <1>7, <1>11 DEF Walk
  <2>2. next \in Element
    BY <1>2, <1>4, <1>5, <1>11
  <2>3. /\ h \in [cells -> ListElement]
        /\ h[e].next = next /\ h[e].item = heap[e].item /\ h[e].key = heap[e].key
        /\ \A z \in cells : z # e => h[z] = heap[z]
    BY <1>1, <2>2, LinkHeap
  <2> HIDE DEF h
  <2>4. ptr \in cells /\ ptr # e
    BY <1>2, <1>3
  <2>5. /\ DOMAIN heap' = cells /\ heap' \in [cells -> ListElement]
        /\ heap'[ptr].next = e
        /\ heap'[ptr].item = h[ptr].item /\ heap'[ptr].key = h[ptr].key
        /\ \A z \in cells : z # ptr => heap'[z] = h[z]
    BY <1>1, <2>1, <2>3, <2>4, LinkHeap
  <2>6. heap'[e] = h[e]
    BY <1>1, <2>4, <2>5
  <2>7. \A n \in 1..Len(s) : n # p => heap'[s[n]] = heap[s[n]]
    BY <1>2, <1>3, <1>9, <2>3, <2>5
  <2>8. heap'[ptr].item = heap[ptr].item /\ heap'[ptr].key = heap[ptr].key
    BY <2>3, <2>4, <2>5
  <2>9. Linked' = Linked \cup {e} /\ e \notin Linked
    BY <1>1, <2>1, <2>5 DEF Linked
  <2>10. Inserts(s, p, e)
    BY <1>1, <1>3, <1>4, <1>6, <1>11, <2>1, <2>3, <2>5, <2>6, <2>7, <2>8, <2>9
    DEF Inserts
  <2>11. heap[e].key < heap[s[p + 1]].key
    BY <1>4, <1>11 DEF GoesBefore
  <2> QED BY <1>1, <1>3, <2>1, <2>3, <2>5, <2>6, <2>10, <2>11
<1>12. CASE p = Len(s)
  <2>1. /\ heap' = Link(heap, last, e) /\ last' = e /\ UNCHANGED first
        /\ phase' = "idle"
    BY <1>7, <1>12 DEF Walk, AtEnd
  <2>2. last = ptr /\ ptr \in cells /\ ptr # e
    BY <1>2, <1>3, <1>6, <1>12
  <2>3. /\ DOMAIN heap' = cells /\ heap' \in [cells -> ListElement]
        /\ heap'[ptr].next = e
        /\ heap'[ptr].item = heap[ptr].item /\ heap'[ptr].key = heap[ptr].key
        /\ \A z \in cells : z # ptr => heap'[z] = heap[z]
    BY <1>1, <2>1, <2>2, LinkHeap
  <2>4. heap'[e] = heap[e]
    BY <1>1, <2>2, <2>3
  <2>5. \A n \in 1..Len(s) : n # p => heap'[s[n]] = heap[s[n]]
    BY <1>2, <1>3, <1>9, <2>3
  <2>6. Linked' = Linked \cup {e} /\ e \notin Linked
    BY <1>1, <2>1, <2>3 DEF Linked
  <2>7. Inserts(s, p, e)
    BY <1>1, <1>3, <1>6, <1>12, <2>1, <2>3, <2>4, <2>5, <2>6 DEF Inserts
  <2> QED BY <1>1, <1>3, <1>12, <2>1, <2>3, <2>4, <2>7
<1> QED BY <1>10, <1>11, <1>12

\* Remove takes the first element, if there is one, and deletes it.
LEMMA TakeFirstStep ==
  ASSUME Inv, NEW s \in Seq(Element), Spells(s), TakeFirst,
         phase \in {"idle", "destroy"}, phase' # "walk"
  PROVE  \/ /\ Len(s) = 0 /\ DOMAIN heap = {}
            /\ UNCHANGED <<first, last, heap>>
            /\ result' = [item |-> NULL, key |-> 0] /\ Spells(s)'
         \/ /\ Len(s) # 0 /\ Spells(Tail(s))'
            /\ result' = [item |-> heap[s[1]].item, key |-> heap[s[1]].key]
            /\ DOMAIN heap' = DOMAIN heap \ {s[1]}
            /\ \A x \in DOMAIN heap' : heap'[x] = heap[x]
            /\ heap' \in [DOMAIN heap' -> ListElement]
            /\ first' \in Element \cup {NULL} /\ last' \in Element \cup {NULL}
<1>1. TypeOK /\ Linked = DOMAIN heap /\ Linked' = DOMAIN heap'
  BY DEF Inv, Linked
<1>2. /\ Len(s) \in Nat
      /\ \A n \in 1..Len(s) : s[n] \in DOMAIN heap
      /\ first = NULL <=> Len(s) = 0
      /\ Len(s) # 0 => first = s[1] /\ 1 \in 1..Len(s)
  BY <1>1, Spelled
<1>3. CASE Len(s) = 0
  <2>1. /\ UNCHANGED <<first, last, heap>>
        /\ result' = [item |-> NULL, key |-> 0]
    BY <1>2, <1>3 DEF TakeFirst, IsEmpty
  <2>2. DOMAIN heap = {}
    <3>1. \A n \in 1..Len(s) : FALSE
      BY <1>3
    <3> QED BY <1>1, <3>1 DEF Spells, Covers
  <2>3. Spells(s)'
    BY <1>1, <2>1 DEF Spells, Chain, Covers
  <2> QED BY <1>3, <2>1, <2>2, <2>3
<1>4. CASE Len(s) # 0
  <2>1. s # <<>> /\ first = s[1] /\ first \in DOMAIN heap
    BY <1>2, <1>4, EmptySeq
  <2>2. /\ result' = [item |-> heap[s[1]].item, key |-> heap[s[1]].key]
        /\ heap' = [x \in DOMAIN heap \ {first} |-> heap[x]]
        /\ IF first = last THEN first' = NULL /\ last' = NULL
                           ELSE first' = heap[first].next /\ UNCHANGED last
    BY <1>2, <1>4, <2>1 DEF TakeFirst, IsEmpty
  <2>3. /\ DOMAIN heap' = DOMAIN heap \ {s[1]}
        /\ \A x \in DOMAIN heap' : heap'[x] = heap[x]
    BY <2>1, <2>2
  <2>4. /\ heap' \in [DOMAIN heap' -> ListElement] /\ DOMAIN heap' \subseteq Element
        /\ first' \in Element \cup {NULL} /\ last' \in Element \cup {NULL}
    BY <1>1, <2>1, <2>2, <2>3 DEF TypeOK, ListElement
  <2>5. \A m, n \in 1..Len(s) : s[m] = s[n] => m = n
    BY DEF Spells, Chain
  <2>6. \A n \in 2..Len(s) : heap'[s[n]].next = heap[s[n]].next
    <3>1. ASSUME NEW n \in 2..Len(s) PROVE n \in 1..Len(s) /\ s[n] # s[1]
      <4>1. n \in 1..Len(s) /\ n # 1
        BY <1>2
      <4> QED BY <1>2, <1>4, <2>5, <4>1
    <3> QED BY <1>2, <2>3, <3>1
  <2>7. /\ first = last <=> Len(s) = 1
        /\ Chain(Tail(s), heap', heap[first].next, IF Len(s) = 1 THEN NULL ELSE last)
    BY <2>1, <2>6, TailChain DEF Spells
  <2>8. heap[first].next = IF 1 = Len(s) THEN NULL ELSE s[1 + 1]
    BY <1>2, <1>4, <2>1 DEF Spells, Chain
  <2>9. first' = heap[first].next /\ last' = IF Len(s) = 1 THEN NULL ELSE last
    BY <2>2, <2>7, <2>8
  <2>10. Chain(Tail(s), heap', first', last')
    BY <2>7, <2>9
  <2>11. Covers(Tail(s), Linked')
    <3>1. Covers(Tail(s), Linked \ {s[1]})
      BY <2>1, <2>5, TailCovers DEF Spells
    <3>2. Linked' = Linked \ {s[1]}
      BY <1>1, <2>3
    <3> QED BY <3>1, <3>2
  <2>12. Spells(Tail(s))'
    <3>1. PICK t \in Seq(Element) : t = Tail(s)
      BY <2>1, HeadTailProperties
    <3>2. Spells(t)'
      BY <2>4, <2>10, <2>11, <3>1, SpellsNext
    <3> QED BY <3>1, <3>2
  <2> QED BY <1>4, <2>2, <2>3, <2>4, <2>12
<1> QED BY <1>3, <1>4

-----------------------------------------------------------------------------
(* The invariant is kept. *)

LEMMA InsertsTypes ==
  ASSUME TypeOK, NEW s, NEW p, NEW e, Inserts(s, p, e)
  PROVE  first' \in Element \cup {NULL} /\ last' \in Element \cup {NULL}
BY DEF TypeOK, Inserts

LEMMA InvNext == Inv /\ [Next]_vars => Inv'
<1> SUFFICES ASSUME Inv, [Next]_vars PROVE Inv'
  OBVIOUS
<1>0. PICK s \in Seq(Element) : Spells(s)
  BY DEF Inv
<1>t. TypeOK /\ Nodes = s /\ Len(s) \in Nat
      /\ \A n \in 1..Len(s) : heap[s[n]].key \in Int /\ s[n] \in DOMAIN heap
  BY <1>0, Spelled DEF Inv
<1>1. ASSUME NEW e \in Element, NEW i \in Item, AppendItem(e, i) \/ Prepend(e, i)
      PROVE  Inv'
  <2>1. PICK p : /\ Inserts(s, p, e)
                 /\ DOMAIN heap' \subseteq Element
                 /\ heap' \in [DOMAIN heap' -> ListElement]
    BY <1>0, <1>1, AppendStep, PrependStep
  <2>2. phase' = "idle" /\ sortedOnly' = FALSE /\ UNCHANGED <<phase, ptr, element, result>>
    BY <1>1 DEF AppendItem, Prepend, Unsorted
  <2>3. TypeOK'
    BY <1>t, <2>1, <2>2, InsertsTypes DEF TypeOK
  <2>4. \E t \in Seq(Element) : Spells(t)'
    BY <1>0, <2>1, InsertsNodes
  <2> QED BY <2>2, <2>3, <2>4 DEF Inv, InWalk, StaysSorted
<1>2. ASSUME NEW e \in Element, NEW i \in Item, NEW k \in Key, SortedInsert(e, i, k)
      PROVE  Inv'
  <2>1. /\ DOMAIN heap' \subseteq Element /\ heap' \in [DOMAIN heap' -> ListElement]
        /\ heap'[e].key = k
    BY <1>0, <1>2, SortedInsertStep
  <2>2. phase = "idle" /\ UNCHANGED <<result, sortedOnly>>
    BY <1>2 DEF SortedInsert
  <2>3. CASE /\ phase' = "idle" /\ Inserts(s, 0, e)
             /\ Len(s) # 0 => k < heap[s[1]].key
    <3>1. UNCHANGED <<ptr, element>>
      BY <1>2, <2>3 DEF SortedInsert
    <3>2. TypeOK'
      BY <1>t, <2>1, <2>2, <2>3, <3>1, InsertsTypes DEF TypeOK
    <3>3. \E t \in Seq(Element) : Spells(t)'
      BY <1>0, <2>3, InsertsNodes
    <3>4. StaysSorted'
      <4>1. Len(s) # 0 => heap[s[1]].key \in Int /\ k \in Int /\ 0 + 1 = 1
        <5>1. Len(s) # 0 => 1 \in 1..Len(s)
          BY <1>t
        <5> QED BY <1>t, <5>1, LinkedListAssumption
      <4>2. 0 # Len(s) => heap'[e].key <= heap[s[0 + 1]].key
        BY <2>1, <2>3, <4>1
      <4> QED BY <1>0, <1>t, <2>2, <2>3, <4>2, InsertsSorted DEF Inv
    <3> QED BY <2>3, <3>2, <3>3, <3>4 DEF Inv, InWalk
  <2>4. CASE /\ phase' = "walk" /\ ptr' = s[1] /\ element' = e /\ Len(s) # 0
             /\ e \in DOMAIN heap' /\ heap'[e].next = NULL
             /\ heap[s[1]].key <= k
             /\ \A n \in 1..Len(s) : heap'[s[n]] = heap[s[n]]
             /\ Spells(s)'
    <3>0. 1 \in 1..Len(s)
      BY <1>t, <2>4
    <3>1. UNCHANGED <<first, last>>
      BY <1>2, <2>4 DEF SortedInsert
    <3>2. ptr' \in Element
      BY <1>t, <2>4, <3>0 DEF TypeOK
    <3>3. TypeOK'
      BY <1>t, <2>1, <2>2, <2>4, <3>1, <3>2 DEF TypeOK
    <3>4. Nodes' = s
      BY <2>4, NodesAreNext
    <3>5. InWalk'
      <4>1. \A n \in 1..1 : heap'[s[n]].key <= heap'[e].key
        BY <2>1, <2>4, <3>0
      <4> QED BY <2>1, <2>4, <3>0, <3>4, <4>1 DEF InWalk
    <3>6. StaysSorted'
      <4>1. \A n \in 1..(Len(s) - 1) : n \in 1..Len(s) /\ n + 1 \in 1..Len(s)
        BY <1>t
      <4> QED BY <1>t, <2>2, <2>4, <3>4, <4>1 DEF StaysSorted, Inv
    <3> QED BY <2>4, <3>3, <3>5, <3>6 DEF Inv
  <2> QED BY <1>0, <1>2, <2>3, <2>4, SortedInsertStep
<1>3. CASE Walk
  <2>1. PICK p \in 1..Len(s) :
           /\ \A n \in 1..p : heap[s[n]].key <= heap[element].key
           /\ \/ /\ ptr' = s[p]
                 /\ UNCHANGED <<first, last, heap, phase, element>>
              \/ /\ phase' = "idle" /\ Inserts(s, p, element)
                 /\ p # Len(s) => heap[element].key < heap[s[p + 1]].key
                 /\ heap'[element].item = heap[element].item
                 /\ heap'[element].key = heap[element].key
                 /\ DOMAIN heap' \subseteq Element
                 /\ heap' \in [DOMAIN heap' -> ListElement]
    BY <1>0, <1>3, WalkStep
  <2>2. /\ phase = "walk" /\ UNCHANGED <<result, sortedOnly>>
        /\ element \in DOMAIN heap /\ heap[element].key \in Int
    BY <1>3, LinkedListAssumption DEF Walk, Inv, InWalk
  <2>3. CASE ptr' = s[p] /\ UNCHANGED <<first, last, heap, phase, element>>
    <3>1. TypeOK'
      BY <1>t, <2>2, <2>3 DEF TypeOK
    <3>2. Spells(s)'
      BY <1>0, <2>3 DEF Spells, Chain, Covers, Linked
    <3>3. Nodes' = s
      BY <3>2, NodesAreNext
    <3>4. InWalk'
      BY <2>1, <2>2, <2>3, <3>3 DEF InWalk, Inv
    <3>5. StaysSorted'
      BY <1>t, <2>2, <2>3, <3>3 DEF StaysSorted, Inv
    <3> QED BY <3>1, <3>2, <3>4, <3>5 DEF Inv
  <2>4. CASE /\ phase' = "idle" /\ Inserts(s, p, element)
             /\ p # Len(s) => heap[element].key < heap[s[p + 1]].key
             /\ heap'[element].key = heap[element].key
             /\ DOMAIN heap' \subseteq Element
             /\ heap' \in [DOMAIN heap' -> ListElement]
    <3>1. ptr' = NULL /\ element' = NULL
      BY <1>3, <2>2, <2>4 DEF Walk
    <3>2. TypeOK'
      BY <1>t, <2>2, <2>4, <3>1, InsertsTypes DEF TypeOK
    <3>3. \E t \in Seq(Element) : Spells(t)'
      BY <1>0, <2>4, InsertsNodes
    <3>4. StaysSorted'
      <4>1. heap[s[p]].key <= heap'[element].key
        <5>1. p \in 1..p
          BY <1>t
        <5> QED BY <2>1, <2>4, <5>1
      <4>2. p # Len(s) => heap'[element].key <= heap[s[p + 1]].key
        <5>1. p # Len(s) => p + 1 \in 1..Len(s)
          BY <1>t
        <5>2. p # Len(s) => heap[s[p + 1]].key \in Int
          BY <1>t, <5>1
        <5> QED BY <2>2, <2>4, <5>2
      <4> QED BY <1>0, <1>t, <2>2, <2>4, <4>1, <4>2, InsertsSorted DEF Inv
    <3> QED BY <2>4, <3>2, <3>3, <3>4 DEF Inv, InWalk
  <2> QED BY <2>1, <2>3, <2>4
<1>4. CASE Remove \/ Destroy
  <2>1. /\ TakeFirst /\ phase \in {"idle", "destroy"}
        /\ phase' \in {"idle", "destroy", "gone"}
        /\ UNCHANGED <<ptr, element, sortedOnly>>
    BY <1>4 DEF Remove, Destroy
  <2>2. \/ /\ Len(s) = 0 /\ DOMAIN heap = {}
           /\ UNCHANGED <<first, last, heap>>
           /\ result' = [item |-> NULL, key |-> 0] /\ Spells(s)'
        \/ /\ Len(s) # 0 /\ Spells(Tail(s))'
           /\ result' = [item |-> heap[s[1]].item, key |-> heap[s[1]].key]
           /\ DOMAIN heap' = DOMAIN heap \ {s[1]}
           /\ \A x \in DOMAIN heap' : heap'[x] = heap[x]
           /\ heap' \in [DOMAIN heap' -> ListElement]
           /\ first' \in Element \cup {NULL} /\ last' \in Element \cup {NULL}
    BY <1>0, <2>1, TakeFirstStep
  <2>3. CASE Len(s) = 0
    <3>1. TypeOK'
      BY <1>t, <2>1, <2>2, <2>3 DEF TypeOK
    <3>2. Nodes' = s
      BY <2>2, <2>3, NodesAreNext
    <3>3. StaysSorted'
      <4>1. \A n \in 1..(Len(s) - 1) : FALSE
        BY <2>3
      <4> QED BY <3>2, <4>1 DEF StaysSorted
    <3> QED BY <2>1, <2>2, <2>3, <3>1, <3>3 DEF Inv, InWalk
  <2>4. CASE Len(s) # 0
    <3>0. 1 \in 1..Len(s) /\ s # <<>>
      BY <1>t, <2>4, EmptySeq
    <3>1. TypeOK'
      <4>1. heap[s[1]] \in ListElement
        BY <1>t, <3>0 DEF TypeOK
      <4>2. [item |-> heap[s[1]].item, key |-> heap[s[1]].key]
              \in [item : Item \cup {NULL}, key : Key \cup {0}]
        BY <4>1 DEF ListElement
      <4> QED BY <1>t, <2>1, <2>2, <2>4, <4>2 DEF TypeOK
    <3>2. PICK t \in Seq(Element) : t = Tail(s)
      BY <3>0, HeadTailProperties
    <3>3. Spells(t)' /\ Nodes' = t
      BY <2>2, <2>4, <3>2, NodesAreNext
    <3>4. StaysSorted'
      <4>1. Len(t) = Len(s) - 1 /\ \A n \in 1..(Len(s) - 1) : t[n] = s[n + 1]
        BY <3>0, <3>2, HeadTailProperties
      <4>2. \A n \in 1..(Len(t) - 1) :
              /\ n \in 1..(Len(s) - 1) /\ n + 1 \in 1..(Len(s) - 1)
              /\ n \in 1..Len(t) /\ n + 1 \in 1..Len(t)
        BY <1>t, <4>1
      <4>3. \A n \in 1..Len(t) : t[n] \in DOMAIN heap'
        BY <3>3 DEF Spells, Covers, Linked
      <4>4. \A n \in 1..Len(t) : heap'[t[n]] = heap[t[n]]
        BY <2>2, <2>4, <4>3
      <4> QED BY <1>t, <2>1, <3>3, <4>1, <4>2, <4>4 DEF StaysSorted, Inv
    <3> QED BY <2>1, <3>1, <3>3, <3>4 DEF Inv, InWalk
  <2> QED BY <2>3, <2>4
<1>5. CASE UNCHANGED vars
  <2>1. Spells(s)'
    BY <1>0, <1>5 DEF vars, Spells, Chain, Covers, Linked
  <2>2. Nodes' = s
    BY <2>1, NodesAreNext
  <2> QED BY <1>t, <1>5, <2>1, <2>2 DEF vars, Inv, TypeOK, InWalk, StaysSorted
<1> QED BY <1>1, <1>2, <1>3, <1>4, <1>5 DEF Next, Gone

\* The pointers spell out one sequence of elements, and a walk of SortedInsert knows
\* where in it it is.
THEOREM InvCorrect == Spec => []Inv
BY InvInit, InvNext, PTL DEF Spec

\* No cycle, no dangling pointer, no element lost, and last is the end of the list.
THEOREM WellLinkedCorrect == Spec => []WellLinked
<1>1. Inv => WellLinked
  <2> SUFFICES ASSUME Inv PROVE WellLinked
    OBVIOUS
  <2>1. PICK s \in Seq(Element) : Spells(s)
    BY DEF Inv
  <2>2. Nodes = s /\ Len(s) \in Nat
    BY <2>1, Spelled DEF Inv
  <2>3. s = <<>> <=> Len(s) = 0
    BY EmptySeq
  <2>4. {s[n] : n \in 1..Len(s)} = Linked
    BY <2>1 DEF Spells, Covers
  <2> QED BY <2>1, <2>2, <2>3, <2>4 DEF WellLinked, Spells, Chain
<1> QED BY <1>1, InvCorrect, PTL

\* With the sorted operations only, the list stays sorted by key.
THEOREM SortedCorrect == Spec => []StaysSorted
<1>1. Inv => StaysSorted
  BY DEF Inv
<1> QED BY <1>1, InvCorrect, PTL

\* The destructor frees every element up to and including the first null item, and
\* none of those behind it.
THEOREM DestroyCorrect == Spec => DestroyFrees
<1>1. ASSUME Inv, Destroy
      PROVE  IF phase' = "gone" THEN DOMAIN heap' = Behind ELSE Behind' = Behind
  <2>1. PICK s \in Seq(Element) : Spells(s)
    BY <1>1 DEF Inv
  <2>2. /\ Nodes = s /\ Len(s) \in Nat
        /\ \A n \in 1..Len(s) : s[n] \in DOMAIN heap
    BY <1>1, <2>1, Spelled DEF Inv
  <2>3. /\ TakeFirst /\ phase \in {"idle", "destroy"} /\ phase' # "walk"
        /\ phase' = "gone" <=> result'.item = NULL
    BY <1>1 DEF Destroy
  <2>4. \/ /\ Len(s) = 0 /\ DOMAIN heap = {}
           /\ UNCHANGED <<first, last, heap>>
           /\ result' = [item |-> NULL, key |-> 0] /\ Spells(s)'
        \/ /\ Len(s) # 0 /\ Spells(Tail(s))'
           /\ result' = [item |-> heap[s[1]].item, key |-> heap[s[1]].key]
           /\ DOMAIN heap' = DOMAIN heap \ {s[1]}
           /\ \A x \in DOMAIN heap' : heap'[x] = heap[x]
           /\ heap' \in [DOMAIN heap' -> ListElement]
           /\ first' \in Element \cup {NULL} /\ last' \in Element \cup {NULL}
    BY <1>1, <2>1, <2>3, TakeFirstStep
  <2>5. CASE Len(s) = 0
    <3>1. Behind = {}
      BY <2>2, <2>5 DEF Behind
    <3>2. phase' = "gone" /\ DOMAIN heap' = {}
      BY <2>3, <2>4, <2>5
    <3> QED BY <3>1, <3>2
  <2>6. CASE Len(s) # 0
    <3>1. 1 \in 1..Len(s) /\ s # <<>>
      BY <2>2, <2>6, EmptySeq
    <3>2. PICK t \in Seq(Element) : t = Tail(s)
      BY <3>1, HeadTailProperties
    <3>3. Len(t) = Len(s) - 1 /\ \A n \in 1..(Len(s) - 1) : t[n] = s[n + 1]
      BY <3>1, <3>2, HeadTailProperties
    <3>4. Nodes' = t
      BY <2>4, <2>6, <3>2, NodesAreNext
    <3>5. \A n \in 1..Len(s) : n # 1 => s[n] \in DOMAIN heap' /\ s[n] # s[1]
      BY <2>1, <2>2, <2>4, <2>6, <3>1 DEF Spells, Chain
    <3>0. phase' = "gone" <=> heap[s[1]].item = NULL
      BY <2>3, <2>4, <2>6
    \* The first item is null: what is left is what is behind it.
    <3>6. CASE heap[s[1]].item = NULL
      <4>1. Behind = {s[n] : n \in 2..Len(s)}
        BY <2>2, <3>6 DEF Behind
      <4>2. \A x : x \in DOMAIN heap' <=> \E n \in 2..Len(s) : x = s[n]
        <5>1. \A x \in DOMAIN heap : \E n \in 1..Len(s) : x = s[n]
          BY <2>1, <2>3 DEF Spells, Covers, Linked
        <5>2. DOMAIN heap' = DOMAIN heap \ {s[1]}
          BY <2>4, <2>6
        <5>3. ASSUME NEW x \in DOMAIN heap'
              PROVE  \E n \in 2..Len(s) : x = s[n]
          <6>1. PICK n \in 1..Len(s) : x = s[n]
            BY <5>1, <5>2
          <6>2. n # 1
            BY <5>2, <6>1
          <6> QED BY <2>2, <6>1, <6>2
        <5>4. \A n \in 2..Len(s) : s[n] \in DOMAIN heap'
          BY <2>2, <3>5
        <5> QED BY <5>3, <5>4
      <4>3. DOMAIN heap' = Behind
        <5>1. \A x : x \in Behind <=> \E n \in 2..Len(s) : x = s[n]
          BY <4>1
        <5>2. \A x : x \in DOMAIN heap' <=> x \in Behind
          BY <4>2, <5>1
        <5> QED BY <5>2, Zenon
      <4> QED BY <3>0, <3>6, <4>3, Zenon
    \* Or nothing is behind it that was not before.
    <3>7. CASE heap[s[1]].item # NULL
      <4>1. ASSUME NEW n \in 1..Len(s)
            PROVE  (\E m \in 1..(n - 1) : heap[s[m]].item = NULL)
                   <=> /\ n - 1 \in 1..Len(t)
                       /\ \E m \in 1..(n - 2) : heap'[t[m]].item = NULL
        <5>1. ASSUME NEW m \in 1..(n - 2)
              PROVE  heap'[t[m]] = heap[s[m + 1]] /\ m + 1 \in 1..(n - 1)
          <6>1. /\ m + 1 \in 1..(n - 1) /\ m + 1 \in 1..Len(s) /\ m + 1 # 1
                /\ m \in 1..(Len(s) - 1)
            BY <2>2
          <6>2. t[m] = s[m + 1] /\ s[m + 1] \in DOMAIN heap'
            BY <3>3, <3>5, <6>1
          <6> QED BY <2>4, <2>6, <6>1, <6>2
        <5>2. \A m \in 1..(n - 1) : m # 1 => m - 1 \in 1..(n - 2)
                                             /\ (m - 1) + 1 = m
          BY <2>2
        <5>3. n # 1 => n - 1 \in 1..Len(t)
          BY <2>2, <3>3
        <5>4. ASSUME NEW m \in 1..(n - 1), heap[s[m]].item = NULL
              PROVE  n - 1 \in 1..Len(t) /\ m - 1 \in 1..(n - 2)
                     /\ heap'[t[m - 1]].item = NULL
          <6>1. m # 1
            BY <3>7, <5>4
          <6>2. m - 1 \in 1..(n - 2) /\ (m - 1) + 1 = m /\ n # 1
            BY <2>2, <5>2, <6>1
          <6>3. heap'[t[m - 1]] = heap[s[m]]
            BY <5>1, <6>2
          <6> QED BY <5>3, <5>4, <6>2, <6>3
        <5>5. ASSUME NEW m \in 1..(n - 2), heap'[t[m]].item = NULL
              PROVE  m + 1 \in 1..(n - 1) /\ heap[s[m + 1]].item = NULL
          BY <5>1, <5>5
        <5> QED BY <5>4, <5>5
      <4>2. Behind' = {t[n] : n \in {n \in 1..Len(t) :
                                \E m \in 1..(n - 1) : heap'[t[m]].item = NULL}}
        BY <3>4 DEF Behind
      <4>3. \A n \in 1..Len(t) : /\ n + 1 \in 1..Len(s) /\ t[n] = s[n + 1]
                                 /\ (n + 1) - 1 = n /\ (n + 1) - 2 = n - 1
        BY <2>2, <3>3
      <4>4. Behind = {s[n] : n \in {n \in 1..Len(s) :
                                \E m \in 1..(n - 1) : heap[s[m]].item = NULL}}
        BY <2>2 DEF Behind
      <4>5. \A n \in 1..Len(s) : n - 1 \in 1..Len(t) =>
              s[n] = t[n - 1] /\ (n - 1) - 1 = n - 2
        BY <2>2, <3>3
      <4>6. ASSUME NEW x \in Behind' PROVE x \in Behind
        <5>1. PICK n \in 1..Len(t) :
                x = t[n] /\ \E m \in 1..(n - 1) : heap'[t[m]].item = NULL
          BY <4>2, <4>6
        <5>2. n + 1 \in 1..Len(s) /\ x = s[n + 1]
          BY <4>3, <5>1
        <5>3. \E m \in 1..((n + 1) - 1) : heap[s[m]].item = NULL
          BY <4>1, <4>3, <5>1, <5>2
        <5> QED BY <4>4, <5>2, <5>3
      <4>7. ASSUME NEW x \in Behind PROVE x \in Behind'
        <5>1. PICK n \in 1..Len(s) :
                x = s[n] /\ \E m \in 1..(n - 1) : heap[s[m]].item = NULL
          BY <4>4, <4>7
        <5>2. n - 1 \in 1..Len(t) /\ x = t[n - 1]
          BY <4>1, <4>5, <5>1
        <5>3. \E m \in 1..((n - 1) - 1) : heap'[t[m]].item = NULL
          BY <4>1, <4>5, <5>1, <5>2
        <5> QED BY <4>2, <5>2, <5>3
      <4>8. Behind' = Behind
        BY <4>6, <4>7
      <4> QED BY <3>0, <3>7, <4>8, Zenon
    <3> QED BY <3>6, <3>7
  <2> QED BY <2>5, <2>6
<1>2. Inv /\ [Next]_vars =>
        [/\ phase' = "destroy" => Behind' = Behind
         /\ phase' = "gone" => DOMAIN heap' = Behind]_vars
  <2> SUFFICES ASSUME Inv, Next, ~ UNCHANGED vars, phase' \in {"destroy", "gone"}
               PROVE  IF phase' = "gone" THEN DOMAIN heap' = Behind
                                         ELSE Behind' = Behind
    OBVIOUS
  <2>1. Destroy
    BY DEF Next, AppendItem, Prepend, Unsorted, SortedInsert, Walk, Remove, Gone
  <2> QED BY <1>1, <2>1
<1> QED BY <1>2, InvCorrect, PTL DEF Spec, DestroyFrees

-----------------------------------------------------------------------------
(* The linked list implements the sequence of list.h. *)

LEMMA InsertLast ==
  ASSUME NEW S, NEW list \in Seq(S), NEW x \in S
  PROVE  Insert(list, Len(list), x) = Append(list, x)
<1>1. Len(list) \in Nat /\ Len(list) \in 0..Len(list)
  BY LenProperties
<1>2. /\ Insert(list, Len(list), x) \in Seq(S)
      /\ Len(Insert(list, Len(list), x)) = Len(list) + 1
  BY <1>1, InsertSeq
<1>3. ASSUME NEW n \in 1..(Len(list) + 1)
      PROVE  Insert(list, Len(list), x)[n] = Append(list, x)[n]
  <2>1. n \in 1..Len(list) \/ n = Len(list) + 1
    BY <1>1
  <2>2. Insert(list, Len(list), x)[n] =
          IF n <= Len(list) THEN list[n]
          ELSE IF n = Len(list) + 1 THEN x ELSE list[n - 1]
    BY DEF Insert
  <2> QED BY <1>1, <2>1, <2>2, AppendProperties
<1> HIDE DEF Insert
<1> QED BY <1>2, <1>3, AppendProperties, SeqEqual

\* The two parts of a sequence around p with x between them.
LEMMA InsertMiddle ==
  ASSUME NEW S, NEW list \in Seq(S), NEW x \in S, NEW p \in 0..Len(list)
  PROVE  Insert(list, p, x) =
           SubSeq(list, 1, p) \o <<x>> \o SubSeq(list, p + 1, Len(list))
<1> DEFINE a == SubSeq(list, 1, p)
           b == SubSeq(list, p + 1, Len(list))
<1>1. Len(list) \in Nat /\ p \in Nat /\ p <= Len(list) /\ p \in Int
      /\ \A n \in 1..Len(list) : list[n] \in S
  BY LenProperties, ElementOfSeq
<1>2. a \in Seq(S) /\ Len(a) = p /\ \A n \in 1..p : a[n] = list[n]
  <2>1. \A n \in 1..p : list[n] \in S
    BY <1>1
  <2>2. /\ a \in Seq(S) /\ Len(a) = IF 1 <= p THEN p - 1 + 1 ELSE 0
        /\ \A n \in 1..(p - 1 + 1) : a[n] = list[1 + n - 1]
    BY <1>1, <2>1, SubSeqProperties
  <2> QED BY <1>1, <2>2
<1>3. /\ b \in Seq(S) /\ Len(b) = Len(list) - p
      /\ \A n \in 1..(Len(list) - p) : b[n] = list[p + n]
  <2>1. p + 1 \in Int /\ Len(list) \in Int /\ \A n \in (p + 1)..Len(list) : list[n] \in S
    BY <1>1
  <2>2. /\ b \in Seq(S)
        /\ Len(b) = IF p + 1 <= Len(list) THEN Len(list) - (p + 1) + 1 ELSE 0
        /\ \A n \in 1..(Len(list) - (p + 1) + 1) : b[n] = list[(p + 1) + n - 1]
    BY <2>1, SubSeqProperties
  <2>3. Len(b) = Len(list) - p
    BY <1>1, <2>2
  <2>4. ASSUME NEW n \in 1..(Len(list) - p) PROVE b[n] = list[p + n]
    <3>1. n \in 1..(Len(list) - (p + 1) + 1) /\ (p + 1) + n - 1 = p + n
      BY <1>1
    <3> QED BY <2>2, <3>1
  <2> QED BY <2>2, <2>3, <2>4
<1> HIDE DEF a, b
<1>4. <<x>> \in Seq(S) /\ Len(<<x>>) = 1 /\ <<x>>[1] = x
  OBVIOUS
<1>5. /\ a \o <<x>> \in Seq(S) /\ Len(a \o <<x>>) = p + 1
      /\ \A n \in 1..(p + 1) : (a \o <<x>>)[n] = IF n <= p THEN a[n] ELSE x
  <2>1. /\ a \o <<x>> \in Seq(S) /\ Len(a \o <<x>>) = p + 1
        /\ \A n \in 1..(p + 1) :
             (a \o <<x>>)[n] = IF n <= p THEN a[n] ELSE <<x>>[n - p]
    BY <1>2, <1>4, ConcatProperties
  <2>2. \A n \in 1..(p + 1) : ~(n <= p) => n - p = 1
    BY <1>1
  <2> QED BY <1>4, <2>1, <2>2
<1> DEFINE c == a \o <<x>>
<1> HIDE DEF c
<1>6. /\ c \o b \in Seq(S) /\ Len(c \o b) = Len(list) + 1
      /\ \A n \in 1..(Len(list) + 1) :
           (c \o b)[n] = IF n <= p + 1 THEN c[n] ELSE b[n - (p + 1)]
  <2>1. c \in Seq(S) /\ Len(c) = p + 1
    BY <1>5 DEF c
  <2>2. /\ c \o b \in Seq(S) /\ Len(c \o b) = Len(c) + Len(b)
        /\ \A n \in 1..(Len(c) + Len(b)) :
             (c \o b)[n] = IF n <= Len(c) THEN c[n] ELSE b[n - Len(c)]
    BY <1>3, <2>1, ConcatProperties
  <2>3. Len(c) + Len(b) = Len(list) + 1
    BY <1>1, <1>3, <2>1
  <2> QED BY <2>1, <2>2, <2>3
<1>7. ASSUME NEW n \in 1..(Len(list) + 1)
      PROVE  (c \o b)[n] = IF n <= p THEN list[n]
                           ELSE IF n = p + 1 THEN x ELSE list[n - 1]
  <2>1. \A m \in 1..(p + 1) : c[m] = IF m <= p THEN a[m] ELSE x
    BY <1>5 DEF c
  <2>2. CASE n <= p
    <3>1. n \in 1..p /\ n \in 1..(p + 1) /\ n <= p + 1
      BY <1>1, <2>2
    <3> QED BY <1>2, <1>6, <2>1, <2>2, <3>1
  <2>3. CASE n = p + 1
    <3>1. n \in 1..(p + 1) /\ ~(n <= p) /\ n <= p + 1
      BY <1>1, <2>3
    <3> QED BY <1>6, <2>1, <2>3, <3>1
  <2>4. CASE ~(n <= p) /\ n # p + 1
    <3>1. /\ ~(n <= p + 1) /\ n - (p + 1) \in 1..(Len(list) - p)
          /\ p + (n - (p + 1)) = n - 1
      BY <1>1, <2>4
    <3> QED BY <1>3, <1>6, <2>4, <3>1
  <2> QED BY <2>2, <2>3, <2>4
<1>8. Insert(list, p, x) \in Seq(S) /\ Len(Insert(list, p, x)) = Len(list) + 1
  BY InsertSeq
<1>9. \A n \in 1..(Len(list) + 1) : Insert(list, p, x)[n] = (c \o b)[n]
  BY <1>7 DEF Insert
<1>10. Insert(list, p, x) = c \o b
  <2> HIDE DEF Insert
  <2> QED BY <1>6, <1>8, <1>9, SeqEqual
<1> QED BY <1>10 DEF a, b, c

LEMMA InsertFirst ==
  ASSUME NEW S, NEW list \in Seq(S), NEW x \in S
  PROVE  Insert(list, 0, x) = <<x>> \o list
<1>1. Len(list) \in Nat /\ 0 \in 0..Len(list)
  BY LenProperties
<1>2. Insert(list, 0, x) =
        SubSeq(list, 1, 0) \o <<x>> \o SubSeq(list, 0 + 1, Len(list))
  BY <1>1, InsertMiddle
<1>3. SubSeq(list, 1, 0) = <<>> /\ SubSeq(list, 0 + 1, Len(list)) = list
  BY SubSeqEmpty, SubSeqFull
<1>4. <<>> \o <<x>> = <<x>>
  <2>1. <<x>> \in Seq(S)
    OBVIOUS
  <2> QED BY <2>1, ConcatEmptySeq
<1> QED BY <1>2, <1>3, <1>4

\* As long as the nodes, their items and their keys stay, so does the sequence.
LEMMA SameEntries ==
  ASSUME TypeOK, NEW s \in Seq(Element), Spells(s), Nodes' = s,
         \A n \in 1..Len(s) : /\ heap'[s[n]].item = heap[s[n]].item
                              /\ heap'[s[n]].key = heap[s[n]].key
  PROVE  Entries' = Entries
<1>1. Nodes = s
  BY Spelled
<1>2. Entries = [n \in 1..Len(s) |-> [item |-> heap[s[n]].item,
                                      key |-> heap[s[n]].key]]
  BY <1>1 DEF Entries
<1>3. Entries' = [n \in 1..Len(s) |-> [item |-> heap'[s[n]].item,
                                       key |-> heap'[s[n]].key]]
  BY DEF Entries
<1> QED BY <1>2, <1>3

\* What SortedInsert links, in front of the list or after its walk.
LEMMA SortedEntry ==
  ASSUME TypeOK, NEW s \in Seq(Element), Spells(s), NEW p, NEW e, Inserts(s, p, e),
         UNCHANGED result,
         NEW i \in Item, NEW k \in Key, heap'[e].item = i, heap'[e].key = k,
         \A n \in 1..p : heap[s[n]].key <= k,
         p # Len(s) => k < heap[s[p + 1]].key
  PROVE  Abs!SortedInsert(i, k)
<1> DEFINE x == [item |-> i, key |-> k]
<1>1. PICK list \in Seq(AnEntry) : list = Entries
  BY EntriesSeq
<1>2. /\ Len(list) = Len(s) /\ Len(s) \in Nat
      /\ \A n \in 1..Len(s) : list[n].key = heap[s[n]].key
  BY <1>1, EntriesSeq, EntriesKeys, LenProperties
<1>3. p \in 0..Len(list)
  BY <1>2 DEF Inserts
<1>4. x \in AnEntry
  BY DEF AnEntry
<1>5. Entries' = Insert(list, p, x)
  BY <1>1, InsertsEntries
<1>6. Entries' = SubSeq(list, 1, p) \o <<x>> \o SubSeq(list, p + 1, Len(list))
  BY <1>1, <1>3, <1>4, <1>5, InsertMiddle
<1>7. \A n \in 1..p : list[n].key <= k
  <2>1. \A n \in 1..p : n \in 1..Len(s)
    BY <1>2, <1>3
  <2> QED BY <1>2, <2>1
<1>8. p < Len(list) => k < list[p + 1].key
  <2>1. p < Len(list) => p + 1 \in 1..Len(s) /\ p # Len(s)
    BY <1>2, <1>3
  <2> QED BY <1>2, <2>1
<1>9. x = Abs!Entry(i, k)
  BY DEF Abs!Entry
<1> HIDE DEF x
<1>10. /\ \A n \in 1..p : Entries[n].key <= k
       /\ p < Len(Entries) => k < Entries[p + 1].key
       /\ p \in 0..Len(Entries)
       /\ Entries' = SubSeq(Entries, 1, p) \o <<Abs!Entry(i, k)>>
                       \o SubSeq(Entries, p + 1, Len(Entries))
  BY <1>1, <1>3, <1>6, <1>7, <1>8, <1>9
<1> QED BY <1>10 DEF Abs!SortedInsert

\* Remove takes the front entry, or nothing from an empty list.
LEMMA RemovedEntry ==
  ASSUME Inv, NEW s \in Seq(Element), Spells(s), TakeFirst,
         phase \in {"idle", "destroy"}, phase' # "walk"
  PROVE  Abs!Remove
<1>0. TypeOK
  BY DEF Inv
<1>1. PICK list \in Seq(AnEntry) : list = Entries
  BY <1>0, EntriesSeq
<1>2. /\ Len(list) = Len(s) /\ Len(s) \in Nat
      /\ \A n \in 1..Len(s) :
           list[n] = [item |-> heap[s[n]].item, key |-> heap[s[n]].key]
  BY <1>0, <1>1, EntriesSeq, LenProperties
<1>3. CASE Len(s) = 0
  <2>1. UNCHANGED heap /\ result' = [item |-> NULL, key |-> 0] /\ Nodes' = s
    BY <1>3, TakeFirstStep, NodesAreNext
  <2>2. Entries' = Entries
    BY <1>0, <2>1, SameEntries
  <2>3. Entries = <<>>
    BY <1>1, <1>2, <1>3, EmptySeq
  <2> QED BY <2>1, <2>2, <2>3 DEF Abs!Remove, Abs!Nothing
<1>4. CASE Len(s) # 0
  <2>0. 1 \in 1..Len(s) /\ s # <<>> /\ list # <<>>
    BY <1>2, <1>4, EmptySeq
  <2>1. PICK t \in Seq(Element) : t = Tail(s)
    BY <2>0, HeadTailProperties
  <2>2. Spells(t)' /\ Nodes' = t
    BY <1>4, <2>1, TakeFirstStep, NodesAreNext
  <2>3. Len(t) = Len(s) - 1 /\ \A n \in 1..(Len(s) - 1) : t[n] = s[n + 1]
    BY <2>0, <2>1, HeadTailProperties
  <2>4. \A n \in 1..(Len(s) - 1) : t[n] \in DOMAIN heap'
    BY <2>2, <2>3 DEF Spells, Covers, Linked
  <2>5. \A n \in 1..(Len(s) - 1) : heap'[t[n]] = heap[s[n + 1]]
    BY <1>4, <2>3, <2>4, TakeFirstStep
  <2>6. Entries' = [n \in 1..(Len(s) - 1) |-> [item |-> heap[s[n + 1]].item,
                                               key |-> heap[s[n + 1]].key]]
    <3>1. Entries' = [n \in 1..Len(t) |-> [item |-> heap'[t[n]].item,
                                           key |-> heap'[t[n]].key]]
      BY <2>2 DEF Entries
    <3> QED BY <2>3, <2>5, <3>1
  <2>7. /\ Tail(list) \in Seq(AnEntry) /\ Len(Tail(list)) = Len(s) - 1
        /\ \A n \in 1..(Len(s) - 1) : Tail(list)[n] = list[n + 1]
    BY <1>2, <2>0, HeadTailProperties
  <2>8. Tail(list) = [n \in 1..(Len(s) - 1) |-> Tail(list)[n]]
    <3>1. DOMAIN Tail(list) = 1..(Len(s) - 1)
      BY <2>7, LenProperties
    <3>2. Tail(list) \in [1..(Len(s) - 1) -> AnEntry]
      BY <2>7, LenProperties
    <3> QED BY <3>2
  <2>9. ASSUME NEW n \in 1..(Len(s) - 1)
        PROVE  Tail(list)[n] = [item |-> heap[s[n + 1]].item,
                                key |-> heap[s[n + 1]].key]
    <3>1. n + 1 \in 1..Len(s)
      BY <1>2
    <3> QED BY <1>2, <2>7, <3>1
  <2>10. Entries' = Tail(list)
    BY <2>6, <2>8, <2>9
  <2>11. result' = Head(list)
    <3>1. result' = [item |-> heap[s[1]].item, key |-> heap[s[1]].key]
      BY <1>4, TakeFirstStep
    <3>2. list[1] = [item |-> heap[s[1]].item, key |-> heap[s[1]].key]
      BY <1>2, <2>0
    <3>3. Head(list) = list[1]
      BY <2>0, HeadTailProperties
    <3> QED BY <3>1, <3>2, <3>3
  <2> QED BY <1>1, <2>0, <2>10, <2>11 DEF Abs!Remove
<1> QED BY <1>3, <1>4

\* Every step does to the sequence what one of its operations does, or leaves the
\* sequence and the last result alone.
LEMMA AbstractStep == Inv /\ [Next]_vars => [Abs!Next]_<<Entries, result>>
<1> SUFFICES ASSUME Inv, [Next]_vars PROVE Abs!Next \/ UNCHANGED <<Entries, result>>
  OBVIOUS
<1>0. TypeOK
  BY DEF Inv
<1>1. PICK s \in Seq(Element) : Spells(s)
  BY DEF Inv
<1>2. /\ Nodes = s /\ Len(s) \in Nat
      /\ \A n \in 1..Len(s) : s[n] \in DOMAIN heap /\ heap[s[n]].key \in Int
  BY <1>0, <1>1, Spelled
<1>3. ASSUME NEW e \in Element, NEW i \in Item, AppendItem(e, i) \/ Prepend(e, i)
      PROVE  Abs!Append0(i) \/ Abs!Prepend0(i)
  <2> DEFINE x == [item |-> i, key |-> 0]
  <2>1. UNCHANGED result
    BY <1>3 DEF AppendItem, Prepend, Unsorted
  <2>2. PICK list \in Seq(AnEntry) : list = Entries /\ Len(list) = Len(s)
    BY <1>0, <1>1, EntriesSeq
  <2>3. x \in AnEntry /\ x = Abs!Entry(i, 0)
    BY DEF AnEntry, Abs!Entry
  <2>4. CASE AppendItem(e, i)
    <3>1. Entries' = Insert(list, Len(list), x)
      BY <1>0, <1>1, <2>2, <2>4, AppendStep, InsertsEntries
    <3> HIDE DEF x
    <3>2. Entries' = Append(list, x)
      BY <2>3, <3>1, InsertLast
    <3> QED BY <2>1, <2>2, <2>3, <3>2 DEF Abs!Append0
  <2>5. CASE Prepend(e, i)
    <3>1. Entries' = Insert(list, 0, x)
      BY <1>0, <1>1, <2>2, <2>5, PrependStep, InsertsEntries
    <3> HIDE DEF x
    <3>2. Entries' = <<x>> \o list
      BY <2>3, <3>1, InsertFirst
    <3> QED BY <2>1, <2>2, <2>3, <3>2 DEF Abs!Prepend0
  <2> QED BY <1>3, <2>4, <2>5
<1>4. ASSUME NEW e \in Element, NEW i \in Item, NEW k \in Key, SortedInsert(e, i, k)
      PROVE  Abs!SortedInsert(i, k) \/ UNCHANGED <<Entries, result>>
  <2>1. UNCHANGED result
    BY <1>4 DEF SortedInsert
  <2>2. heap'[e].item = i /\ heap'[e].key = k
    BY <1>1, <1>4, SortedInsertStep
  <2>3. CASE phase' = "idle" /\ Inserts(s, 0, e) /\ (Len(s) # 0 => k < heap[s[1]].key)
    <3>1. \A n \in 1..0 : heap[s[n]].key <= k
      OBVIOUS
    <3>2. 0 # Len(s) => k < heap[s[0 + 1]].key
      BY <2>3
    <3> QED BY <1>0, <1>1, <2>1, <2>2, <2>3, <3>1, <3>2, SortedEntry
  <2>4. CASE (\A n \in 1..Len(s) : heap'[s[n]] = heap[s[n]]) /\ Spells(s)'
    <3>1. Nodes' = s
      BY <2>4, NodesAreNext
    <3>2. Entries' = Entries
      BY <1>0, <1>1, <2>4, <3>1, SameEntries
    <3> QED BY <2>1, <3>2
  <2> QED BY <1>1, <1>4, <2>3, <2>4, SortedInsertStep
<1>5. CASE Walk
  <2>1. PICK p \in 1..Len(s) :
           /\ \A n \in 1..p : heap[s[n]].key <= heap[element].key
           /\ \/ UNCHANGED <<first, last, heap, phase, element>>
              \/ /\ phase' = "idle" /\ Inserts(s, p, element)
                 /\ p # Len(s) => heap[element].key < heap[s[p + 1]].key
                 /\ heap'[element].item = heap[element].item
                 /\ heap'[element].key = heap[element].key
    BY <1>1, <1>5, WalkStep
  <2>2. UNCHANGED result /\ heap[element].item \in Item /\ heap[element].key \in Key
    BY <1>5 DEF Walk, Inv, InWalk, TypeOK, ListElement
  <2>3. CASE UNCHANGED <<first, last, heap, phase, element>>
    <3>1. Spells(s)'
      BY <1>1, <2>3 DEF Spells, Chain, Covers, Linked
    <3>2. Nodes' = s
      BY <3>1, NodesAreNext
    <3>3. Entries' = Entries
      BY <1>0, <1>1, <2>3, <3>2, SameEntries
    <3> QED BY <2>2, <3>3
  <2>4. CASE /\ Inserts(s, p, element)
             /\ p # Len(s) => heap[element].key < heap[s[p + 1]].key
             /\ heap'[element].item = heap[element].item
             /\ heap'[element].key = heap[element].key
    <3>1. Abs!SortedInsert(heap[element].item, heap[element].key)
      BY <1>0, <1>1, <2>1, <2>2, <2>4, SortedEntry
    <3> QED BY <2>2, <3>1 DEF Abs!Next
  <2> QED BY <2>1, <2>3, <2>4
<1>6. CASE Remove \/ Destroy
  <2>1. TakeFirst /\ phase \in {"idle", "destroy"} /\ phase' # "walk"
    BY <1>6 DEF Remove, Destroy
  <2>2. Abs!Remove
    BY <1>1, <2>1, RemovedEntry
  <2> QED BY <2>2 DEF Abs!Next
<1>7. CASE UNCHANGED vars
  <2>1. Spells(s)'
    BY <1>1, <1>7 DEF vars, Spells, Chain, Covers, Linked
  <2>2. Nodes' = s
    BY <2>1, NodesAreNext
  <2>3. UNCHANGED heap /\ UNCHANGED result
    BY <1>7 DEF vars
  <2>4. Entries' = Entries
    BY <1>0, <1>1, <2>2, <2>3, SameEntries
  <2> QED BY <2>3, <2>4
<1> QED BY <1>3, <1>4, <1>5, <1>6, <1>7 DEF Next, Gone, Abs!Next

LEMMA AbstractInit == Init => Abs!Init
<1> SUFFICES ASSUME Init PROVE Abs!Init
  OBVIOUS
<1>1. Inv /\ DOMAIN heap = {}
  BY InvInit DEF Init
<1>2. PICK s \in Seq(Element) : Spells(s)
  BY <1>1 DEF Inv
<1>3. first = NULL
  BY DEF Init
<1>4. Len(s) = 0
  BY <1>1, <1>2, <1>3, Spelled DEF Inv
<1>5. Entries = <<>>
  BY <1>1, <1>2, <1>4, EntriesSeq, EmptySeq DEF Inv
<1> QED BY <1>5 DEF Init, Abs!Init, Abs!Nothing

\* The pointers implement the sequence of list.h, for every priority and item: what
\* goes in at the ends or by key comes out in that order, first come first served
\* among equal keys, and every result is the one that the sequence promises.
THEOREM ListImplements == Spec => Implements
<1>1. Inv /\ [Next]_vars => [Abs!Next]_<<Entries, result>>
  BY AbstractStep
<1> QED BY <1>1, AbstractInit, InvCorrect, PTL DEF Spec, Implements, Abs!Spec

\* Type correctness.
THEOREM TypeCorrect == Spec => []TypeOK
<1>1. Inv => TypeOK
  BY DEF Inv
<1> QED BY <1>1, InvCorrect, PTL
=============================================================================
