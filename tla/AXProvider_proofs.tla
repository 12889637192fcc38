------------------------- MODULE AXProvider_proofs -------------------------
(***************************************************************************)
(* Theorems about AXProvider, for any desktops, callers and depth of the   *)
(* trees.  The trees and the search for a path are recursive functions;    *)
(* what they return is shown by induction over the levels of a tree, from  *)
(* the well-foundedness of the natural numbers.                            *)
(***************************************************************************)
EXTENDS AXProvider, SequenceTheorems, FiniteSetTheorems, WellFoundedInduction, TLAPS

-----------------------------------------------------------------------------
(* Induction and recursion.                                                *)

\* Induction over the natural numbers, for a set of them.
LEMMA InductionInNat ==
    ASSUME NEW S, 0 \in S, \A n \in Nat : n \in S => n + 1 \in S
    PROVE  Nat \subseteq S
<1> DEFINE R == OpToRel(<, Nat)
           T == Nat \ S
<1>1. SUFFICES ASSUME T # {} PROVE FALSE
  OBVIOUS
<1>2. PICK x \in T : \A y \in T : ~ (<<y, x>> \in R)
  <2>1. IsWellFoundedOn(R, Nat)
    BY NatLessThanWellFounded
  <2>2. T \subseteq Nat
    OBVIOUS
  <2> QED
    BY <1>1, <2>1, <2>2, WFMin
<1> HIDE DEF R
<1>3. x # 0 /\ x \in Nat /\ x - 1 \in Nat
  BY <1>2
<1>4. <<x - 1, x>> \in R
  BY <1>3 DEF OpToRel, R
<1>5. x - 1 \in S
  BY <1>2, <1>3, <1>4
<1>6. (x - 1) + 1 \in S
  BY <1>3, <1>5
<1> QED
  BY <1>2, <1>3, <1>6

\* A set of natural numbers has a least one.
LEMMA LeastOfSet ==
    ASSUME NEW T, T \subseteq Nat, T # {}
    PROVE  \E x \in T : \A y \in T : x <= y
<1> DEFINE R == OpToRel(<, Nat)
<1>1. PICK x \in T : \A y \in T : ~ (<<y, x>> \in R)
  BY NatLessThanWellFounded, WFMin
<1> HIDE DEF R
<1>2. ASSUME NEW y \in T
      PROVE  x <= y
  <2>1. x \in Nat /\ y \in Nat
    OBVIOUS
  <2>2. CASE y < x
    <3>1. <<y, x>> \in R
      BY <2>1, <2>2 DEF OpToRel, R
    <3> QED
      BY <1>1, <3>1
  <2> QED
    BY <2>1, <2>2
<1> QED
  BY <1>2

\* The search is the recursion its definition says: one component a step.
LEMMA WalkStep ==
    ASSUME NEW tree, NEW w, NEW parts, Len(parts) \in Nat
    PROVE  Walk(tree, w, parts) =
             [n \in 0 .. Len(parts) |->
                IF n = 0 THEN w ELSE ChildFor(tree, Walk(tree, w, parts)[n - 1], parts[n])]
<1> DEFINE Is(f, k) == f = [n \in 0 .. k |->
                              IF n = 0 THEN w ELSE ChildFor(tree, f[n - 1], parts[n])]
           S == {k \in Nat : \E f : Is(f, k)}
<1>1. 0 \in S
  <2> DEFINE f == [n \in 0 .. 0 |-> w]
  <2>1. Is(f, 0)
    OBVIOUS
  <2> QED
    BY <2>1
<1>2. ASSUME NEW k \in Nat, k \in S
      PROVE  k + 1 \in S
  <2>1. PICK f : Is(f, k)
    BY <1>2
  <2> DEFINE g == [n \in 0 .. k + 1 |->
                     IF n <= k THEN f[n] ELSE ChildFor(tree, f[k], parts[k + 1])]
  <2>2. \A n \in 0 .. k : g[n] = f[n]
    OBVIOUS
  <2>3. ASSUME NEW n \in 0 .. k + 1
        PROVE  g[n] = IF n = 0 THEN w ELSE ChildFor(tree, g[n - 1], parts[n])
    <3>1. CASE n <= k
      BY <2>1, <2>2, <3>1
    <3>2. CASE n = k + 1
      BY <2>2, <3>2
    <3> QED
      BY <3>1, <3>2
  <2>4. Is(g, k + 1)
    BY <2>3
  <2> HIDE DEF g, Is
  <2> QED
    BY <2>4
<1> HIDE DEF S
<1>3. Len(parts) \in S
  BY <1>1, <1>2, InductionInNat
<1>4. \E f : Is(f, Len(parts))
  BY <1>3 DEF S
<1> QED
  BY <1>4 DEF Walk

\* The same of the levels of a tree.
LEMMA LevelsStep ==
    ASSUME NEW tree, NEW w
    PROVE  Levels(tree, w) =
             [n \in 0 .. MaxDepth |->
                IF n = 0 THEN {[path |-> <<>>, id |-> w, line |-> <<>>]}
                ELSE Below(tree, Levels(tree, w)[n - 1])]
<1> DEFINE top == {[path |-> <<>>, id |-> w, line |-> <<>>]}
<1> HIDE DEF top
<1> DEFINE Is(f, k) == f = [n \in 0 .. k |-> IF n = 0 THEN top ELSE Below(tree, f[n - 1])]
           S == {k \in Nat : \E f : Is(f, k)}
<1>1. 0 \in S
  <2> DEFINE f == [n \in 0 .. 0 |-> top]
  <2>1. Is(f, 0)
    OBVIOUS
  <2> QED
    BY <2>1
<1>2. ASSUME NEW k \in Nat, k \in S
      PROVE  k + 1 \in S
  <2>1. PICK f : Is(f, k)
    BY <1>2
  <2> DEFINE g == [n \in 0 .. k + 1 |-> IF n <= k THEN f[n] ELSE Below(tree, f[k])]
  <2>2. \A n \in 0 .. k : g[n] = f[n]
    OBVIOUS
  <2>3. ASSUME NEW n \in 0 .. k + 1
        PROVE  g[n] = IF n = 0 THEN top ELSE Below(tree, g[n - 1])
    <3>1. CASE n <= k
      BY <2>1, <2>2, <3>1
    <3>2. CASE n = k + 1
      BY <2>2, <3>2
    <3> QED
      BY <3>1, <3>2
  <2>4. Is(g, k + 1)
    BY <2>3
  <2> HIDE DEF g, Is
  <2> QED
    BY <2>4
<1> HIDE DEF S
<1>3. MaxDepth \in S
  BY <1>1, <1>2, InductionInNat, DesktopAssumption
<1>4. \E f : Is(f, MaxDepth)
  BY <1>3 DEF S
<1> QED
  BY <1>4 DEF Levels, top

-----------------------------------------------------------------------------
(* Lists of children and their identifiers.                                *)

LEMMA DepthType == MaxDepth \in Nat /\ 0 \in 0 .. MaxDepth
BY DesktopAssumption

LEMMA DigitsType ==
    /\ Len(Digits) \in Nat /\ DOMAIN Digits = 1 .. Len(Digits)
    /\ \A m, n \in DOMAIN Digits : Digits[m] = Digits[n] => m = n
BY DesktopAssumption DEF IsInjective

LEMMA ListType ==
    ASSUME NEW list \in Lists
    PROVE  /\ list \in Seq(Everything)
           /\ Len(list) \in 0 .. Len(Digits)
           /\ DOMAIN list = 1 .. Len(list)
           /\ \A i \in DOMAIN list : i \in 1 .. Len(Digits) /\ list[i] \in Everything
<1>1. list \in Seq(Everything) /\ Len(list) <= Len(Digits) /\ Len(Digits) \in Nat
  BY DigitsType DEF Lists
<1>2. DOMAIN list = 1 .. Len(list) /\ Len(list) \in Nat
  BY <1>1
<1>3. \A i \in 1 .. Len(list) : list[i] \in Everything
  BY <1>1, ElementOfSeq
<1> QED
  BY <1>1, <1>2, <1>3

\* A part of a list, and a list put together of two.
LEMMA Part ==
    ASSUME NEW S, NEW list \in Seq(S), NEW m \in 1 .. Len(list) + 1, NEW n \in 0 .. Len(list)
    PROVE  /\ SubSeq(list, m, n) \in Seq(S)
           /\ Len(SubSeq(list, m, n)) = IF m <= n THEN n - m + 1 ELSE 0
<1>1. Len(list) \in Nat
  BY LenProperties
<1>2. m \in Int /\ n \in Int
  BY <1>1
<1>3. \A i \in m .. n : i \in 1 .. Len(list)
  BY <1>1
<1>4. \A i \in m .. n : list[i] \in S
  BY <1>3, ElementOfSeq
<1> QED
  BY <1>2, <1>4, SubSeqProperties

\* What a program does to a list leaves a list of the elements there are.
LEMMA ChangedLists ==
    ASSUME NEW list \in Lists
    PROVE  /\ \A i \in DOMAIN list : RemoveAt(list, i) \in Lists
           /\ \A e \in Pool, i \in 1 .. Len(list) + 1 :
                 Len(list) < Len(Digits) => InsertAt(list, i, e) \in Lists
<1> DEFINE most == Len(Digits)
<1> HIDE DEF most
<1>1. /\ list \in Seq(Everything) /\ Len(list) \in 0 .. most /\ most \in Nat
      /\ DOMAIN list = 1 .. Len(list)
  BY ListType, DigitsType DEF most
<1>2. Pool \subseteq Everything
  BY DEF Everything
<1>3. ASSUME NEW n \in 0 .. most, n = Len(list), NEW i \in 1 .. n
      PROVE  RemoveAt(list, i) \in Seq(Everything) /\ Len(RemoveAt(list, i)) <= most
  <2> DEFINE front == SubSeq(list, 1, i - 1)
             back == SubSeq(list, i + 1, n)
  <2>1. i - 1 \in 0 .. n /\ i + 1 \in 1 .. n + 1 /\ 1 \in 1 .. n + 1 /\ n \in 0 .. n
    BY <1>1
  <2>2. front \in Seq(Everything) /\ Len(front) = IF 1 <= i - 1 THEN i - 1 - 1 + 1 ELSE 0
    BY <1>1, <1>3, <2>1, Part
  <2>3. back \in Seq(Everything) /\ Len(back) = IF i + 1 <= n THEN n - (i + 1) + 1 ELSE 0
    BY <1>1, <1>3, <2>1, Part
  <2> HIDE DEF front, back
  <2>4. front \o back \in Seq(Everything) /\ Len(front \o back) = Len(front) + Len(back)
    BY <2>2, <2>3, ConcatProperties
  <2>5. Len(front) + Len(back) <= most
    BY <1>1, <2>2, <2>3
  <2> QED
    BY <1>3, <2>4, <2>5 DEF RemoveAt, front, back
<1>4. ASSUME NEW n \in 0 .. most - 1, n = Len(list), NEW i \in 1 .. n + 1, NEW e \in Pool
      PROVE  InsertAt(list, i, e) \in Seq(Everything) /\ Len(InsertAt(list, i, e)) <= most
  <2> DEFINE front == SubSeq(list, 1, i - 1)
             back == SubSeq(list, i, n)
  <2>1. i - 1 \in 0 .. n /\ 1 \in 1 .. n + 1 /\ n \in 0 .. n
    BY <1>1
  <2>2. front \in Seq(Everything) /\ Len(front) = IF 1 <= i - 1 THEN i - 1 - 1 + 1 ELSE 0
    BY <1>1, <1>4, <2>1, Part
  <2>3. back \in Seq(Everything) /\ Len(back) = IF i <= n THEN n - i + 1 ELSE 0
    BY <1>1, <1>4, <2>1, Part
  <2>4. <<e>> \in Seq(Everything) /\ Len(<<e>>) = 1
    BY <1>2
  <2> HIDE DEF front, back
  <2> DEFINE head == front \o <<e>>
  <2>5. head \in Seq(Everything) /\ Len(head) = Len(front) + 1
    BY <2>2, <2>4, ConcatProperties
  <2> HIDE DEF head
  <2>6. head \o back \in Seq(Everything) /\ Len(head \o back) = Len(head) + Len(back)
    BY <2>3, <2>5, ConcatProperties
  <2>7. Len(head) + Len(back) <= most
    BY <1>1, <2>2, <2>3, <2>5
  <2> QED
    BY <1>4, <2>6, <2>7 DEF InsertAt, front, back, head
<1>5. ASSUME NEW n \in 0 .. most, n = Len(list)
      PROVE  /\ \A i \in 1 .. n : RemoveAt(list, i) \in Lists
             /\ \A e \in Pool, i \in 1 .. n + 1 : n < most => InsertAt(list, i, e) \in Lists
  <2>1. n < most => n \in 0 .. most - 1
    BY <1>1
  <2> QED
    BY <1>1, <1>3, <1>4, <1>5, <2>1 DEF Lists, most
<1> QED
  BY <1>1, <1>5 DEF most

\* The number of an element is one of the numbers, and grows along the
\* siblings of its type.
LEMMA Numbers ==
    ASSUME NEW list \in Lists, NEW i \in DOMAIN list
    PROVE  /\ TypeIndex(list, i) \in Nat
           /\ TypeIndex(list, i) + 1 \in DOMAIN Digits
           /\ \A j \in 1 .. i - 1 : list[j].type = list[i].type =>
                 TypeIndex(list, j) < TypeIndex(list, i)
<1> DEFINE Before(k) == {j \in 1 .. k - 1 : list[j].type = list[k].type}
<1>1. /\ Len(list) \in 0 .. Len(Digits) /\ i \in 1 .. Len(list) /\ i \in 1 .. Len(Digits)
      /\ Len(Digits) \in Nat
  BY ListType, DigitsType
<1>2. ASSUME NEW k \in 1 .. Len(Digits)
      PROVE  IsFiniteSet(Before(k)) /\ Cardinality(Before(k)) \in 0 .. k - 1
  <2>1. IsFiniteSet(1 .. k - 1) /\ Cardinality(1 .. k - 1) = k - 1
    BY FS_Interval
  <2>2. Before(k) \subseteq 1 .. k - 1
    OBVIOUS
  <2> HIDE DEF Before
  <2>3. IsFiniteSet(Before(k)) /\ Cardinality(Before(k)) <= k - 1
    BY <2>1, <2>2, FS_Subset
  <2> QED
    BY <2>3, FS_CardinalityType
<1>3. ASSUME NEW j \in 1 .. i - 1, list[j].type = list[i].type
      PROVE  Cardinality(Before(j)) < Cardinality(Before(i))
  <2>1. j \in 1 .. Len(Digits)
    BY <1>1
  <2>2. j \notin Before(j) /\ j \in Before(i) /\ Before(j) \subseteq Before(i)
    BY <1>1, <1>3
  <2> HIDE DEF Before
  <2>3. Before(j) \subseteq Before(i) /\ Before(j) # Before(i)
    BY <2>2
  <2>4. IsFiniteSet(Before(i)) /\ Cardinality(Before(i)) \in Nat
    BY <1>1, <1>2
  <2>5. Cardinality(Before(j)) \in Nat
    BY <1>2, <2>1
  <2>6. /\ Cardinality(Before(j)) <= Cardinality(Before(i))
        /\ Cardinality(Before(j)) # Cardinality(Before(i))
    BY <2>3, <2>4, FS_Subset
  <2> QED
    BY <2>4, <2>5, <2>6
<1>4. DOMAIN Digits = 1 .. Len(Digits)
  BY DigitsType
<1>5. \A k : TypeIndex(list, k) = Cardinality(Before(k))
  BY DEF TypeIndex
<1> HIDE DEF Before
<1>6. TypeIndex(list, i) \in 0 .. Len(Digits) - 1
  BY <1>1, <1>2, <1>5
<1> QED
  BY <1>3, <1>4, <1>5, <1>6

\* A tree of such lists.
IsTree(tree) == \A id \in DOMAIN tree : tree[id] \in Lists

\* A match other than by number is of an element that carries the text.
LEMMA MatchCarries ==
    ASSUME NEW list, NEW i, NEW part, Matches(list, i, part), ~IsIndex(part.ident)
    PROVE  Carries(list[i], part)
BY DEF Matches, Carries

\* The component made for an element names it: by a number, or by a text it
\* carries.
LEMMA ComponentNames ==
    ASSUME NEW list \in Lists, NEW i \in DOMAIN list
    PROVE  \/ IsIndex(ComponentOf(list, i).ident)
           \/ Carries(list[i], ComponentOf(list, i))
<1>1. Digits[TypeIndex(list, i) + 1] \in Range(Digits)
  BY Numbers DEF Range
<1> QED
  BY <1>1 DEF ComponentOf, BuildIdentifier, Carries, IsIndex

\* With a clear identifier an element is the first child its component matches.
LEMMA ClearIsFirst ==
    ASSUME NEW list \in Lists, NEW i \in DOMAIN list, Clear(list, i)
    PROVE  /\ Matches(list, i, ComponentOf(list, i))
           /\ \A j \in 1 .. i - 1 : ~Matches(list, j, ComponentOf(list, i))
<1> DEFINE part == ComponentOf(list, i)
           ident == BuildIdentifier(list, i)
<1>1. part.role = RoleOf(list[i].type) /\ part.ident = ident
  BY DEF ComponentOf
<1>2. Len(list) \in Nat /\ i \in 1 .. Len(list) /\ DOMAIN list = 1 .. Len(list)
  BY ListType
<1>3. CASE list[i].aid # NoText \/ list[i].name # NoText
  <2>1. ident \in {list[i].aid, list[i].name}
    BY <1>3 DEF BuildIdentifier
  <2>2. ~IsIndex(ident)
    BY <1>3 DEF Clear
  <2>3. \A j \in 1 .. i - 1 : RoleOf(list[j].type) = RoleOf(list[i].type) =>
            ident \notin {list[j].aid, list[j].name}
    BY <1>3 DEF Clear
  <2> HIDE DEF part, ident
  <2> QED
    BY <1>1, <2>1, <2>2, <2>3 DEF Matches, part
<1>4. CASE list[i].aid = NoText /\ list[i].name = NoText
  <2>1. ident = Digits[TypeIndex(list, i) + 1]
    BY <1>4 DEF BuildIdentifier
  <2>2. \A j \in 1 .. i - 1 : RoleOf(list[j].type) = RoleOf(list[i].type) =>
            list[j].type = list[i].type
    BY <1>4 DEF Clear
  <2>3. IsIndex(ident)
    BY <2>1, Numbers DEF IsIndex, Range
  <2>4. ASSUME NEW j \in 1 .. i - 1, RoleOf(list[j].type) = RoleOf(list[i].type)
        PROVE  Digits[TypeIndex(list, j) + 1] # ident
    <3>1. j \in DOMAIN list
      BY <1>2
    <3>2. TypeIndex(list, j) < TypeIndex(list, i)
      BY <2>2, <2>4, Numbers
    <3>3. /\ TypeIndex(list, j) + 1 \in DOMAIN Digits
          /\ TypeIndex(list, i) + 1 \in DOMAIN Digits
          /\ TypeIndex(list, j) \in Nat /\ TypeIndex(list, i) \in Nat
      BY <3>1, Numbers
    <3>4. TypeIndex(list, j) + 1 # TypeIndex(list, i) + 1
      BY <3>2, <3>3
    <3> HIDE DEF ident
    <3> QED
      BY <2>1, <3>3, <3>4, DigitsType
  <2> HIDE DEF part, ident
  <2> QED
    BY <1>1, <2>1, <2>3, <2>4 DEF Matches, part
<1> QED
  BY <1>3, <1>4

\* And so it is the child the search takes.
LEMMA ClearIsFound ==
    ASSUME NEW tree, NEW id \in DOMAIN tree, tree[id] \in Lists,
           NEW i \in DOMAIN tree[id], Clear(tree[id], i)
    PROVE  ChildFor(tree, id, ComponentOf(tree[id], i)) = tree[id][i].id
<1> DEFINE hits == {j \in DOMAIN tree[id] : Matches(tree[id], j, ComponentOf(tree[id], i))}
<1>1. DOMAIN tree[id] \subseteq Nat /\ \A j \in DOMAIN tree[id] : j < i => j \in 1 .. i - 1
  BY ListType
<1>2. i \in hits /\ \A j \in hits : i <= j
  BY <1>1, ClearIsFirst
<1>3. (CHOOSE k \in hits : \A j \in hits : k <= j) = i
  <2>1. hits \subseteq Nat
    BY <1>1
  <2> HIDE DEF hits
  <2>2. \A k \in hits : (\A j \in hits : k <= j) => k = i
    BY <1>2, <2>1
  <2> QED
    BY <1>2, <2>2
<1> QED
  BY <1>2, <1>3 DEF ChildFor

\* A child the search takes is a child that matches.
LEMMA FoundMatches ==
    ASSUME NEW tree, IsTree(tree),
           NEW id, NEW part, ChildFor(tree, id, part) # NoElement
    PROVE  \E e \in Everything :
              /\ ChildFor(tree, id, part) = e.id
              /\ ~IsIndex(part.ident) => Carries(e, part)
<1> DEFINE hits == {i \in DOMAIN tree[id] : Matches(tree[id], i, part)}
           i == CHOOSE i \in hits : \A j \in hits : i <= j
<1>1. id \in DOMAIN tree /\ hits # {}
  BY DEF ChildFor
<1>2. hits \subseteq Nat
  BY <1>1, ListType DEF IsTree
<1>3. i \in hits
  <2> HIDE DEF hits
  <2>1. \E k \in hits : \A j \in hits : k <= j
    BY <1>1, <1>2, LeastOfSet
  <2> QED
    BY <2>1
<1>4. ChildFor(tree, id, part) = tree[id][i].id
  BY <1>1 DEF ChildFor
<1>5. tree[id][i] \in Everything
  BY <1>1, <1>3, ListType DEF IsTree
<1>6. ~IsIndex(part.ident) => Carries(tree[id][i], part)
  BY <1>3, MatchCarries
<1> HIDE DEF i
<1> QED
  BY <1>4, <1>5, <1>6

-----------------------------------------------------------------------------
(* Sequences of strokes.                                                   *)

Keys == KeyNameToVk \cup {"text"}
Stroke == [key : Keys, down : BOOLEAN]

\* Every key that goes down in the sequence comes up in it later.
Releasing(todo) ==
    \A i \in 1 .. Len(todo) :
        todo[i].down => \E j \in i + 1 .. Len(todo) : todo[j] = Up(todo[i].key)

\* Keys pressed in order and released in reverse are all released.
LEMMA StrokesRelease ==
    ASSUME NEW keys \in Seq(Keys)
    PROVE  /\ Strokes(keys) \in Seq(Stroke)
           /\ Releasing(Strokes(keys))
           /\ keys # <<>> => Strokes(keys) # <<>>
<1> DEFINE n == Len(keys)
           downs == [i \in DOMAIN keys |-> Down(keys[i])]
           ups == [i \in DOMAIN keys |-> Up(Reverse(keys)[i])]
           all == Strokes(keys)
<1>1. n \in Nat /\ DOMAIN keys = 1 .. n /\ \A i \in 1 .. n : keys[i] \in Keys
  BY LenProperties, ElementOfSeq
<1>2. \A i \in 1 .. n : n - i + 1 \in 1 .. n /\ Reverse(keys)[i] = keys[n - i + 1]
  BY <1>1 DEF Reverse
<1>3. downs \in Seq(Stroke) /\ Len(downs) = n
  <2>1. \A i \in 1 .. n : Down(keys[i]) \in Stroke
    BY <1>1 DEF Down, Stroke
  <2> QED
    BY <1>1, <2>1
<1>4. ups \in Seq(Stroke) /\ Len(ups) = n
  <2>1. \A i \in 1 .. n : Up(Reverse(keys)[i]) \in Stroke
    BY <1>1, <1>2 DEF Up, Stroke
  <2> QED
    BY <1>1, <2>1
<1>5. \A i \in 1 .. n : downs[i] = Down(keys[i]) /\ ups[i] = Up(keys[n - i + 1])
  BY <1>1, <1>2
<1>6. all = downs \o ups
  BY DEF Strokes
<1> HIDE DEF downs, ups, all, n
<1>7. /\ all \in Seq(Stroke) /\ Len(all) = n + n
      /\ \A i \in 1 .. n + n : all[i] = IF i <= n THEN downs[i] ELSE ups[i - n]
  <2>1. all \in Seq(Stroke) /\ Len(all) = Len(downs) + Len(ups)
    BY <1>3, <1>4, <1>6, ConcatProperties
  <2>2. \A i \in 1 .. Len(downs) + Len(ups) :
            all[i] = IF i <= Len(downs) THEN downs[i] ELSE ups[i - Len(downs)]
    BY <1>3, <1>4, <1>6, ConcatProperties
  <2> QED
    BY <1>3, <1>4, <2>1, <2>2
<1>8. ASSUME NEW i \in 1 .. n + n, all[i].down
      PROVE  \E j \in i + 1 .. n + n : all[j] = Up(all[i].key)
  <2>1. CASE i <= n
    <3> DEFINE j == n + n - i + 1
    <3>1. j \in i + 1 .. n + n /\ ~(j <= n) /\ j - n \in 1 .. n /\ n - (j - n) + 1 = i
      BY <1>1, <2>1
    <3>2. i \in 1 .. n
      BY <1>1, <2>1
    <3>3. all[j] = Up(keys[i])
      BY <1>1, <1>5, <1>7, <3>1
    <3>4. all[i] = Down(keys[i])
      BY <1>5, <1>7, <2>1, <3>2
    <3>5. all[i].key = keys[i]
      BY <3>4 DEF Down
    <3> HIDE DEF j
    <3> QED
      BY <3>1, <3>3, <3>5
  <2>2. CASE ~(i <= n)
    <3>1. i - n \in 1 .. n
      BY <1>1, <2>2
    <3>2. all[i] = Up(keys[n - (i - n) + 1])
      BY <1>5, <1>7, <2>2, <3>1
    <3> QED
      BY <1>8, <3>2 DEF Up
  <2> QED
    BY <2>1, <2>2
<1>9. keys # <<>> => all # <<>>
  <2>1. keys # <<>> => n # 0
    BY <1>1, EmptySeq DEF n
  <2> QED
    BY <1>1, <1>7, <2>1, EmptySeq
<1> QED
  BY <1>7, <1>8, <1>9 DEF Releasing, all

LEMMA JoinedRelease ==
    ASSUME NEW s \in Seq(Stroke), NEW t \in Seq(Stroke), Releasing(s), Releasing(t)
    PROVE  /\ s \o t \in Seq(Stroke)
           /\ Releasing(s \o t)
           /\ s # <<>> => s \o t # <<>>
<1> DEFINE m == Len(s)
           n == Len(t)
           all == s \o t
<1>1. m \in Nat /\ n \in Nat
  BY LenProperties
<1>2. /\ all \in Seq(Stroke) /\ Len(all) = m + n
      /\ \A i \in 1 .. m + n : all[i] = IF i <= m THEN s[i] ELSE t[i - m]
  BY <1>1, ConcatProperties
<1> HIDE DEF m, n, all
<1>3. ASSUME NEW i \in 1 .. m + n, all[i].down
      PROVE  \E j \in i + 1 .. m + n : all[j] = Up(all[i].key)
  <2>1. CASE i <= m
    <3>1. i \in 1 .. m /\ all[i] = s[i]
      BY <1>1, <1>2, <2>1
    <3>2. PICK j \in i + 1 .. m : s[j] = Up(s[i].key)
      BY <1>3, <3>1 DEF Releasing, m
    <3>3. j \in i + 1 .. m + n /\ j \in 1 .. m + n /\ j <= m
      BY <1>1, <3>2
    <3> QED
      BY <1>2, <3>1, <3>2, <3>3
  <2>2. CASE ~(i <= m)
    <3>1. i - m \in 1 .. n /\ all[i] = t[i - m]
      BY <1>1, <1>2, <2>2
    <3>2. PICK j \in (i - m) + 1 .. n : t[j] = Up(t[i - m].key)
      BY <1>3, <3>1 DEF Releasing, n
    <3>3. j + m \in i + 1 .. m + n /\ j + m \in 1 .. m + n /\ ~(j + m <= m) /\ (j + m) - m = j
      BY <1>1, <3>1, <3>2
    <3>4. all[j + m] = t[j]
      BY <1>2, <3>3
    <3> QED
      BY <3>1, <3>2, <3>3, <3>4
  <2> QED
    BY <2>1, <2>2
<1>4. s # <<>> => all # <<>>
  BY <1>1, <1>2, EmptySeq DEF m
<1> QED
  BY <1>2, <1>3, <1>4 DEF Releasing, all

\* So are all the keys of set_value.
LEMMA EraseAndTypeReleases ==
    EraseAndType \in Seq(Stroke) /\ Releasing(EraseAndType) /\ EraseAndType # <<>>
<1>1. <<"Ctrl", "a">> \in Seq(Keys) /\ <<"Delete">> \in Seq(Keys) /\ <<"text">> \in Seq(Keys)
  <2>1. "Ctrl" \in Keys /\ "a" \in Keys /\ "Delete" \in Keys /\ "text" \in Keys
    BY DEF Keys, KeyNameToVk, Modifiers
  <2> QED
    BY <2>1
<1>2. <<"Ctrl", "a">> # <<>>
  OBVIOUS
<1> DEFINE all == Strokes(<<"Ctrl", "a">>)
           erase == Strokes(<<"Delete">>)
           type == Strokes(<<"text">>)
<1>3. /\ all \in Seq(Stroke) /\ Releasing(all) /\ all # <<>>
      /\ erase \in Seq(Stroke) /\ Releasing(erase)
      /\ type \in Seq(Stroke) /\ Releasing(type)
  BY <1>1, <1>2, StrokesRelease
<1>4. EraseAndType = all \o erase \o type
  BY DEF EraseAndType
<1> HIDE DEF all, erase, type
<1>5. all \o erase \in Seq(Stroke) /\ Releasing(all \o erase) /\ all \o erase # <<>>
  BY <1>3, JoinedRelease
<1> QED
  BY <1>3, <1>4, <1>5, JoinedRelease

\* After its first stroke a sequence still releases what it presses, the key
\* of that stroke among it.
LEMMA TailReleases ==
    ASSUME NEW todo \in Seq(Stroke), todo # <<>>, Releasing(todo)
    PROVE  /\ Head(todo) \in Stroke
           /\ Tail(todo) \in Seq(Stroke)
           /\ Releasing(Tail(todo))
           /\ Tail(todo) = <<>> <=> Len(todo) = 1
           /\ Head(todo).down => Up(Head(todo).key) \in Range(Tail(todo))
           /\ \A stroke \in Range(todo) : stroke # Head(todo) => stroke \in Range(Tail(todo))
<1> DEFINE n == Len(todo)
           rest == Tail(todo)
<1>1. n \in Nat \ {0} /\ DOMAIN todo = 1 .. n
  BY EmptySeq, LenProperties
<1>2. /\ Head(todo) \in Stroke /\ rest \in Seq(Stroke) /\ Len(rest) = n - 1
      /\ \A i \in 1 .. n - 1 : rest[i] = todo[i + 1]
  BY HeadTailProperties
<1>3. Head(todo) = todo[1]
  OBVIOUS
<1>4. DOMAIN rest = 1 .. n - 1
  BY <1>2, LenProperties
<1>5. \A i \in 1 .. n : todo[i].down => \E j \in i + 1 .. n : todo[j] = Up(todo[i].key)
  BY DEF Releasing
<1> HIDE DEF n, rest
<1>6. \A j \in 2 .. n : todo[j] \in Range(rest)
  <2> SUFFICES ASSUME NEW j \in 2 .. n PROVE todo[j] \in Range(rest)
    OBVIOUS
  <2>1. j - 1 \in 1 .. n - 1 /\ (j - 1) + 1 = j
    BY <1>1
  <2> QED
    BY <1>2, <1>4, <2>1 DEF Range
<1>7. ASSUME NEW i \in 1 .. n - 1, rest[i].down
      PROVE  \E j \in i + 1 .. n - 1 : rest[j] = Up(rest[i].key)
  <2>1. i + 1 \in 1 .. n /\ rest[i] = todo[i + 1]
    BY <1>1, <1>2
  <2>2. PICK j \in (i + 1) + 1 .. n : todo[j] = Up(rest[i].key)
    BY <1>5, <1>7, <2>1
  <2>3. j - 1 \in i + 1 .. n - 1 /\ j - 1 \in 1 .. n - 1 /\ (j - 1) + 1 = j
    BY <1>1, <2>2
  <2> QED
    BY <1>2, <2>2, <2>3
<1>8. rest = <<>> <=> n = 1
  <2>1. rest = <<>> <=> Len(rest) = 0
    BY <1>2, EmptySeq
  <2> QED
    BY <1>1, <1>2, <2>1
<1>9. Head(todo).down => Up(Head(todo).key) \in Range(rest)
  <2>1. 1 \in 1 .. n /\ 1 + 1 = 2
    BY <1>1
  <2> QED
    BY <1>3, <1>5, <1>6, <2>1
<1>10. \A stroke \in Range(todo) : stroke # Head(todo) => stroke \in Range(rest)
  <2>1. \A i \in 1 .. n : i = 1 \/ i \in 2 .. n
    BY <1>1
  <2> QED
    BY <1>1, <1>3, <1>6, <2>1 DEF Range
<1> QED
  BY <1>2, <1>7, <1>8, <1>9, <1>10 DEF Releasing, rest, n

-----------------------------------------------------------------------------
(* Trees and paths.                                                        *)

\* What a component of a path is made from.
Components == UNION {{ComponentOf(list, i) : i \in DOMAIN list} : list \in Lists}

LEMMA ComponentType ==
    ASSUME NEW list \in Lists, NEW i \in DOMAIN list
    PROVE  ComponentOf(list, i) \in Components
BY DEF Components

\* A sequence with one more element.
LEMMA Appended ==
    ASSUME NEW S, NEW seq \in Seq(S), NEW e \in S, NEW n \in Nat, Len(seq) = n
    PROVE  /\ Append(seq, e) \in Seq(S)
           /\ Len(Append(seq, e)) = n + 1
           /\ Append(seq, e)[n + 1] = e
           /\ \A i \in 1 .. n : Append(seq, e)[i] = seq[i]
           /\ Range(Append(seq, e)) = Range(seq) \cup {e}
<1>1. /\ Append(seq, e) \in Seq(S) /\ Len(Append(seq, e)) = n + 1
      /\ Append(seq, e)[n + 1] = e /\ \A i \in 1 .. n : Append(seq, e)[i] = seq[i]
  BY AppendProperties
<1>2. DOMAIN seq = 1 .. n /\ DOMAIN Append(seq, e) = 1 .. n + 1
  BY <1>1, LenProperties
<1> DEFINE more == Append(seq, e)
<1> HIDE DEF more
<1>3. Range(more) = Range(seq) \cup {e}
  <2>1. \A i \in 1 .. n + 1 : i = n + 1 \/ i \in 1 .. n
    OBVIOUS
  <2>2. 1 .. n \subseteq 1 .. n + 1 /\ n + 1 \in 1 .. n + 1
    OBVIOUS
  <2> QED
    BY <1>1, <1>2, <2>1, <2>2 DEF Range, more
<1> QED
  BY <1>1, <1>3 DEF more

\* A node of the next level is a child of a node of this one.
LEMMA ChildOfNode ==
    ASSUME NEW tree, NEW w, NEW n \in Nat, n + 1 <= MaxDepth,
           NEW q \in Levels(tree, w)[n + 1]
    PROVE  \E p \in Levels(tree, w)[n] : \E i \in DOMAIN tree[p.id] :
              p.id \in DOMAIN tree /\ q = Child(tree, p, i)
<1>1. n + 1 \in 0 .. MaxDepth /\ n + 1 # 0 /\ (n + 1) - 1 = n
  BY DesktopAssumption
<1>2. Levels(tree, w)[n + 1] = Below(tree, Levels(tree, w)[n])
  <2> DEFINE levels == Levels(tree, w)
  <2> HIDE DEF levels
  <2>1. levels = [m \in 0 .. MaxDepth |->
                    IF m = 0 THEN {[path |-> <<>>, id |-> w, line |-> <<>>]}
                    ELSE Below(tree, levels[m - 1])]
    BY LevelsStep DEF levels
  <2>2. levels[n + 1] = IF n + 1 = 0 THEN {[path |-> <<>>, id |-> w, line |-> <<>>]}
                        ELSE Below(tree, levels[(n + 1) - 1])
    BY <1>1, <2>1
  <2> QED
    BY <1>1, <2>2 DEF levels
<1> QED
  BY <1>2 DEF Below

LEMMA TopNode ==
    ASSUME NEW tree, NEW w
    PROVE  Levels(tree, w)[0] = {[path |-> <<>>, id |-> w, line |-> <<>>]}
<1> DEFINE levels == Levels(tree, w)
<1> HIDE DEF levels
<1>1. 0 \in 0 .. MaxDepth
  BY DesktopAssumption
<1>2. levels = [m \in 0 .. MaxDepth |->
                  IF m = 0 THEN {[path |-> <<>>, id |-> w, line |-> <<>>]}
                  ELSE Below(tree, levels[m - 1])]
  BY LevelsStep DEF levels
<1> QED
  BY <1>1, <1>2 DEF levels

\* A node with a component for every level, of which the last names it.
NamedNode(tree, q, n) ==
    /\ q.path \in Seq(Components) /\ Len(q.path) = n
    /\ q.line \in Seq((DOMAIN tree) \X Nat) /\ Len(q.line) = n
    /\ n # 0 => \E list \in Lists : \E i \in DOMAIN list :
                   q.id = list[i].id /\ q.path[n] = ComponentOf(list, i)

LEMMA ChildIsNamed ==
    ASSUME NEW tree, IsTree(tree), NEW n \in Nat, NEW p, NamedNode(tree, p, n),
           p.id \in DOMAIN tree, NEW i \in DOMAIN tree[p.id]
    PROVE  /\ NamedNode(tree, Child(tree, p, i), n + 1)
           /\ \A k \in 1 .. n : Child(tree, p, i).path[k] = p.path[k]
           /\ Child(tree, p, i).path[n + 1] = ComponentOf(tree[p.id], i)
           /\ Range(Child(tree, p, i).line) = Range(p.line) \cup {<<p.id, i>>}
<1> DEFINE q == Child(tree, p, i)
<1>1. /\ q.path = Append(p.path, ComponentOf(tree[p.id], i))
      /\ q.id = tree[p.id][i].id
      /\ q.line = Append(p.line, <<p.id, i>>)
  BY DEF Child
<1>2. tree[p.id] \in Lists
  BY DEF IsTree
<1>3. ComponentOf(tree[p.id], i) \in Components
  BY <1>2, ComponentType
<1>4. <<p.id, i>> \in (DOMAIN tree) \X Nat
  <2>1. i \in Nat
    BY <1>2, ListType
  <2> QED
    BY <2>1
<1>5. /\ p.path \in Seq(Components) /\ Len(p.path) = n
      /\ p.line \in Seq((DOMAIN tree) \X Nat) /\ Len(p.line) = n
  BY DEF NamedNode
<1> HIDE DEF q
<1>6. /\ q.path \in Seq(Components) /\ Len(q.path) = n + 1
      /\ q.path[n + 1] = ComponentOf(tree[p.id], i)
      /\ \A k \in 1 .. n : q.path[k] = p.path[k]
  BY <1>1, <1>3, <1>5, Appended
<1>7. /\ q.line \in Seq((DOMAIN tree) \X Nat) /\ Len(q.line) = n + 1
      /\ Range(q.line) = Range(p.line) \cup {<<p.id, i>>}
  <2> DEFINE Steps == (DOMAIN tree) \X Nat
             step == <<p.id, i>>
             line == p.line
  <2>1. step \in Steps /\ line \in Seq(Steps) /\ Len(line) = n
    BY <1>4, <1>5
  <2>2. q.line = Append(line, step)
    BY <1>1
  <2> HIDE DEF Steps, step, line
  <2>3. /\ Append(line, step) \in Seq(Steps) /\ Len(Append(line, step)) = n + 1
        /\ Range(Append(line, step)) = Range(line) \cup {step}
    BY <2>1, Appended
  <2> QED
    BY <2>2, <2>3 DEF Steps, step, line
<1> QED
  BY <1>1, <1>2, <1>6, <1>7 DEF NamedNode, q

LEMMA NodesAreNamed ==
    ASSUME NEW tree, IsTree(tree), NEW w, NEW n \in 0 .. MaxDepth, NEW p \in Levels(tree, w)[n]
    PROVE  NamedNode(tree, p, n)
<1> DEFINE S == {m \in Nat : m <= MaxDepth => \A q \in Levels(tree, w)[m] : NamedNode(tree, q, m)}
<1>1. 0 \in S
  <2>1. ASSUME NEW q \in Levels(tree, w)[0]
        PROVE  NamedNode(tree, q, 0)
    <3>1. q.path = <<>> /\ q.line = <<>>
      BY TopNode
    <3> QED
      BY <3>1, EmptySeq DEF NamedNode
  <2>2. 0 \in Nat
    OBVIOUS
  <2> QED
    BY <2>1, <2>2, Zenon
<1>2. ASSUME NEW m \in Nat, m \in S
      PROVE  m + 1 \in S
  <2>1. ASSUME m + 1 <= MaxDepth, NEW q \in Levels(tree, w)[m + 1]
        PROVE  NamedNode(tree, q, m + 1)
    <3>1. PICK r \in Levels(tree, w)[m] : \E i \in DOMAIN tree[r.id] :
             r.id \in DOMAIN tree /\ q = Child(tree, r, i)
      BY <2>1, ChildOfNode
    <3>2. m <= MaxDepth
      BY <2>1, DepthType
    <3>3. NamedNode(tree, r, m)
      BY <1>2, <3>2
    <3> QED
      BY <3>1, <3>3, ChildIsNamed
  <2>2. m + 1 \in Nat
    OBVIOUS
  <2> QED
    BY <2>1, <2>2, Zenon
<1> HIDE DEF S
<1>3. n \in S
  BY <1>1, <1>2, InductionInNat
<1>4. n <= MaxDepth
  BY DesktopAssumption
<1> QED
  BY <1>3, <1>4 DEF S

\* A search takes its components one after the other.
LEMMA WalkOn ==
    ASSUME NEW tree, NEW w, NEW parts, NEW k \in Nat, Len(parts) = k, NEW n \in 0 .. k
    PROVE  Walk(tree, w, parts)[n] =
             IF n = 0 THEN w ELSE ChildFor(tree, Walk(tree, w, parts)[n - 1], parts[n])
<1> DEFINE walk == Walk(tree, w, parts)
<1> HIDE DEF walk
<1>1. walk = [m \in 0 .. k |-> IF m = 0 THEN w ELSE ChildFor(tree, walk[m - 1], parts[m])]
  BY WalkStep DEF walk
<1> QED
  BY <1>1 DEF walk

\* A search for a path with clear identifiers follows the path's own line.
LEMMA NodesAreFound ==
    ASSUME NEW tree, IsTree(tree), NEW w,
           NEW n \in 0 .. MaxDepth, NEW p \in Levels(tree, w)[n],
           \A s \in Range(p.line) : Clear(tree[s[1]], s[2])
    PROVE  /\ \A k \in 1 .. n : ~IsCut(p.path[k].ident)
           /\ Walk(tree, w, p.path)[n] = p.id
<1> DEFINE Leads(q, m) ==
             (\A s \in Range(q.line) : Clear(tree[s[1]], s[2])) =>
               /\ \A k \in 1 .. m : ~IsCut(q.path[k].ident)
               /\ \A parts \in Seq(Components) :
                     (m <= Len(parts) /\ \A k \in 1 .. m : parts[k] = q.path[k])
                       => Walk(tree, w, parts)[m] = q.id
           S == {m \in Nat : m <= MaxDepth => \A q \in Levels(tree, w)[m] : Leads(q, m)}
<1>1. 0 \in S
  <2>1. ASSUME NEW q \in Levels(tree, w)[0], NEW parts \in Seq(Components)
        PROVE  Walk(tree, w, parts)[0] = q.id
    <3>1. q.id = w
      BY TopNode
    <3>2. PICK k \in Nat : Len(parts) = k
      BY LenProperties
    <3>3. 0 \in 0 .. k
      OBVIOUS
    <3> QED
      BY <3>1, <3>2, <3>3, WalkOn
  <2> QED
    BY <2>1
<1>2. ASSUME NEW m \in Nat, m \in S
      PROVE  m + 1 \in S
  <2> SUFFICES ASSUME m + 1 <= MaxDepth, NEW q \in Levels(tree, w)[m + 1],
                      \A s \in Range(q.line) : Clear(tree[s[1]], s[2])
               PROVE  /\ \A k \in 1 .. m + 1 : ~IsCut(q.path[k].ident)
                      /\ \A parts \in Seq(Components) :
                            (m + 1 <= Len(parts) /\ \A k \in 1 .. m + 1 : parts[k] = q.path[k])
                              => Walk(tree, w, parts)[m + 1] = q.id
    OBVIOUS
  <2>1. PICK r \in Levels(tree, w)[m] : \E i \in DOMAIN tree[r.id] :
           r.id \in DOMAIN tree /\ q = Child(tree, r, i)
    BY ChildOfNode
  <2>2. PICK i \in DOMAIN tree[r.id] : r.id \in DOMAIN tree /\ q = Child(tree, r, i)
    BY <2>1
  <2> DEFINE part == ComponentOf(tree[r.id], i)
  <2>3. m <= MaxDepth /\ m \in 0 .. MaxDepth
    BY DepthType
  <2>4. tree[r.id] \in Lists
    BY <2>2 DEF IsTree
  <2>5. NamedNode(tree, r, m)
    BY <2>3, NodesAreNamed
  <2>6. q.id = tree[r.id][i].id
    BY <2>2 DEF Child
  <2>7. Range(q.line) = Range(r.line) \cup {<<r.id, i>>}
    BY <2>2, <2>5, ChildIsNamed
  <2>8. q.path[m + 1] = part /\ \A k \in 1 .. m : q.path[k] = r.path[k]
    BY <2>2, <2>5, ChildIsNamed
  <2>9. Clear(tree[r.id], i)
    <3>1. <<r.id, i>> \in Range(q.line)
      BY <2>7
    <3>2. Clear(tree[<<r.id, i>>[1]], <<r.id, i>>[2])
      BY <3>1
    <3> QED
      BY <3>2
  <2>10. ~IsCut(part.ident)
    BY <2>9 DEF Clear, ComponentOf
  <2> HIDE DEF part
  <2>11. /\ \A k \in 1 .. m : ~IsCut(r.path[k].ident)
         /\ \A parts \in Seq(Components) :
               (m <= Len(parts) /\ \A k \in 1 .. m : parts[k] = r.path[k])
                 => Walk(tree, w, parts)[m] = r.id
    BY <1>2, <2>3, <2>7
  <2>12. \A k \in 1 .. m + 1 : k = m + 1 \/ k \in 1 .. m
    OBVIOUS
  <2>13. ASSUME NEW parts \in Seq(Components), m + 1 <= Len(parts),
                \A k \in 1 .. m + 1 : parts[k] = q.path[k]
         PROVE  Walk(tree, w, parts)[m + 1] = q.id
    <3>1. PICK j \in Nat : Len(parts) = j
      BY LenProperties
    <3>2. m + 1 \in 0 .. j /\ m + 1 # 0 /\ (m + 1) - 1 = m /\ m <= Len(parts)
      BY <2>13, <3>1
    <3>3. m + 1 \in 1 .. m + 1 /\ 1 .. m \subseteq 1 .. m + 1
      OBVIOUS
    <3>4. parts[m + 1] = part /\ \A k \in 1 .. m : parts[k] = r.path[k]
      BY <2>8, <2>13, <3>3
    <3>5. Walk(tree, w, parts)[m] = r.id
      BY <2>11, <3>2, <3>4
    <3>6. Walk(tree, w, parts)[m + 1] =
            IF m + 1 = 0 THEN w ELSE ChildFor(tree, Walk(tree, w, parts)[(m + 1) - 1], parts[m + 1])
      BY <3>1, <3>2, WalkOn
    <3>7. ChildFor(tree, r.id, part) = q.id
      BY <2>2, <2>4, <2>6, <2>9, ClearIsFound DEF part
    <3> QED
      BY <3>2, <3>4, <3>5, <3>6, <3>7
  <2> QED
    BY <2>8, <2>10, <2>11, <2>12, <2>13
<1> HIDE DEF S, Leads
<1>3. n \in S
  BY <1>1, <1>2, InductionInNat
<1>4. n <= MaxDepth /\ n <= n
  BY DesktopAssumption
<1>5. Leads(p, n)
  BY <1>3, <1>4 DEF S
<1>6. NamedNode(tree, p, n)
  BY NodesAreNamed
<1>7. p.path \in Seq(Components) /\ Len(p.path) = n
  BY <1>6 DEF NamedNode
<1> QED
  BY <1>4, <1>5, <1>7 DEF Leads

LEMMA SplitWhole ==
    ASSUME NEW path \in Seq(Components), \A k \in 1 .. Len(path) : ~IsCut(path[k].ident)
    PROVE  SplitPath(path) = path
<1>1. DOMAIN path = 1 .. Len(path) /\ path = [k \in 1 .. Len(path) |-> path[k]]
  BY LenProperties
<1>2. SplitPath(path) = [k \in 1 .. Len(path) |-> path[k]]
  BY <1>1 DEF SplitPath
<1> QED
  BY <1>1, <1>2

\* In any tree of such lists every path that is clear leads to its element.
LEMMA TreeResolves ==
    ASSUME IsTree(kids)
    PROVE  PathsResolve
<1> SUFFICES ASSUME NEW w \in Windows, IsWindow(w), NEW p \in Serialize(kids, BuildTree(kids, w)),
                    \A s \in Range(p.line) : Clear(kids[s[1]], s[2])
             PROVE  FindElementByPath(w, p.path) = p.id
  BY DEF PathsResolve
<1>1. PICK n \in 1 .. MaxDepth : p \in Levels(kids, w)[n]
  BY DEF Serialize, BuildTree
<1>2. n \in 0 .. MaxDepth
  BY DesktopAssumption
<1>3. NamedNode(kids, p, n)
  BY <1>1, <1>2, NodesAreNamed
<1>4. p.path \in Seq(Components) /\ Len(p.path) = n
  BY <1>3 DEF NamedNode
<1>5. (\A k \in 1 .. n : ~IsCut(p.path[k].ident)) /\ Walk(kids, w, p.path)[n] = p.id
  BY <1>1, <1>2, NodesAreFound
<1>6. SplitPath(p.path) = p.path
  BY <1>4, <1>5, SplitWhole
<1> QED
  BY <1>4, <1>5, <1>6 DEF FindElementByPath, IsWindow

\* A path whose last component names an element of this id.
Names(path, id) ==
    /\ path \in Seq(Components) /\ path # <<>>
    /\ \E e \in Everything :
          e.id = id /\ (IsIndex(path[Len(path)].ident) \/ Carries(e, path[Len(path)]))

LEMMA NodeNames ==
    ASSUME NEW tree, IsTree(tree), NEW w, NEW p \in BuildTree(tree, w)
    PROVE  Names(p.path, p.id)
<1>1. PICK n \in 1 .. MaxDepth : p \in Levels(tree, w)[n]
  BY DEF BuildTree
<1>2. n \in 0 .. MaxDepth /\ n # 0
  BY DesktopAssumption
<1>3. NamedNode(tree, p, n)
  BY <1>1, <1>2, NodesAreNamed
<1>4. PICK list \in Lists : \E i \in DOMAIN list :
        p.id = list[i].id /\ p.path[n] = ComponentOf(list, i)
  BY <1>2, <1>3 DEF NamedNode
<1>5. PICK i \in DOMAIN list : p.id = list[i].id /\ p.path[n] = ComponentOf(list, i)
  BY <1>4
<1>6. list[i] \in Everything
  BY ListType
<1>7. IsIndex(p.path[n].ident) \/ Carries(list[i], p.path[n])
  BY <1>5, ComponentNames
<1>8. p.path \in Seq(Components) /\ Len(p.path) = n
  BY <1>3 DEF NamedNode
<1>9. p.path # <<>>
  BY <1>2, <1>8
<1> QED
  BY <1>5, <1>6, <1>7, <1>8, <1>9 DEF Names

\* Whatever became of the tree: what the search finds for a path that only
\* one element can be meant by is that element.
LEMMA FoundIsMeant ==
    ASSUME IsTree(kids), NEW w, NEW path, NEW id, Names(path, id),
           \A part \in Range(path) : Unmistakable(part),
           FindElementByPath(w, path) # NoElement
    PROVE  FindElementByPath(w, path) = id
<1>1. path \in Seq(Components) /\ path # <<>>
  BY DEF Names
<1>2. PICK n \in Nat : n = Len(path)
  BY <1>1, LenProperties
<1>3. n # 0 /\ n \in 0 .. n /\ n \in 1 .. n
  BY <1>1, <1>2, EmptySeq
<1>4. \A k \in 1 .. n : path[k] \in Range(path)
  BY <1>1, <1>2, LenProperties DEF Range
<1>5. \A k \in 1 .. n : ~IsCut(path[k].ident)
  BY <1>4 DEF Unmistakable
<1>6. SplitPath(path) = path
  BY <1>1, <1>2, <1>5, SplitWhole
<1>7. FindElementByPath(w, path) = Walk(kids, w, path)[n]
  BY <1>2, <1>6 DEF FindElementByPath
<1>8. Walk(kids, w, path)[n] =
        IF n = 0 THEN w ELSE ChildFor(kids, Walk(kids, w, path)[n - 1], path[n])
  BY <1>2, <1>3, WalkOn
<1> DEFINE from == Walk(kids, w, path)[n - 1]
<1>9. FindElementByPath(w, path) = ChildFor(kids, from, path[n])
  BY <1>3, <1>7, <1>8
<1> HIDE DEF from
<1>10. PICK found \in Everything :
          /\ ChildFor(kids, from, path[n]) = found.id
          /\ ~IsIndex(path[n].ident) => Carries(found, path[n])
  BY <1>9, FoundMatches
<1>11. Unmistakable(path[n])
  BY <1>3, <1>4
<1>12. PICK e \in Everything : e.id = id /\ (IsIndex(path[n].ident) \/ Carries(e, path[n]))
  BY <1>2 DEF Names
<1>13. e = found
  BY <1>10, <1>11, <1>12 DEF Unmistakable
<1> QED
  BY <1>9, <1>10, <1>12, <1>13

-----------------------------------------------------------------------------
(* Types and the shape of calls.                                           *)

Elements == {e.id : e \in Everything} \cup {NoElement}
Points == {"rest", "find", "pattern", "focus", "activate", "aim", "send", "keys"}
Calls ==
    [call : ElementCalls \cup {"none", "key_press", "key_combo"}, at : Points,
     window : Windows \cup {NoWindow}, path : Seq(Components), keys : Seq(STRING),
     meant : Nat \X Elements, got : Elements, bounds : {"none", "off", "screen"},
     todo : Seq(Stroke)]

DesktopOK ==
    /\ kids \in [DOMAIN kids -> Lists]
    /\ pid \in [Windows -> Nat]
    /\ iconic \subseteq Windows
    /\ foreground \in Windows \cup {NoWindow}
    /\ focus \in Elements
    /\ held \subseteq Keys
    /\ changes \in 0 .. MaxChanges

\* Strokes to send are complete and are sent to the end, a call of an element
\* has a path that names the one it means, and a call past the search has
\* found that one, if the path can only mean one.
CallOK(o) ==
    /\ Releasing(o.todo)
    /\ o.at = "keys" => o.todo # <<>>
    /\ o.todo # <<>> => o.at \in {"activate", "keys"}
    /\ o.at \notin {"rest", "keys"} => o.window \in Windows
    /\ o.at = "activate" => o.call # "set_value"
    /\ o.at = "find" \/ o.got # NoElement => Names(o.path, o.meant[2])
    /\ o.got # NoElement /\ (\A part \in Range(o.path) : Unmistakable(part)) => o.got = o.meant[2]

TypeOK ==
    /\ DesktopOK
    /\ op \in [Callers -> Calls]
    /\ disturbed \in [Callers -> BOOLEAN]
CallsOK == \A c \in Callers : CallOK(op[c])

LEMMA TreeType ==
    ASSUME DesktopOK
    PROVE  IsTree(kids)
BY DEF DesktopOK, IsTree

LEMMA FoundIsElement ==
    ASSUME IsTree(kids), NEW w, NEW path \in Seq(Components), path # <<>>,
           FindElementByPath(w, path) # NoElement
    PROVE  FindElementByPath(w, path) \in Elements
<1>1. PICK n \in Nat : n = Len(path)
  BY LenProperties
<1>2. n # 0 /\ n \in 0 .. n
  BY <1>1, EmptySeq
<1> DEFINE split == SplitPath(path)
<1>3. Len(split) = n
  <2>1. DOMAIN path = 1 .. n
    BY <1>1, LenProperties
  <2> QED
    BY <1>1, <2>1 DEF SplitPath
<1> HIDE DEF split
<1>4. Walk(kids, w, split)[n] =
        IF n = 0 THEN w ELSE ChildFor(kids, Walk(kids, w, split)[n - 1], split[n])
  BY <1>2, <1>3, WalkOn
<1> DEFINE from == Walk(kids, w, split)[n - 1]
<1>5. FindElementByPath(w, path) = ChildFor(kids, from, split[n])
  BY <1>1, <1>2, <1>4 DEF FindElementByPath, split
<1> HIDE DEF from
<1>6. \E e \in Everything : ChildFor(kids, from, split[n]) = e.id
  BY <1>5, FoundMatches
<1> QED
  BY <1>5, <1>6 DEF Elements

\* The first call of every caller.
LEMMA NoCallOK == NoCall \in Calls /\ CallOK(NoCall)
<1>1. NoElement \in Elements /\ <<>> \in Seq(Components) /\ <<>> \in Seq(STRING) /\ <<>> \in Seq(Stroke)
  BY EmptySeq DEF Elements
<1>2. <<0, NoElement>> \in Nat \X Elements
  BY <1>1
<1>3. NoCall \in Calls
  BY <1>1, <1>2 DEF NoCall, Calls, Points
<1>4. CallOK(NoCall)
  BY DEF NoCall, CallOK, Releasing
<1> QED
  BY <1>3, <1>4

\* A step of a caller replaces its call by one that is in order.
LEMMA CallChanges ==
    ASSUME op \in [Callers -> Calls], CallsOK,
           NEW c \in Callers, NEW r \in Calls, CallOK(r), op' = [op EXCEPT ![c] = r]
    PROVE  op' \in [Callers -> Calls] /\ CallsOK'
BY DEF CallsOK

LEMMA DisturbedType ==
    ASSUME NEW who, Disturb(who)
    PROVE  disturbed' \in [Callers -> BOOLEAN]
BY DEF Disturb

LEMMA CallsInit == Init => TypeOK /\ CallsOK
<1> SUFFICES ASSUME Init PROVE TypeOK /\ CallsOK
  OBVIOUS
<1>1. kids \in [DOMAIN kids -> Lists]
  BY DesktopAssumption DEF Init
<1>2. MaxChanges \in Nat
  BY DesktopAssumption
<1>3. DesktopOK
  BY <1>1, <1>2 DEF Init, DesktopOK, Elements
<1>4. op \in [Callers -> Calls] /\ disturbed \in [Callers -> BOOLEAN]
  BY NoCallOK DEF Init
<1>5. CallsOK
  BY NoCallOK DEF Init, CallsOK
<1> QED
  BY <1>3, <1>4, <1>5 DEF TypeOK

\* What the fields of a call may be replaced by.
LEMMA GotoOK ==
    ASSUME NEW o \in Calls, CallOK(o), NEW point \in Points,
           o.todo # <<>> => point \in {"activate", "keys"},
           point = "keys" => o.todo # <<>>,
           point \notin {"rest", "keys"} => o.window \in Windows,
           point = "activate" => o.call # "set_value",
           point = "find" => o.at = "find"
    PROVE  [o EXCEPT !.at = point] \in Calls /\ CallOK([o EXCEPT !.at = point])
<1> DEFINE r == [o EXCEPT !.at = point]
<1>1. /\ r \in Calls /\ r.at = point /\ r.call = o.call /\ r.window = o.window
      /\ r.path = o.path /\ r.meant = o.meant /\ r.got = o.got /\ r.todo = o.todo
  BY DEF Calls
<1> HIDE DEF r
<1>2. CallOK(r)
  BY <1>1 DEF CallOK
<1> QED
  BY <1>1, <1>2 DEF r

\* The steps of the calls of an element.
LEMMA AskElementStep ==
    ASSUME TypeOK, CallsOK, NEW c \in Callers, NEW call \in ElementCalls, AskElement(c, call)
    PROVE  op' \in [Callers -> Calls] /\ CallsOK'
<1>1. IsTree(kids) /\ op \in [Callers -> Calls] /\ pid \in [Windows -> Nat]
  BY TreeType DEF TypeOK, DesktopOK
<1>2. PICK w \in Windows : \E s \in GetUITree(w) :
         op' = [op EXCEPT ![c] = [NoCall EXCEPT !.call = call, !.at = "find", !.window = w,
                                     !.path = s.path, !.meant = s.meant]]
  BY DEF AskElement, ListWindows
<1>3. PICK s \in GetUITree(w) :
         op' = [op EXCEPT ![c] = [NoCall EXCEPT !.call = call, !.at = "find", !.window = w,
                                     !.path = s.path, !.meant = s.meant]]
  BY <1>2
<1>4. PICK p \in BuildTree(kids, w) : s = [window |-> w, path |-> p.path, meant |-> <<pid[w], p.id>>]
  BY DEF GetUITree, Serialize
<1>5. Names(p.path, p.id)
  BY <1>1, NodeNames
<1>6. p.path \in Seq(Components) /\ p.id \in Elements
  BY <1>5 DEF Names, Elements
<1>7. <<pid[w], p.id>> \in Nat \X Elements
  BY <1>1, <1>6
<1> DEFINE r == [NoCall EXCEPT !.call = call, !.at = "find", !.window = w,
                               !.path = p.path, !.meant = <<pid[w], p.id>>]
<1>8. op' = [op EXCEPT ![c] = r]
  BY <1>4, <1>3
<1>9. r \in Calls
  BY <1>6, <1>7, NoCallOK DEF Calls, Points
<1>10. /\ r.call = call /\ r.at = "find" /\ r.window = w /\ r.path = p.path
      /\ r.meant[2] = p.id /\ r.got = NoElement /\ r.todo = <<>>
  BY DEF NoCall
<1> HIDE DEF r
<1>11. CallOK(r)
  BY <1>5, <1>10 DEF CallOK, Releasing
<1> QED
  BY <1>1, <1>9, <1>11, <1>8, CallChanges

LEMMA FindStep ==
    ASSUME TypeOK, CallsOK, NEW c \in Callers, Find(c)
    PROVE  op' \in [Callers -> Calls] /\ CallsOK'
<1> DEFINE o == op[c]
           id == FindElementByPath(o.window, o.path)
<1>1. IsTree(kids) /\ op \in [Callers -> Calls] /\ o \in Calls /\ CallOK(o)
  BY TreeType DEF TypeOK, CallsOK
<1>2. CASE id = NoElement
  BY <1>1, <1>2, NoCallOK, CallChanges DEF Find, Return
<1>3. CASE id # NoElement
  <2> DEFINE r == [o EXCEPT !.at = AfterFind(o.call), !.got = id]
  <2>1. op' = [op EXCEPT ![c] = r]
    BY <1>1, <1>3 DEF Find
  <2>2. o.at = "find" /\ o.todo = <<>> /\ o.window \in Windows /\ Names(o.path, o.meant[2])
    BY <1>1 DEF Find, At, CallOK
  <2>3. o.path \in Seq(Components) /\ o.path # <<>>
    BY <2>2 DEF Names
  <2>4. id \in Elements
    BY <1>1, <1>3, <2>3, FoundIsElement
  <2>5. (\A part \in Range(o.path) : Unmistakable(part)) => id = o.meant[2]
    BY <1>1, <1>3, <2>2, FoundIsMeant
  <2>6. /\ AfterFind(o.call) \in {"pattern", "focus", "activate"}
        /\ AfterFind(o.call) = "activate" => o.call # "set_value"
    BY DEF AfterFind
  <2> HIDE DEF id
  <2>7. /\ r \in Calls /\ r.at = AfterFind(o.call) /\ r.call = o.call /\ r.window = o.window
        /\ r.path = o.path /\ r.meant = o.meant /\ r.got = id /\ r.todo = o.todo
    BY <1>1, <2>4, <2>6 DEF Calls, Points
  <2> HIDE DEF r, o
  <2>8. CallOK(r)
    BY <1>1, <2>2, <2>5, <2>6, <2>7 DEF CallOK
  <2> QED
    BY <1>1, <2>1, <2>7, <2>8, CallChanges
<1> QED
  BY <1>2, <1>3

\* Steps that only move the call on, or end it.
LEMMA MoveOn ==
    ASSUME TypeOK, CallsOK, NEW c \in Callers, NEW point, Goto(c, point),
           [op[c] EXCEPT !.at = point] \in Calls /\ CallOK([op[c] EXCEPT !.at = point])
    PROVE  op' \in [Callers -> Calls] /\ CallsOK'
<1>1. op' = [op EXCEPT ![c] = [op[c] EXCEPT !.at = point]]
  BY DEF Goto, TypeOK
<1> QED
  BY <1>1, CallChanges DEF TypeOK

LEMMA Ended ==
    ASSUME TypeOK, CallsOK, NEW c \in Callers, NEW answer, Return(c, answer)
    PROVE  op' \in [Callers -> Calls] /\ CallsOK'
BY NoCallOK, CallChanges DEF Return, TypeOK

LEMMA PatternStep ==
    ASSUME TypeOK, CallsOK, NEW c \in Callers,
           InvokePattern(c) \/ ValuePattern(c) \/ ScrollPattern(c)
    PROVE  op' \in [Callers -> Calls] /\ CallsOK'
<1> DEFINE o == op[c]
<1>1. o \in Calls /\ CallOK(o)
  BY DEF TypeOK, CallsOK
<1>2. o.at = "pattern"
  BY DEF InvokePattern, ValuePattern, ScrollPattern, Pattern, At
<1>3. CASE Return(c, "ok")
  BY <1>3, Ended
<1>4. CASE \E point \in {"activate", "focus", "aim"} :
               Goto(c, point) /\ (point = "activate" => o.call = "click")
  <2>1. PICK point \in {"activate", "focus", "aim"} :
               Goto(c, point) /\ (point = "activate" => o.call = "click")
    BY <1>4
  <2>2. /\ point \in Points /\ point \notin {"rest", "keys", "find"}
        /\ o.todo = <<>> /\ o.window \in Windows
    BY <1>1, <1>2 DEF Points, CallOK
  <2> HIDE DEF o
  <2>3. [o EXCEPT !.at = point] \in Calls /\ CallOK([o EXCEPT !.at = point])
    BY <1>1, <2>1, <2>2, GotoOK
  <2> QED
    BY <2>1, <2>3, MoveOn DEF o
<1> QED
  BY <1>3, <1>4 DEF InvokePattern, ValuePattern, ScrollPattern, Pattern

LEMMA RaiseWindowStep ==
    ASSUME TypeOK, CallsOK, NEW c \in Callers, RaiseWindow(c)
    PROVE  op' \in [Callers -> Calls] /\ CallsOK'
<1> DEFINE o == op[c]
           point == IF o.todo # <<>> THEN "keys" ELSE "aim"
<1>1. o \in Calls /\ CallOK(o) /\ o.at = "activate" /\ Goto(c, point)
  BY DEF TypeOK, CallsOK, RaiseWindow, At
<1>2. point \in Points /\ o.window \in Windows
  BY <1>1 DEF Points, CallOK
<1>3. [o EXCEPT !.at = point] \in Calls /\ CallOK([o EXCEPT !.at = point])
  BY <1>1, <1>2, GotoOK
<1> QED
  BY <1>1, <1>3, MoveOn

LEMMA AimStep ==
    ASSUME TypeOK, CallsOK, NEW c \in Callers, Aim(c)
    PROVE  op' \in [Callers -> Calls] /\ CallsOK'
<1> DEFINE o == op[c]
<1>1. op \in [Callers -> Calls] /\ o \in Calls /\ CallOK(o) /\ o.at = "aim"
  BY DEF TypeOK, CallsOK, Aim, At
<1>2. CASE Return(c, "element_not_found")
  BY <1>2, Ended
<1>3. ASSUME NEW b \in {"none", "off", "screen"},
             op' = [op EXCEPT ![c].at = "send", ![c].bounds = b]
      PROVE  op' \in [Callers -> Calls] /\ CallsOK'
  <2> DEFINE r == [o EXCEPT !.at = "send", !.bounds = b]
  <2>1. op' = [op EXCEPT ![c] = r]
    BY <1>1, <1>3
  <2>2. /\ r \in Calls /\ r.at = "send" /\ r.call = o.call /\ r.window = o.window
        /\ r.path = o.path /\ r.meant = o.meant /\ r.got = o.got /\ r.todo = o.todo
    BY <1>1 DEF Calls, Points
  <2> HIDE DEF r, o
  <2>3. CallOK(r)
    BY <1>1, <2>2 DEF CallOK
  <2> QED
    BY <1>1, <2>1, <2>2, <2>3, CallChanges
<1>4. BoundsOf(c) \subseteq {"none", "off", "screen"}
  BY DEF BoundsOf
<1> QED
  BY <1>2, <1>3, <1>4 DEF Aim

LEMMA SetFocusStep ==
    ASSUME TypeOK, CallsOK, NEW c \in Callers, SetFocus(c)
    PROVE  op' \in [Callers -> Calls] /\ CallsOK'
<1> DEFINE o == op[c]
<1>1. op \in [Callers -> Calls] /\ o \in Calls /\ CallOK(o) /\ o.at = "focus"
  BY DEF TypeOK, CallsOK, SetFocus, At
<1>2. CASE Return(c, "ok or internal_error")
  BY <1>2, Ended
<1>3. CASE op' = [op EXCEPT ![c].at = "keys", ![c].todo = EraseAndType]
  <2> DEFINE r == [o EXCEPT !.at = "keys", !.todo = EraseAndType]
  <2>1. op' = [op EXCEPT ![c] = r]
    BY <1>1, <1>3
  <2>2. /\ r \in Calls /\ r.at = "keys" /\ r.call = o.call /\ r.window = o.window
        /\ r.path = o.path /\ r.meant = o.meant /\ r.got = o.got /\ r.todo = EraseAndType
    BY <1>1, EraseAndTypeReleases DEF Calls, Points
  <2> HIDE DEF r, o
  <2>3. CallOK(r)
    BY <1>1, <2>2, EraseAndTypeReleases DEF CallOK
  <2> QED
    BY <1>1, <2>1, <2>2, <2>3, CallChanges
<1> QED
  BY <1>2, <1>3 DEF SetFocus

\* The steps of the calls with keys.
LEMMA SendAfterRaiseStep ==
    ASSUME TypeOK, CallsOK, NEW c \in Callers, NEW call \in {"key_press", "key_combo"},
           NEW keys \in Seq(STRING), NEW w \in Windows \cup {NoWindow},
           NEW strokes \in Seq(Stroke), strokes # <<>>, Releasing(strokes),
           SendAfterRaise(c, call, keys, w, strokes)
    PROVE  op' \in [Callers -> Calls] /\ CallsOK' /\ disturbed' \in [Callers -> BOOLEAN]
<1> DEFINE point == IF w = NoWindow THEN "keys" ELSE "activate"
           r == [NoCall EXCEPT !.call = call, !.window = w, !.keys = keys,
                               !.at = point, !.todo = strokes]
<1>1. op' = [op EXCEPT ![c] = r] /\ op \in [Callers -> Calls]
  BY DEF SendAfterRaise, TypeOK
<1>2. point \in {"keys", "activate"} /\ (point = "activate" => w \in Windows)
  OBVIOUS
<1> HIDE DEF point
<1>3. r \in Calls
  BY <1>2, NoCallOK DEF Calls, Points
<1>4. r.call = call /\ r.at = point /\ r.window = w /\ r.got = NoElement /\ r.todo = strokes
  BY DEF NoCall
<1> HIDE DEF r
<1>5. CallOK(r)
  BY <1>2, <1>4 DEF CallOK
<1>6. disturbed' \in [Callers -> BOOLEAN]
  BY DEF SendAfterRaise, TypeOK
<1> QED
  BY <1>1, <1>3, <1>5, <1>6, CallChanges

LEMMA SendKeyEventStep ==
    ASSUME TypeOK, CallsOK, NEW c \in Callers, SendKeyEvent(c)
    PROVE  op' \in [Callers -> Calls] /\ CallsOK' /\ held' \subseteq Keys
<1> DEFINE o == op[c]
<1>1. op \in [Callers -> Calls] /\ o \in Calls /\ CallOK(o) /\ o.at = "keys"
  BY DEF TypeOK, CallsOK, SendKeyEvent, At
<1>2. o.todo \in Seq(Stroke) /\ o.todo # <<>> /\ Releasing(o.todo)
  BY <1>1 DEF Calls, CallOK
<1>3. /\ Head(o.todo) \in Stroke /\ Tail(o.todo) \in Seq(Stroke) /\ Releasing(Tail(o.todo))
      /\ Tail(o.todo) = <<>> <=> Len(o.todo) = 1
  BY <1>2, TailReleases
<1>4. held' \subseteq Keys
  BY <1>3 DEF SendKeyEvent, Stroke, TypeOK, DesktopOK
<1>5. CASE Len(o.todo) = 1
  BY <1>4, <1>5, Ended DEF SendKeyEvent
<1>6. CASE Len(o.todo) # 1
  <2> DEFINE r == [o EXCEPT !.todo = Tail(o.todo)]
  <2>1. op' = [op EXCEPT ![c] = r]
    BY <1>1, <1>6 DEF SendKeyEvent
  <2>2. /\ r \in Calls /\ r.at = o.at /\ r.call = o.call /\ r.window = o.window
        /\ r.path = o.path /\ r.meant = o.meant /\ r.got = o.got /\ r.todo = Tail(o.todo)
    BY <1>1, <1>3 DEF Calls
  <2> HIDE DEF r, o
  <2>3. CallOK(r)
    BY <1>1, <1>3, <1>6, <2>2 DEF CallOK
  <2> QED
    BY <1>1, <1>4, <2>1, <2>2, <2>3, CallChanges
<1> QED
  BY <1>5, <1>6

LEMMA KeyCallStep ==
    ASSUME TypeOK, CallsOK, NEW c \in Callers, NEW k \in KeyCalls,
           \/ Len(k.keys) = 1 /\ KeyPress(c, k.keys[1], k.window)
           \/ KeyCombo(c, k.keys, k.window)
    PROVE  op' \in [Callers -> Calls] /\ CallsOK' /\ disturbed' \in [Callers -> BOOLEAN]
<1>1. k.keys \in Seq(STRING) /\ k.window \in Windows \cup {NoWindow}
  BY DesktopAssumption
<1>2. CASE UNCHANGED <<op, disturbed>>
  BY <1>2 DEF TypeOK, CallsOK
<1>3. CASE Len(k.keys) = 1 /\ KeyPress(c, k.keys[1], k.window)
  <2> DEFINE key == k.keys[1]
  <2>1. key \in STRING
    BY <1>1, <1>3, ElementOfSeq
  <2>2. CASE key \notin KeyNameToVk
    BY <1>2, <1>3, <2>2 DEF KeyPress, Refuse
  <2>3. CASE key \in KeyNameToVk
    <3>1. SendAfterRaise(c, "key_press", <<key>>, k.window, Strokes(<<key>>))
      BY <1>3, <2>3 DEF KeyPress
    <3> HIDE DEF key
    <3>2. key \in Keys
      BY <2>3 DEF Keys
    <3>3. <<key>> \in Seq(Keys) /\ <<key>> # <<>> /\ <<key>> \in Seq(STRING)
      BY <2>1, <3>2
    <3>4. Strokes(<<key>>) \in Seq(Stroke) /\ Strokes(<<key>>) # <<>> /\ Releasing(Strokes(<<key>>))
      BY <3>3, StrokesRelease
    <3> DEFINE strokes == Strokes(<<key>>)
               keys == <<key>>
    <3> HIDE DEF strokes, keys
    <3> QED
      BY <1>1, <3>1, <3>3, <3>4, SendAfterRaiseStep DEF strokes, keys
  <2> QED
    BY <2>2, <2>3
<1>4. CASE KeyCombo(c, k.keys, k.window)
  <2>1. CASE k.keys # <<>> /\ Range(k.keys) \subseteq KeyNameToVk /\ Last(k.keys) \notin Modifiers
    <3>1. SendAfterRaise(c, "key_combo", k.keys, k.window, Strokes(k.keys))
      BY <1>4, <2>1 DEF KeyCombo
    <3>2. k.keys \in Seq(Range(k.keys)) /\ Range(k.keys) \subseteq Keys
      BY <1>1, <2>1, SeqOfRange DEF Keys
    <3>3. k.keys \in Seq(Keys)
      BY <3>2, SeqMonotonic
    <3>4. Strokes(k.keys) \in Seq(Stroke) /\ Strokes(k.keys) # <<>> /\ Releasing(Strokes(k.keys))
      BY <2>1, <3>3, StrokesRelease
    <3> QED
      BY <1>1, <3>1, <3>4, SendAfterRaiseStep
  <2>2. CASE ~(k.keys # <<>> /\ Range(k.keys) \subseteq KeyNameToVk /\ Last(k.keys) \notin Modifiers)
    BY <1>2, <1>4, <2>2 DEF KeyCombo, Refuse
  <2> QED
    BY <2>1, <2>2
<1> QED
  BY <1>3, <1>4

\* What a program makes of its elements.
LEMMA UIChangesStep ==
    ASSUME DesktopOK, NEW id \in DOMAIN kids, UIChanges(id)
    PROVE  DesktopOK'
<1>1. kids \in [DOMAIN kids -> Lists] /\ kids[id] \in Lists
  BY DEF DesktopOK
<1>2. /\ \A i \in DOMAIN kids[id] : RemoveAt(kids[id], i) \in Lists
      /\ \A e \in Pool, i \in 1 .. Len(kids[id]) + 1 :
            Len(kids[id]) < Len(Digits) => InsertAt(kids[id], i, e) \in Lists
  BY <1>1, ChangedLists
<1>3. \E list \in Lists : kids' = [kids EXCEPT ![id] = list]
  <2>1. CASE \E i \in DOMAIN kids[id] : kids' = [kids EXCEPT ![id] = RemoveAt(@, i)]
    BY <1>2, <2>1
  <2>2. CASE \E e \in Pool, i \in 1 .. Len(kids[id]) + 1 :
               Len(kids[id]) < Len(Digits) /\ kids' = [kids EXCEPT ![id] = InsertAt(@, i, e)]
    BY <1>2, <2>2
  <2> QED
    BY <2>1, <2>2 DEF UIChanges
<1>4. kids' \in [DOMAIN kids' -> Lists]
  BY <1>1, <1>3
<1>5. focus' \in Elements
  BY DEF UIChanges, DesktopOK, Elements
<1>6. changes' \in 0 .. MaxChanges
  BY DesktopAssumption DEF UIChanges, DesktopOK
<1> QED
  BY <1>4, <1>5, <1>6 DEF UIChanges, DesktopOK

\* The other steps keep the desktop in its types.
LEMMA DesktopStep ==
    ASSUME TypeOK, CallsOK, [Next]_vars
    PROVE  DesktopOK'
<1>1. DesktopOK /\ NoElement \in Elements
  BY DEF TypeOK, Elements
<1>2. CASE UNCHANGED desktopVars /\ UNCHANGED changes
  BY <1>1, <1>2 DEF DesktopOK, desktopVars
<1>3. ASSUME NEW c \in Callers
      PROVE  /\ op[c] \in Calls /\ op[c].got \in Elements
             /\ op[c].at \notin {"rest", "keys"} => op[c].window \in Windows
  BY DEF TypeOK, CallsOK, CallOK, Calls
<1>4. ASSUME NEW c \in Callers, Execute(c)
      PROVE  DesktopOK'
  <2>1. ASSUME NEW w \in Windows, Activate(c, w)
        PROVE  DesktopOK'
    BY <1>1, <2>1 DEF Activate, BringToFront, DesktopOK
  <2> QED
    BY <1>2, <1>4, <2>1 DEF Execute, AskElement, KeyPress, KeyCombo
<1>5. ASSUME NEW c \in Callers, CallStep(c)
      PROVE  DesktopOK'
  <2>1. CASE RaiseWindow(c)
    <3>1. op[c].window \in Windows
      BY <1>3, <2>1 DEF RaiseWindow, At
    <3> QED
      BY <1>1, <2>1, <3>1 DEF RaiseWindow, BringToFront, DesktopOK
  <2>2. CASE SendMouse(c)
    <3>1. Under(c) \subseteq Windows \cup {NoWindow}
      BY <1>1 DEF Under, DesktopOK
    <3> QED
      BY <1>1, <2>2, <3>1 DEF SendMouse, BringToFront, DesktopOK
  <2>3. CASE SetFocus(c)
    <3>1. op[c].window \in Windows
      BY <1>3, <2>3 DEF SetFocus, At
    <3> QED
      BY <1>1, <1>3, <2>3, <3>1 DEF SetFocus, DesktopOK
  <2>4. CASE SendKeyEvent(c)
    <3>1. held' \subseteq Keys
      BY <2>4, SendKeyEventStep
    <3> QED
      BY <1>1, <2>4, <3>1 DEF SendKeyEvent, DesktopOK
  <2> QED
    BY <1>2, <1>5, <2>1, <2>2, <2>3, <2>4
       DEF CallStep, Find, InvokePattern, ValuePattern, ScrollPattern, Pattern, Aim
<1>6. ASSUME NEW w \in Windows, UserRaises(w) \/ UserMinimises(w)
      PROVE  DesktopOK'
  BY <1>1, <1>6 DEF UserRaises, UserMinimises, BringToFront, DesktopOK
<1>7. ASSUME NEW w \in Windows, WindowGoes(w)
      PROVE  DesktopOK'
  <2>1. changes \in Nat /\ changes' \in 0 .. MaxChanges
    BY <1>1, <1>7, DesktopAssumption DEF WindowGoes, DesktopOK
  <2>2. pid' \in [Windows -> Nat]
    BY <1>1, <1>7, <2>1 DEF WindowGoes, DesktopOK
  <2> QED
    BY <1>1, <1>7, <2>1, <2>2 DEF WindowGoes, BringToFront, DesktopOK
<1>8. ASSUME NEW id \in DOMAIN kids, UIChanges(id)
      PROVE  DesktopOK'
  BY <1>1, <1>8, UIChangesStep
<1>9. CASE UNCHANGED vars
  BY <1>2, <1>9 DEF vars
<1> QED
  BY <1>4, <1>5, <1>6, <1>7, <1>8, <1>9 DEF Next, Environment

\* Every step keeps the types and leaves every call in order.
LEMMA CallsStep ==
    ASSUME TypeOK, CallsOK, [Next]_vars
    PROVE  TypeOK' /\ CallsOK'
<1>1. DesktopOK'
  BY DesktopStep
<1>2. ASSUME UNCHANGED op
      PROVE  op' \in [Callers -> Calls] /\ CallsOK'
  BY <1>2 DEF TypeOK, CallsOK
<1> DEFINE Goal == op' \in [Callers -> Calls] /\ CallsOK' /\ disturbed' \in [Callers -> BOOLEAN]
<1>3. ASSUME NEW c \in Callers, Execute(c)
      PROVE  Goal
  <2>1. ASSUME NEW w \in Windows, Activate(c, w)
        PROVE  Goal
    <3>1. disturbed' \in [Callers -> BOOLEAN]
      BY <2>1, DisturbedType DEF Activate
    <3> QED
      BY <1>2, <2>1, <3>1 DEF Activate
  <2>2. ASSUME NEW call \in ElementCalls, AskElement(c, call)
        PROVE  Goal
    <3>1. disturbed' \in [Callers -> BOOLEAN]
      BY <2>2, DisturbedType DEF AskElement
    <3> QED
      BY <2>2, <3>1, AskElementStep
  <2> QED
    BY <1>3, <2>1, <2>2, KeyCallStep DEF Execute
<1>4. ASSUME NEW c \in Callers, CallStep(c)
      PROVE  Goal
  <2>1. \E who : Disturb(who)
    BY <1>4 DEF CallStep, Find, InvokePattern, ValuePattern, ScrollPattern, Pattern,
                RaiseWindow, Aim, SendMouse, SetFocus, SendKeyEvent
  <2>2. disturbed' \in [Callers -> BOOLEAN]
    BY <2>1, DisturbedType
  <2>3. CASE SendMouse(c)
    BY <2>2, <2>3, Ended DEF SendMouse
  <2> QED
    BY <1>4, <2>2, <2>3, FindStep, PatternStep, RaiseWindowStep, AimStep, SetFocusStep,
       SendKeyEventStep DEF CallStep
<1>5. ASSUME Environment
      PROVE  Goal
  <2>1. UNCHANGED op /\ \E who : Disturb(who)
    <3>1. ASSUME NEW w \in Windows, UserRaises(w) \/ UserMinimises(w) \/ WindowGoes(w)
          PROVE  UNCHANGED op /\ Disturb(Callers)
      BY <3>1 DEF UserRaises, UserMinimises, WindowGoes
    <3>2. ASSUME NEW id \in DOMAIN kids, UIChanges(id)
          PROVE  UNCHANGED op /\ Disturb(IF focus' = focus THEN {} ELSE Callers)
      BY <3>2 DEF UIChanges
    <3> QED
      BY <1>5, <3>1, <3>2 DEF Environment
  <2>2. disturbed' \in [Callers -> BOOLEAN]
    BY <2>1, DisturbedType
  <2> QED
    BY <1>2, <2>1, <2>2
<1>6. ASSUME UNCHANGED vars
      PROVE  Goal
  BY <1>2, <1>6 DEF vars, callVars, TypeOK
<1>7. Goal
  BY <1>3, <1>4, <1>5, <1>6 DEF Next
<1> QED
  BY <1>1, <1>7 DEF TypeOK

\* The types of the desktop and the calls, and the shape of every call.
THEOREM CallsCorrect == Spec => [](TypeOK /\ CallsOK)
<1>1. Init => TypeOK /\ CallsOK
  BY CallsInit
<1>2. TypeOK /\ CallsOK /\ [Next]_vars => (TypeOK /\ CallsOK)'
  BY CallsStep
<1> QED
  BY <1>1, <1>2, PTL DEF Spec

\* A path that get_ui_tree shows leads back to its element in a tree that did
\* not change, if the identifiers along it are clear: for any trees, and trees
\* of any depth.
THEOREM PathsResolveCorrect == Spec => []PathsResolve
<1>1. TypeOK => PathsResolve
  BY TreeType, TreeResolves DEF TypeOK
<1> QED
  BY <1>1, CallsCorrect, PTL

\* A path of identifiers only one element carries finds that element or none,
\* whatever became of the tree since it was read.
THEOREM MeantIsFoundCorrect == Spec => []MeantIsFound
<1>1. CallsOK => MeantIsFound
  BY DEF CallsOK, CallOK, MeantIsFound
<1> QED
  BY <1>1, CallsCorrect, PTL

-----------------------------------------------------------------------------
(* Keys.                                                                   *)

\* A step is of one caller; the calls of the others stay what they are.
LEMMA OthersStay ==
    ASSUME TypeOK, NEW c \in Callers, Execute(c) \/ CallStep(c), NEW d \in Callers, d # c
    PROVE  op'[d] = op[d]
<1>1. op \in [Callers -> Calls]
  BY DEF TypeOK
<1>2. \A r : op' = [op EXCEPT ![c] = r] => op'[d] = op[d]
  BY <1>1
<1>3. CASE UNCHANGED op
  BY <1>3
<1>4. CASE Execute(c)
  <2>1. ASSUME NEW call \in ElementCalls, AskElement(c, call)
        PROVE  op'[d] = op[d]
    BY <1>1, <2>1 DEF AskElement
  <2>2. ASSUME NEW call, NEW keys, NEW w, NEW strokes, SendAfterRaise(c, call, keys, w, strokes)
        PROVE  op'[d] = op[d]
    BY <1>1, <2>2 DEF SendAfterRaise
  <2> QED
    BY <1>3, <1>4, <2>1, <2>2 DEF Execute, Activate, KeyPress, KeyCombo, Refuse
<1>5. CASE CallStep(c)
  <2>1. Find(c) => op'[d] = op[d]
    BY <1>1 DEF Find, Return
  <2>2. InvokePattern(c) \/ ValuePattern(c) \/ ScrollPattern(c) => op'[d] = op[d]
    BY <1>1 DEF InvokePattern, ValuePattern, ScrollPattern, Pattern, Return, Goto
  <2>3. RaiseWindow(c) => op'[d] = op[d]
    BY <1>1 DEF RaiseWindow, Goto
  <2>4. Aim(c) => op'[d] = op[d]
    BY <1>1 DEF Aim, Return
  <2>5. SendMouse(c) => op'[d] = op[d]
    BY <1>1 DEF SendMouse, Return
  <2>6. SetFocus(c) => op'[d] = op[d]
    BY <1>1 DEF SetFocus, Return
  <2>7. SendKeyEvent(c) => op'[d] = op[d]
    BY <1>1 DEF SendKeyEvent, Return
  <2> QED
    BY <1>5, <2>1, <2>2, <2>3, <2>4, <2>5, <2>6, <2>7 DEF CallStep
<1> QED
  BY <1>4, <1>5

\* Nothing but sending a stroke changes the keys that are down, or the strokes
\* of a call that sends them.
LEMMA KeysStay ==
    ASSUME TypeOK, [Next]_vars, \A c \in Callers : ~SendKeyEvent(c)
    PROVE  held' = held /\ \A d \in Callers : At(d, "keys") => op'[d] = op[d]
<1>1. ASSUME NEW c \in Callers, Execute(c) \/ CallStep(c)
      PROVE  held' = held /\ (~At(c, "keys") \/ UNCHANGED op)
  <2>1. CASE Execute(c)
    BY <2>1 DEF Execute, Activate, AskElement, KeyPress, KeyCombo, desktopVars, At
  <2>2. CASE CallStep(c)
    BY <2>2 DEF CallStep, Find, InvokePattern, ValuePattern, ScrollPattern, Pattern,
                RaiseWindow, Aim, SendMouse, SetFocus, desktopVars, At
  <2> QED
    BY <1>1, <2>1, <2>2
<1>2. Environment => held' = held /\ UNCHANGED op
  BY DEF Environment, UserRaises, UserMinimises, WindowGoes, UIChanges
<1>3. UNCHANGED vars => held' = held /\ UNCHANGED op
  BY DEF vars, desktopVars, callVars
<1>4. ASSUME NEW c \in Callers, Execute(c) \/ CallStep(c), NEW d \in Callers, At(d, "keys")
      PROVE  op'[d] = op[d]
  <2>1. CASE d = c
    BY <1>1, <1>4, <2>1
  <2>2. CASE d # c
    BY <1>4, <2>2, OthersStay
  <2> QED
    BY <2>1, <2>2
<1>5. CASE \E c \in Callers : Execute(c) \/ CallStep(c)
  BY <1>1, <1>4, <1>5
<1>6. CASE UNCHANGED op /\ held' = held
  BY <1>6
<1> QED
  BY <1>2, <1>3, <1>5, <1>6 DEF Next

LEMMA HeldStep ==
    ASSUME TypeOK, CallsOK, HeldIsReleased, [Next]_vars
    PROVE  HeldIsReleased'
<1>1. SUFFICES ASSUME NEW key \in held'
               PROVE  \E d \in Callers : op'[d].at = "keys" /\ Up(key) \in Range(op'[d].todo)
  BY DEF HeldIsReleased, WillRelease, At
<1>2. key \in held => \E d \in Callers : op[d].at = "keys" /\ Up(key) \in Range(op[d].todo)
  BY DEF HeldIsReleased, WillRelease, At
<1>3. CASE \A c \in Callers : ~SendKeyEvent(c)
  <2>1. held' = held /\ \A d \in Callers : op[d].at = "keys" => op'[d] = op[d]
    BY <1>3, KeysStay DEF At
  <2> QED
    BY <1>2, <2>1
<1>4. ASSUME NEW c \in Callers, SendKeyEvent(c)
      PROVE  \E d \in Callers : op'[d].at = "keys" /\ Up(key) \in Range(op'[d].todo)
  <2> DEFINE todo == op[c].todo
             stroke == Head(todo)
  <2>1. op \in [Callers -> Calls] /\ op[c] \in Calls /\ CallOK(op[c]) /\ op[c].at = "keys"
    BY <1>4 DEF TypeOK, CallsOK, SendKeyEvent, At
  <2>2. todo \in Seq(Stroke) /\ todo # <<>> /\ Releasing(todo)
    BY <2>1 DEF Calls, CallOK
  <2>3. /\ Tail(todo) = <<>> <=> Len(todo) = 1
        /\ stroke.down => Up(stroke.key) \in Range(Tail(todo))
        /\ \A s \in Range(todo) : s # stroke => s \in Range(Tail(todo))
    BY <2>2, TailReleases
  <2>4. held' = IF stroke.down THEN held \cup {stroke.key} ELSE held \ {stroke.key}
    BY <1>4 DEF SendKeyEvent
  <2>5. ASSUME Up(key) \in Range(Tail(todo))
        PROVE  op'[c].at = "keys" /\ Up(key) \in Range(op'[c].todo)
    <3>1. Range(<<>>) = {}
      BY DEF Range
    <3>2. Len(todo) # 1
      BY <2>3, <2>5, <3>1
    <3>3. op'[c] = [op[c] EXCEPT !.todo = Tail(todo)]
      BY <1>4, <2>1, <3>2 DEF SendKeyEvent
    <3>4. op'[c].at = "keys" /\ op'[c].todo = Tail(todo)
      BY <2>1, <3>3 DEF Calls
    <3> QED
      BY <2>5, <3>4
  <2>6. CASE stroke.down /\ key = stroke.key
    BY <2>3, <2>5, <2>6
  <2>7. CASE ~(stroke.down /\ key = stroke.key)
    <3>1. key \in held /\ (~stroke.down => key # stroke.key)
      BY <1>1, <2>4, <2>7
    <3>2. PICK d \in Callers : op[d].at = "keys" /\ Up(key) \in Range(op[d].todo)
      BY <1>2, <3>1
    <3>3. CASE d = c
      <4>1. Up(key) # stroke
        BY <3>1 DEF Up
      <4> QED
        BY <2>3, <2>5, <3>2, <3>3, <4>1
    <3>4. CASE d # c
      <4>1. op'[d] = op[d]
        BY <1>4, <3>4, OthersStay DEF CallStep
      <4> QED
        BY <3>2, <4>1
    <3> QED
      BY <3>3, <3>4
  <2> QED
    BY <2>6, <2>7
<1> QED
  BY <1>3, <1>4

\* Whatever keys a combination names and however the workers interleave, no
\* key is down that no call will release.
THEOREM HeldIsReleasedCorrect == Spec => []HeldIsReleased
<1>1. Init => HeldIsReleased
  BY DEF Init, HeldIsReleased
<1>2. TypeOK /\ CallsOK /\ HeldIsReleased /\ [Next]_vars => HeldIsReleased'
  BY HeldStep
<1> QED
  BY <1>1, <1>2, CallsCorrect, PTL DEF Spec

-----------------------------------------------------------------------------
(* Input.                                                                  *)

\* The window in front is there.
FrontIsWindow == foreground # NoWindow => IsWindow(foreground)

\* Unless it was disturbed, a call that is about to look for the bounds of its
\* element has its window in front and restored, and so on to its input.
Steady(c) ==
    ~disturbed[c] =>
        /\ (At(c, "aim") /\ op[c].call # "scroll")
            => foreground = op[c].window /\ op[c].window \notin iconic
        /\ (At(c, "send") /\ op[c].call # "scroll")
            => foreground = op[c].window /\ op[c].bounds = "screen"
        /\ (At(c, "keys") /\ op[c].window # NoWindow) => foreground = op[c].window
        /\ (At(c, "keys") /\ op[c].call = "set_value") => focus = op[c].got

SteadyInv == FrontIsWindow /\ \A c \in Callers : Steady(c)

\* What a step leaves of the desktop for a call that it does not disturb.
Calm(d) ==
    (op'[d].at # "rest" /\ ~disturbed'[d]) =>
        ~disturbed[d] /\ foreground' = foreground /\ focus' = focus /\ iconic' \subseteq iconic

LEMMA CalmIsSteady ==
    ASSUME NEW d \in Callers, Steady(d), op'[d] = op[d], Calm(d)
    PROVE  Steady(d)'
BY DEF Steady, Calm, At

LEMMA NotDisturbed ==
    ASSUME NEW who, Disturb(who), NEW d \in Callers, op'[d].at # "rest", ~disturbed'[d]
    PROVE  ~disturbed[d] /\ d \notin who
BY DEF Disturb

LEMMA FrontStep ==
    ASSUME TypeOK, CallsOK, FrontIsWindow, [Next]_vars
    PROVE  FrontIsWindow'
<1>1. pid \in [Windows -> Nat] /\ foreground \in Windows \cup {NoWindow} /\ NoWindow \notin Windows
  BY DesktopAssumption DEF TypeOK, DesktopOK
<1>2. ASSUME pid' = pid, foreground' = foreground \/ foreground' = NoWindow \/ IsWindow(foreground')
      PROVE  FrontIsWindow'
  BY <1>2 DEF FrontIsWindow, IsWindow
<1>3. ASSUME NEW c \in Callers, Execute(c)
      PROVE  FrontIsWindow'
  BY <1>2, <1>3 DEF Execute, Activate, AskElement, KeyPress, KeyCombo, desktopVars, BringToFront
<1>4. ASSUME NEW c \in Callers, CallStep(c)
      PROVE  FrontIsWindow'
  <2>1. \A w \in Under(c) : w = foreground \/ w = NoWindow \/ IsWindow(w)
    BY DEF Under
  <2> QED
    BY <1>2, <1>4, <2>1
       DEF CallStep, Find, InvokePattern, ValuePattern, ScrollPattern, Pattern, RaiseWindow, Aim,
           SendMouse, SetFocus, SendKeyEvent, IsThere, desktopVars, BringToFront
<1>5. ASSUME NEW w \in Windows, UserRaises(w) \/ UserMinimises(w)
      PROVE  FrontIsWindow'
  BY <1>2, <1>5 DEF UserRaises, UserMinimises, BringToFront
<1>6. ASSUME NEW w \in Windows, WindowGoes(w)
      PROVE  FrontIsWindow'
  BY <1>1, <1>6 DEF WindowGoes, BringToFront, FrontIsWindow, IsWindow
<1>7. ASSUME NEW id, UIChanges(id)
      PROVE  FrontIsWindow'
  BY <1>2, <1>7 DEF UIChanges
<1>8. CASE UNCHANGED vars
  BY <1>2, <1>8 DEF vars, desktopVars
<1> QED
  BY <1>3, <1>4, <1>5, <1>6, <1>7, <1>8 DEF Next, Environment

\* A step of another caller.
LEMMA OthersCalm ==
    ASSUME TypeOK, NEW c \in Callers, Execute(c) \/ CallStep(c), NEW d \in Callers, d # c
    PROVE  Calm(d)
<1> SUFFICES ASSUME op'[d].at # "rest", ~disturbed'[d]
             PROVE  /\ ~disturbed[d]
                    /\ foreground' = foreground /\ focus' = focus /\ iconic' \subseteq iconic
  BY DEF Calm
<1>1. ASSUME NEW who, Disturb(who)
      PROVE  ~disturbed[d] /\ d \notin who
  BY <1>1, NotDisturbed
<1>2. ASSUME NEW w \in Windows, Activate(c, w)
      PROVE  /\ ~disturbed[d]
             /\ foreground' = foreground /\ focus' = focus /\ iconic' \subseteq iconic
  BY <1>1, <1>2 DEF Activate, BringToFront
<1>3. ASSUME NEW call, AskElement(c, call)
      PROVE  ~disturbed[d] /\ UNCHANGED desktopVars
  BY <1>1, <1>3 DEF AskElement
<1>4. ASSUME NEW call, NEW keys, NEW w, NEW strokes, SendAfterRaise(c, call, keys, w, strokes)
      PROVE  ~disturbed[d]
  BY <1>4 DEF SendAfterRaise, TypeOK
<1>5. ASSUME NEW k \in KeyCalls,
             KeyPress(c, k.keys[1], k.window) \/ KeyCombo(c, k.keys, k.window)
      PROVE  ~disturbed[d] /\ UNCHANGED desktopVars
  BY <1>4, <1>5 DEF KeyPress, KeyCombo, Refuse
<1>6. CASE Execute(c)
  BY <1>2, <1>3, <1>5, <1>6 DEF Execute, desktopVars
<1>7. CASE CallStep(c)
  <2>1. CASE Find(c) \/ InvokePattern(c) \/ ValuePattern(c) \/ ScrollPattern(c) \/ Aim(c)
    BY <1>1, <2>1 DEF Find, InvokePattern, ValuePattern, ScrollPattern, Pattern, Aim, desktopVars
  <2>2. CASE RaiseWindow(c)
    <3>1. iconic' \subseteq iconic
      BY <2>2 DEF RaiseWindow
    <3>2. ~disturbed[d] /\ foreground' = foreground /\ focus' = focus
      BY <1>1, <2>2 DEF RaiseWindow, BringToFront
    <3> QED
      BY <3>1, <3>2
  <2>3. CASE SendMouse(c)
    BY <1>1, <2>3 DEF SendMouse, BringToFront
  <2>4. CASE SetFocus(c)
    BY <1>1, <2>4 DEF SetFocus
  <2>5. CASE SendKeyEvent(c)
    BY <1>1, <2>5 DEF SendKeyEvent
  <2> QED
    BY <1>7, <2>1, <2>2, <2>3, <2>4, <2>5 DEF CallStep
<1> QED
  BY <1>6, <1>7

\* A step of the user or of a program.
LEMMA EnvironmentCalm ==
    ASSUME Environment, NEW d \in Callers
    PROVE  op' = op /\ Calm(d)
<1>1. ASSUME NEW w, UserRaises(w) \/ UserMinimises(w) \/ WindowGoes(w)
      PROVE  op' = op /\ Calm(d)
  <2>1. op' = op /\ Disturb(Callers)
    BY <1>1 DEF UserRaises, UserMinimises, WindowGoes
  <2> QED
    BY <2>1, NotDisturbed DEF Calm
<1>2. ASSUME NEW id, UIChanges(id)
      PROVE  op' = op /\ Calm(d)
  <2>1. /\ op' = op /\ Disturb(IF focus' = focus THEN {} ELSE Callers)
        /\ foreground' = foreground /\ iconic' = iconic
    BY <1>2 DEF UIChanges
  <2>2. op'[d].at # "rest" /\ ~disturbed'[d] => ~disturbed[d] /\ focus' = focus
    BY <2>1, NotDisturbed
  <2> QED
    BY <2>1, <2>2 DEF Calm
<1> QED
  BY <1>1, <1>2 DEF Environment

\* The caller's own steps: asking the window to the front, looking for the
\* bounds, taking the focus and sending a stroke.
LEMMA RaiseWindowSteady ==
    ASSUME TypeOK, CallsOK, FrontIsWindow, NEW c \in Callers, RaiseWindow(c)
    PROVE  Steady(c)'
<1> DEFINE o == op[c]
           w == o.window
           point == IF o.todo # <<>> THEN "keys" ELSE "aim"
<1>1. op \in [Callers -> Calls] /\ o \in Calls /\ CallOK(o) /\ o.at = "activate"
  BY DEF TypeOK, CallsOK, RaiseWindow, At
<1>2. w \in Windows /\ o.call # "set_value" /\ NoWindow \notin Windows
  BY <1>1, DesktopAssumption DEF CallOK
<1>3. op'[c] = [o EXCEPT !.at = point]
  BY <1>1 DEF RaiseWindow, Goto
<1>4. /\ op'[c].at = point /\ op'[c].call = o.call /\ op'[c].window = w
  BY <1>1, <1>3 DEF Calls
<1>5. point # "rest" /\ point # "send" /\ (point = "aim" => o.todo = <<>>)
  OBVIOUS
<1>6. ~disturbed'[c] => foreground' = w /\ IsWindow(w)
  <2>1. CASE IsWindow(w) /\ BringToFront(w)
    BY <2>1 DEF BringToFront
  <2>2. CASE UNCHANGED <<foreground, focus>> /\ Disturb(IF foreground = w THEN {} ELSE {c})
    <3>1. ~disturbed'[c] => foreground = w
      BY <1>4, <1>5, <2>2, NotDisturbed
    <3> QED
      BY <1>2, <2>2, <3>1 DEF FrontIsWindow
  <2> QED
    BY <2>1, <2>2 DEF RaiseWindow
<1>7. iconic' = IF o.todo = <<>> /\ IsWindow(w) THEN iconic \ {w} ELSE iconic
  BY DEF RaiseWindow
<1> HIDE DEF point, o
<1> QED
  BY <1>2, <1>4, <1>5, <1>6, <1>7 DEF Steady, At

LEMMA AimSteady ==
    ASSUME TypeOK, CallsOK, NEW c \in Callers, Steady(c), Aim(c)
    PROVE  Steady(c)'
<1> DEFINE o == op[c]
<1>1. op \in [Callers -> Calls] /\ o \in Calls /\ o.at = "aim"
  BY DEF TypeOK, Aim, At
<1>2. CASE op' = [op EXCEPT ![c] = NoCall]
  BY <1>1, <1>2 DEF Steady, At, NoCall
<1>3. ASSUME NEW b \in BoundsOf(c), ~(b = "none" /\ o.call # "scroll"),
             op' = [op EXCEPT ![c].at = "send", ![c].bounds = b]
      PROVE  Steady(c)'
  <2>1. op'[c] = [o EXCEPT !.at = "send", !.bounds = b]
    BY <1>1, <1>3
  <2>2. /\ op'[c].at = "send" /\ op'[c].bounds = b
        /\ op'[c].call = o.call /\ op'[c].window = o.window
    BY <1>1, <2>1 DEF Calls
  <2>3. Disturb({}) /\ foreground' = foreground
    BY DEF Aim, desktopVars
  <2>4. ~disturbed'[c] => ~disturbed[c]
    BY <2>2, <2>3, NotDisturbed
  <2>5. o.window \notin iconic /\ o.call # "scroll" => b = "screen"
    BY <1>3 DEF BoundsOf
  <2>6. ~disturbed[c] /\ o.call # "scroll" => foreground = o.window /\ o.window \notin iconic
    BY <1>1 DEF Steady, At
  <2> HIDE DEF o
  <2> QED
    BY <2>2, <2>3, <2>4, <2>5, <2>6 DEF Steady, At
<1> QED
  BY <1>2, <1>3 DEF Aim, Return

LEMMA SetFocusSteady ==
    ASSUME TypeOK, CallsOK, NEW c \in Callers, SetFocus(c)
    PROVE  Steady(c)'
<1> DEFINE o == op[c]
<1>1. op \in [Callers -> Calls] /\ o \in Calls
  BY DEF TypeOK
<1>2. CASE op' = [op EXCEPT ![c] = NoCall]
  BY <1>1, <1>2 DEF Steady, At, NoCall
<1>3. CASE op' = [op EXCEPT ![c].at = "keys", ![c].todo = EraseAndType]
  <2>1. op'[c] = [o EXCEPT !.at = "keys", !.todo = EraseAndType]
    BY <1>1, <1>3
  <2>2. op'[c].at = "keys" /\ op'[c].got = o.got /\ op'[c].window = o.window
    BY <1>1, <2>1 DEF Calls
  <2>3. ~disturbed'[c] => foreground' = o.window /\ focus' = o.got
    <3>1. Disturb({c}) => disturbed'[c]
      BY <2>2 DEF Disturb
    <3> QED
      BY <3>1 DEF SetFocus
  <2> HIDE DEF o
  <2> QED
    BY <2>2, <2>3 DEF Steady, At
<1> QED
  BY <1>2, <1>3 DEF SetFocus, Return

LEMMA SendKeyEventSteady ==
    ASSUME TypeOK, NEW c \in Callers, Steady(c), SendKeyEvent(c)
    PROVE  Steady(c)'
<1> DEFINE o == op[c]
<1>1. op \in [Callers -> Calls] /\ o \in Calls /\ o.at = "keys"
  BY DEF TypeOK, SendKeyEvent, At
<1>2. CASE op' = [op EXCEPT ![c] = NoCall]
  BY <1>1, <1>2 DEF Steady, At, NoCall
<1>3. CASE op' = [op EXCEPT ![c].todo = Tail(@)]
  <2>1. op'[c] = [o EXCEPT !.todo = Tail(o.todo)]
    BY <1>1, <1>3
  <2>2. /\ op'[c].at = "keys" /\ op'[c].got = o.got
        /\ op'[c].window = o.window /\ op'[c].call = o.call
    BY <1>1, <2>1 DEF Calls
  <2>3. Disturb(Callers \ {c}) /\ foreground' = foreground /\ focus' = focus
    BY DEF SendKeyEvent
  <2>4. ~disturbed'[c] => ~disturbed[c]
    BY <2>2, <2>3, NotDisturbed
  <2>5. /\ ~disturbed[c] /\ o.window # NoWindow => foreground = o.window
        /\ ~disturbed[c] /\ o.call = "set_value" => focus = o.got
    BY <1>1 DEF Steady, At
  <2> HIDE DEF o
  <2> QED
    BY <2>2, <2>3, <2>4, <2>5 DEF Steady, At
<1> QED
  BY <1>2, <1>3 DEF SendKeyEvent, Return

\* The other steps of a caller leave it at a point that promises nothing.
LEMMA StartSteady ==
    ASSUME TypeOK, NEW c \in Callers, Steady(c),
           \/ \E call \in ElementCalls : AskElement(c, call)
           \/ \E w \in Windows : Activate(c, w)
           \/ \E k \in KeyCalls : \/ KeyPress(c, k.keys[1], k.window)
                                   \/ KeyCombo(c, k.keys, k.window)
           \/ Find(c) \/ InvokePattern(c) \/ ValuePattern(c) \/ ScrollPattern(c) \/ SendMouse(c)
    PROVE  Steady(c)'
<1>1. op \in [Callers -> Calls] /\ op[c] \in Calls
  BY DEF TypeOK
<1>2. ASSUME op'[c].at \in {"rest", "find", "pattern", "focus", "activate"}
      PROVE  Steady(c)'
  BY <1>2 DEF Steady, At
<1>3. CASE op' = [op EXCEPT ![c] = NoCall]
  BY <1>1, <1>2, <1>3 DEF NoCall
<1>4. ASSUME op' = op, At(c, "rest")
      PROVE  Steady(c)'
  BY <1>2, <1>4 DEF At
<1>5. ASSUME NEW call \in ElementCalls, AskElement(c, call)
      PROVE  Steady(c)'
  <2>1. op'[c].at = "find"
    BY <1>1, <1>5 DEF AskElement, NoCall
  <2> QED
    BY <1>2, <2>1
<1>6. ASSUME NEW call \in {"key_press", "key_combo"}, NEW keys, NEW w, NEW strokes,
             SendAfterRaise(c, call, keys, w, strokes)
      PROVE  Steady(c)'
  <2>1. /\ op'[c].call = call /\ op'[c].window = w
        /\ op'[c].at = IF w = NoWindow THEN "keys" ELSE "activate"
    BY <1>1, <1>6 DEF SendAfterRaise, NoCall
  <2> QED
    BY <2>1 DEF Steady, At
<1>7. ASSUME NEW k \in KeyCalls,
             KeyPress(c, k.keys[1], k.window) \/ KeyCombo(c, k.keys, k.window)
      PROVE  Steady(c)'
  BY <1>4, <1>6, <1>7 DEF KeyPress, KeyCombo, Refuse
<1>8. CASE Find(c)
  <2>1. AfterFind(op[c].call) \in {"pattern", "focus", "activate"}
    BY DEF AfterFind
  <2>2. ASSUME NEW id, op' = [op EXCEPT ![c].at = AfterFind(op[c].call), ![c].got = id]
        PROVE  Steady(c)'
    <3>1. op'[c] = [op[c] EXCEPT !.at = AfterFind(op[c].call), !.got = id]
      BY <1>1, <2>2
    <3>2. op'[c].at = AfterFind(op[c].call)
      BY <1>1, <3>1 DEF Calls
    <3> QED
      BY <1>2, <2>1, <3>2
  <2> QED
    BY <1>3, <1>8, <2>2 DEF Find, Return
<1>9. CASE InvokePattern(c) \/ ValuePattern(c) \/ ScrollPattern(c)
  <2>1. ASSUME NEW point, Goto(c, point), point = "aim" => op[c].call = "scroll",
               point \in {"activate", "focus", "aim"}
        PROVE  Steady(c)'
    <3>1. op'[c].at = point /\ op'[c].call = op[c].call
      BY <1>1, <2>1 DEF Goto, Calls
    <3> QED
      BY <2>1, <3>1 DEF Steady, At
  <2> QED
    BY <1>3, <1>9, <2>1 DEF InvokePattern, ValuePattern, ScrollPattern, Pattern, Return
<1> QED
  BY <1>3, <1>4, <1>5, <1>7, <1>8, <1>9 DEF Activate, SendMouse, Return

LEMMA SteadyStep ==
    ASSUME TypeOK, CallsOK, SteadyInv, [Next]_vars
    PROVE  SteadyInv'
<1>1. FrontIsWindow'
  BY FrontStep DEF SteadyInv
<1>2. ASSUME NEW c \in Callers, Execute(c) \/ CallStep(c), NEW d \in Callers
      PROVE  Steady(d)'
  <2>1. CASE d = c
    BY <1>2, <2>1, StartSteady, RaiseWindowSteady, AimSteady, SetFocusSteady, SendKeyEventSteady
       DEF SteadyInv, Execute, CallStep
  <2>2. CASE d # c
    BY <1>2, <2>2, OthersStay, OthersCalm, CalmIsSteady DEF SteadyInv
  <2> QED
    BY <2>1, <2>2
<1>3. ASSUME Environment, NEW d \in Callers
      PROVE  Steady(d)'
  BY <1>3, EnvironmentCalm, CalmIsSteady DEF SteadyInv
<1>4. ASSUME UNCHANGED vars, NEW d \in Callers
      PROVE  Steady(d)'
  <2>1. op' = op /\ Calm(d)
    BY <1>4 DEF vars, desktopVars, callVars, Calm
  <2> QED
    BY <2>1, CalmIsSteady DEF SteadyInv
<1> QED
  BY <1>1, <1>2, <1>3, <1>4 DEF Next, SteadyInv

\* Input meets the window and the element it is for, for any callers, calls
\* and desktops, unless somebody else or Windows intervened.
THEOREM InputMeetsTargetCorrect == Spec => []InputMeetsTarget
<1>1. Init => SteadyInv
  BY DEF Init, SteadyInv, FrontIsWindow, Steady, At, NoCall
<1>2. TypeOK /\ CallsOK /\ SteadyInv /\ [Next]_vars => SteadyInv'
  BY SteadyStep
<1>3. SteadyInv => InputMeetsTarget
  BY DEF SteadyInv, Steady, InputMeetsTarget
<1> QED
  BY <1>1, <1>2, <1>3, CallsCorrect, PTL DEF Spec
=============================================================================
