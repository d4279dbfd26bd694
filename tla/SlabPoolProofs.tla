---------------------------- MODULE SlabPoolProofs ----------------------------
(***************************************************************************)
(* For any number of pages, any sizes of page, word and chunk that are     *)
(* powers of two, and any requests: what g_slab_alloc hands out is apart   *)
(* from all else and from the bitmaps, g_slab_free recognises it, a page   *)
(* is in the list in which g_slab_alloc looks for it, and no page is lost. *)
(*                                                                         *)
(* The steps follow the pages through the lists.  Home is the list that a  *)
(* page belongs to by what it is: a free run to pool->free, a page with a  *)
(* chunk to give to its slot, any other to none.  ListInv says that the    *)
(* links agree with it, both ways, and that a rank falls along them, so    *)
(* that every list ends; each step takes a page from its list, puts one    *)
(* first or puts one in the place of another, as a lemma each says.        *)
(* RunInv says that the runs and the pages that are cut up tile the pool,  *)
(* ChunkInv that a page that is cut up has the type of its shift and its   *)
(* bitmap's chunks marked, LiveInv that what is handed out and what is     *)
(* marked are the same.                                                    *)
(*                                                                         *)
(* The properties then follow: runs and chunks lie apart by the arithmetic *)
(* of powers of two, and the numbers in the free runs add up to the pages. *)
(***************************************************************************)
EXTENDS SlabPool, FiniteSetTheorems, FunctionTheorems, WellFoundedInduction, TLAPS

-----------------------------------------------------------------------------
(* Induction *)

Less == {ss \in Nat \X Nat : ss[1] < ss[2]}

(* A set of numbers has a least one.                                       *)
LEMMA Least ==
  ASSUME NEW T \in SUBSET Nat, T # {}
  PROVE  \E x \in T : \A y \in T : x <= y
<1>1. IsWellFoundedOn(Less, Nat)  BY NatLessThanWellFounded DEF OpToRel, Less
<1>2. \E x \in T : \A y \in T : <<y, x>> \notin Less  BY <1>1, WFMin
<1>3. PICK x \in T : \A y \in T : <<y, x>> \notin Less  BY <1>2
<1>4. \A y \in T : x \in Nat /\ y \in Nat /\ ~(y < x)  BY <1>3 DEF Less
<1> QED  BY <1>4

(* What holds of 0, and of every number after one it holds of, holds of    *)
(* all.                                                                    *)
LEMMA Reaches ==
  ASSUME NEW T \in SUBSET Nat, 0 \in T, \A n \in T : n + 1 \in T
  PROVE  T = Nat
<1> SUFFICES ASSUME Nat \ T # {} PROVE FALSE
  OBVIOUS
<1>1. PICK x \in Nat \ T : \A y \in Nat \ T : x <= y  BY Least
<1>2. x # 0 /\ x - 1 \in Nat /\ x - 1 \notin Nat \ T  BY <1>1
<1> QED  BY <1>1, <1>2

-----------------------------------------------------------------------------
(* Powers of two *)

Upto(n) == 1 .. n

LEMMA PowerCounts ==
  ASSUME NEW n \in Nat
  PROVE  IsFiniteSet(SUBSET Upto(n)) /\ Cardinality(SUBSET Upto(n)) = 2 ^ n /\ 2 ^ n \in Nat
<1>1. IsFiniteSet(Upto(n)) /\ Cardinality(Upto(n)) = n  BY FS_Interval DEF Upto
<1>2. IsFiniteSet(SUBSET Upto(n)) /\ Cardinality(SUBSET Upto(n)) = 2 ^ Cardinality(Upto(n))
  BY <1>1, FS_SUBSET
<1> QED  BY <1>1, <1>2, FS_CardinalityType

(* The subsets with n + 1 in them are as many as those without.            *)
LEMMA PowerNext ==
  ASSUME NEW n \in Nat
  PROVE  2 ^ (n + 1) = 2 * 2 ^ n
<1> DEFINE A == SUBSET Upto(n)
           B == {T \in SUBSET Upto(n + 1) : n + 1 \in T}
           f == [T \in A |-> T \cup {n + 1}]
<1>1. n + 1 \in Nat /\ Upto(n + 1) = Upto(n) \cup {n + 1} /\ n + 1 \notin Upto(n)  BY DEF Upto
<1>2. SUBSET Upto(n + 1) = A \cup B  BY <1>1
<1>3. A \cap B = {}  BY <1>1
<1>4. f \in Bijection(A, B)
  <2>1. f \in [A -> B]  BY <1>1
  <2>2. ASSUME NEW S \in A, NEW T \in A, f[S] = f[T] PROVE S = T
    <3>1. S \cup {n + 1} = T \cup {n + 1}  BY <2>2
    <3> QED  BY <1>1, <3>1
  <2>3. ASSUME NEW T \in B PROVE \E S \in A : f[S] = T
    <3>1. T \ {n + 1} \in A /\ (T \ {n + 1}) \cup {n + 1} = T  BY <1>1
    <3> QED  BY <3>1
  <2>4. f \in Injection(A, B)  BY <2>1, <2>2 DEF Injection, IsInjective
  <2>5. f \in Surjection(A, B)  BY <2>1, <2>3 DEF Surjection
  <2> QED  BY <2>4, <2>5 DEF Bijection
<1>5. IsFiniteSet(A) /\ Cardinality(A) = 2 ^ n /\ 2 ^ n \in Nat  BY PowerCounts
<1>6. ExistsBijection(A, B)  BY <1>4 DEF ExistsBijection
<1>7. IsFiniteSet(B) /\ Cardinality(B) = Cardinality(A)  BY <1>5, <1>6, FS_Bijection
<1>8. Cardinality(A \cup B) = Cardinality(A) + Cardinality(B) - Cardinality(A \cap B)
  BY <1>5, <1>7, FS_Union
<1>9. Cardinality(A \cap B) = 0  BY <1>3, FS_EmptySet
<1>10. Cardinality(SUBSET Upto(n + 1)) = 2 ^ (n + 1)  BY <1>1, PowerCounts
<1>11. Cardinality(SUBSET Upto(n + 1)) = Cardinality(A \cup B)  BY <1>2
<1> DEFINE a == Cardinality(A)
<1>12. Cardinality(A \cup B) = a + a - 0 /\ a \in Nat  BY <1>5, <1>7, <1>8, <1>9
<1>13. Cardinality(A \cup B) = 2 * a
  <2> HIDE DEF a
  <2> QED  BY <1>12
<1>14. a = 2 ^ n  BY <1>5
<1> HIDE DEF A, B, a
<1> QED  BY <1>10, <1>11, <1>13, <1>14

LEMMA PowerZero == 2 ^ 0 = 1
OBVIOUS

LEMMA PowerPositive ==
  ASSUME NEW n \in Nat
  PROVE  2 ^ n \in Nat \ {0} /\ n < 2 ^ n
<1> DEFINE T == {m \in Nat : 2 ^ m \in Nat \ {0} /\ m < 2 ^ m}
<1>1. 0 \in T  BY PowerZero
<1>2. ASSUME NEW m \in T PROVE m + 1 \in T
  <2>1. m \in Nat /\ 2 ^ m \in Nat \ {0} /\ m < 2 ^ m /\ 2 ^ (m + 1) = 2 * 2 ^ m  BY PowerNext
  <2> QED  BY <2>1
<1>3. T = Nat
  <2> HIDE DEF T
  <2>1. T \in SUBSET Nat  BY DEF T
  <2> QED  BY <1>1, <1>2, <2>1, Reaches
<1> QED  BY <1>3

LEMMA PowerSum ==
  ASSUME NEW k \in Nat, NEW n \in Nat
  PROVE  2 ^ (k + n) = 2 ^ k * 2 ^ n
<1> DEFINE T == {m \in Nat : 2 ^ (k + m) = 2 ^ k * 2 ^ m}
<1>0. 2 ^ k \in Nat  BY PowerPositive
<1>1. 0 \in T
  <2>1. k + 0 = k  OBVIOUS
  <2>2. 2 ^ k * 1 = 2 ^ k  BY <1>0
  <2> QED  BY <2>1, <2>2, PowerZero
<1>2. ASSUME NEW m \in T PROVE m + 1 \in T
  <2>1. m \in Nat /\ k + m \in Nat /\ k + (m + 1) = (k + m) + 1 /\ 2 ^ (k + m) = 2 ^ k * 2 ^ m
    OBVIOUS
  <2>2. 2 ^ ((k + m) + 1) = 2 * 2 ^ (k + m) /\ 2 ^ (m + 1) = 2 * 2 ^ m  BY <2>1, PowerNext
  <2>3. 2 ^ m \in Nat  BY <2>1, PowerPositive
  <2> DEFINE x == 2 ^ k  y == 2 ^ m
  <2>4. 2 * (x * y) = x * (2 * y)
    <3>1. x \in Nat /\ y \in Nat  BY <1>0, <2>3
    <3> HIDE DEF x, y
    <3> QED  BY <3>1
  <2>5. 2 ^ (k + (m + 1)) = 2 ^ k * 2 ^ (m + 1)  BY <2>1, <2>2, <2>4
  <2> QED  BY <2>1, <2>5
<1>3. T = Nat
  <2> HIDE DEF T
  <2>1. T \in SUBSET Nat  BY DEF T
  <2> QED  BY <1>1, <1>2, <2>1, Reaches
<1> QED  BY <1>3

(* A power is so many times a smaller one, and more than it.               *)
LEMMA PowerSplit ==
  ASSUME NEW k \in Nat, NEW n \in Nat, k <= n
  PROVE  /\ n - k \in Nat /\ 2 ^ n = 2 ^ (n - k) * 2 ^ k
         /\ 2 ^ k <= 2 ^ n /\ (k < n => 2 ^ k < 2 ^ n)
<1>1. n - k \in Nat /\ (n - k) + k = n  OBVIOUS
<1>2. 2 ^ n = 2 ^ (n - k) * 2 ^ k  BY <1>1, PowerSum
<1>3. 2 ^ k \in Nat \ {0} /\ 2 ^ (n - k) \in Nat \ {0} /\ n - k < 2 ^ (n - k)  BY <1>1, PowerPositive
<1> DEFINE x == 2 ^ (n - k)  y == 2 ^ k
<1>4. y <= x * y /\ (x >= 2 => y < x * y)
  <2>1. x \in Nat \ {0} /\ y \in Nat \ {0}  BY <1>3
  <2> HIDE DEF x, y
  <2>2. PICK d \in Nat : x = 1 + d
    <3>1. x - 1 \in Nat /\ x = 1 + (x - 1)  BY <2>1
    <3> QED  BY <3>1
  <2>3. x * y = y + d * y /\ d * y \in Nat  BY <2>1, <2>2
  <2>4. d # 0 => d * y >= y
    <3> SUFFICES ASSUME d # 0 PROVE d * y >= y
      OBVIOUS
    <3>1. PICK e \in Nat : d = 1 + e
      <4>1. d - 1 \in Nat /\ d = 1 + (d - 1)  BY <2>2
      <4> QED  BY <4>1
    <3>2. d * y = y + e * y /\ e * y \in Nat  BY <2>1, <3>1
    <3> QED  BY <2>1, <3>2
  <2> QED  BY <2>1, <2>2, <2>3, <2>4
<1>5. k < n => 2 ^ (n - k) >= 2  BY <1>1, <1>3
<1> QED  BY <1>1, <1>2, <1>4, <1>5

-----------------------------------------------------------------------------
(* Lists *)

(* Following the links from a head on.                                     *)
Following(e, head, m, g) ==
  g = [i \in 0 .. m |-> IF i = 0 THEN e.next[head]
                        ELSE IF g[i - 1] = head THEN head ELSE e.next[g[i - 1]]]

LEMMA FollowingExists ==
  ASSUME NEW e, NEW head, NEW n \in Nat
  PROVE  \E g : Following(e, head, n, g)
<1> DEFINE T == {m \in Nat : \E g : Following(e, head, m, g)}
           start == e.next[head]
           step(x) == IF x = head THEN head ELSE e.next[x]
<1>1. 0 \in T
  <2> DEFINE g == [i \in 0 .. 0 |-> start]
  <2>1. g = [i \in 0 .. 0 |-> IF i = 0 THEN start ELSE step(g[i - 1])]  OBVIOUS
  <2> HIDE DEF g
  <2>2. Following(e, head, 0, g)  BY <2>1 DEF Following
  <2> QED  BY <2>2
<1>2. ASSUME NEW m \in T PROVE m + 1 \in T
  <2>1. PICK g : Following(e, head, m, g)  OBVIOUS
  <2>2. m \in Nat /\ g = [i \in 0 .. m |-> IF i = 0 THEN start ELSE step(g[i - 1])]
    BY <2>1 DEF Following
  <2> HIDE DEF T
  <2> DEFINE h == [i \in 0 .. m + 1 |-> IF i = m + 1 THEN step(g[m]) ELSE g[i]]
  <2> HIDE DEF start, step
  <2>3. \A i \in 0 .. m + 1 : h[i] = IF i = 0 THEN start ELSE step(h[i - 1])
    <3> TAKE i \in 0 .. m + 1
    <3>1. CASE i = 0  BY <2>2, <3>1
    <3>2. CASE i = m + 1
      <4>1. i # 0 /\ i - 1 = m /\ m \in 0 .. m + 1 /\ m # m + 1  BY <2>2, <3>2
      <4>2. h[m] = g[m] /\ h[i] = step(g[m])  BY <4>1, <3>2
      <4> QED  BY <4>1, <4>2
    <3>3. CASE i # 0 /\ i # m + 1
      <4>1. i \in 0 .. m /\ i - 1 \in 0 .. m + 1 /\ i - 1 # m + 1  BY <2>2, <3>3
      <4>2. h[i] = g[i] /\ h[i - 1] = g[i - 1]  BY <4>1, <3>3
      <4>3. g[i] = step(g[i - 1])  BY <2>2, <3>3, <4>1
      <4> QED  BY <3>3, <4>2, <4>3
    <3> QED  BY <3>1, <3>2, <3>3
  <2>4. h = [i \in 0 .. m + 1 |-> IF i = 0 THEN start ELSE step(h[i - 1])]
    <3>1. h = [i \in 0 .. m + 1 |-> h[i]]  OBVIOUS
    <3> HIDE DEF h
    <3> QED  BY <2>3, <3>1
  <2> HIDE DEF h
  <2>5. Following(e, head, m + 1, h)  BY <2>4 DEF Following, start, step
  <2> QED  BY <2>2, <2>5 DEF T
<1>3. T = Nat
  <2> HIDE DEF T
  <2>1. T \in SUBSET Nat  BY DEF T
  <2> QED  BY <1>1, <1>2, <2>1, Reaches
<1> QED  BY <1>3

LEMMA InListFollows ==
  ASSUME SlabAssumption, NEW e, NEW head
  PROVE  Following(e, head, N, InList(e, head))
<1>1. \E g : Following(e, head, N, g)  BY FollowingExists DEF SlabAssumption
<1>2. InList(e, head) = CHOOSE g : Following(e, head, N, g)  BY DEF InList, Following
<1> QED  BY <1>1, <1>2

-----------------------------------------------------------------------------
(* The invariant *)

Heads == {Free} \cup Slots

(* The shifts of chunks.                                                   *)
Shifts == min_shift .. page_shift - 1

Type(p) == entry.prev[p].type
Chunked == {p \in Pages : Type(p) # "page"}
Runs == {p \in Pages : Type(p) = "page" /\ entry.slab[p].n # 0}

(* Runs lie in the pool, no page of theirs is in another or cut up, and    *)
(* every page is in one or cut up.                                         *)
RunInv ==
  /\ \A p \in Runs : /\ p + entry.slab[p].n <= N
                     /\ entry.slab[p].mark \in {"", "start"} /\ entry.slab[p].map = {}
                     /\ \A q \in p + 1 .. p + entry.slab[p].n - 1 : q \notin Runs \cup Chunked
  /\ \A q \in Pages \ Chunked : \E p \in Runs : q \in p .. p + entry.slab[p].n - 1

Reserved(p) == IF Type(p) = "small" THEN 0 .. BitmapChunks(ShiftOf(entry, p)) - 1 ELSE {}

(* A page that is cut up has its type and its shift; the chunks of its     *)
(* bitmap are taken, and one at least besides.                             *)
ChunkInv ==
  \A p \in Chunked :
    /\ ShiftOf(entry, p) \in Shifts /\ Type(p) = TypeFor(ShiftOf(entry, p))
    /\ entry.slab[p].mark = ""
    /\ Taken(entry, p) \subseteq Chunks(ShiftOf(entry, p))
    /\ Reserved(p) \subseteq Taken(entry, p) /\ Taken(entry, p) # Reserved(p)

(* The list that a page belongs to.                                        *)
Home(p) ==
  IF Type(p) = "page" THEN IF p \in Runs /\ entry.slab[p].mark = "" THEN Free ELSE NULL
  ELSE IF Taken(entry, p) # Chunks(ShiftOf(entry, p)) THEN Slot(ShiftOf(entry, p)) ELSE NULL

(* The links are those of lists of the pages with this home; rank falls    *)
(* along a list.                                                           *)
Linked(next, prev, home, rank) ==
  /\ \A p \in Pages : home[p] # NULL =>
       /\ \/ next[p] = home[p]
          \/ /\ next[p] \in Pages /\ home[next[p]] = home[p]
             /\ prev[next[p]].to = p /\ rank[next[p]] < rank[p]
       /\ \/ prev[p].to = home[p] /\ next[home[p]] = p
          \/ /\ prev[p].to \in Pages /\ home[prev[p].to] = home[p] /\ next[prev[p].to] = p
  /\ \A h \in Heads :
       \/ next[h] = h
       \/ next[h] \in Pages /\ home[next[h]] = h /\ prev[next[h]].to = h

Homes == [Pages -> Heads \cup {NULL}]

Ranks(m) == [Pages -> 0 .. m]

SlabType == [n : 0 .. N + page_shift, mark : {"", "start", "busy"}, map : SUBSET Chunks(exact_shift)]
Entries == [slab : [Pages -> SlabType],
            next : [Nodes -> Nodes \cup {NULL}],
            prev : [Nodes -> [to : Nodes \cup {NULL}, type : Types]]]

(* The type of the pages in a list.                                        *)
Kind(h) == IF h = Free THEN "page" ELSE TypeFor(h - N - 1 + min_shift)

Lists(e, home) ==
  /\ home \in Homes
  /\ \E m \in Nat : \E rank \in Ranks(m) : Linked(e.next, e.prev, home, rank)
  /\ \A p \in Pages : home[p] # NULL => e.prev[p].type = Kind(home[p])

Homed == [p \in Pages |-> Home(p)]

ListInv ==
  /\ Lists(entry, Homed)
  /\ \A p \in Pages : Home(p) = NULL => entry.next[p] = NULL

IsRun(a, p) ==
  /\ p \in Runs /\ entry.slab[p].mark = "start"
  /\ a.at = p * page_size /\ a.room = entry.slab[p].n * page_size

IsChunk(a, p, c) ==
  /\ p \in Chunked /\ c \in Taken(entry, p) \ Reserved(p)
  /\ a.at = Address(p, ShiftOf(entry, p), c) /\ a.room = 2 ^ ShiftOf(entry, p)

(* Who has what.                                                           *)
LiveInv ==
  /\ \A a \in live : /\ a \in [at : Nat, room : Nat, size : Nat] /\ a.size <= a.room
                     /\ \/ \E p \in Pages : IsRun(a, p)
                        \/ \E p \in Pages : \E c \in Taken(entry, p) : IsChunk(a, p, c)
  /\ \A a, b \in live : a.at = b.at => a = b
  /\ \A p \in Runs : entry.slab[p].mark = "start" => \E a \in live : IsRun(a, p)
  /\ \A p \in Chunked : \A c \in Taken(entry, p) \ Reserved(p) : \E a \in live : IsChunk(a, p, c)

IInv ==
  /\ entry \in Entries /\ bitmap \in [Pages -> SUBSET Chunks(min_shift)]
  /\ RunInv /\ ChunkInv /\ ListInv /\ LiveInv

(* Pages, heads and NULL are different things.                             *)
LEMMA NodesApart ==
  ASSUME SlabAssumption
  PROVE  /\ N \in Nat \ {0} /\ Pages \subseteq Nat
         /\ Heads \cap Pages = {} /\ NULL \notin Heads /\ NULL \notin Pages
         /\ Nodes = Pages \cup Heads
<1>1. N \in Nat \ {0} /\ min_shift \in Nat /\ page_shift \in Nat  BY DEF SlabAssumption
<1>2. \A s \in min_shift .. page_shift - 1 : Slot(s) \in Nat /\ Slot(s) > N  BY <1>1 DEF Slot
<1>3. \A h \in Heads : h \in Nat /\ h >= N  BY <1>1, <1>2 DEF Heads, Slots, Free
<1>4. Nodes = Pages \cup Heads  BY DEF Nodes, Heads
<1> QED  BY <1>1, <1>3, <1>4 DEF Pages, NULL

(* A page is taken out of its list, another takes its place, a page comes  *)
(* first: what the links are then.                                         *)
TakenOut(next, prev, home, p, next2, prev2) ==
  /\ \A x \in Heads : next2[x] = IF x = prev[p].to THEN next[p] ELSE next[x]
  /\ \A x \in Pages : x # p /\ home[x] # NULL =>
       /\ next2[x] = IF x = prev[p].to THEN next[p] ELSE next[x]
       /\ prev2[x].to = IF x = next[p] THEN prev[p].to ELSE prev[x].to

PutFor(next, prev, home, p, q, next2, prev2) ==
  /\ \A x \in Heads : next2[x] = IF x = prev[p].to THEN q ELSE next[x]
  /\ \A x \in Pages : x # p /\ home[x] # NULL =>
       /\ next2[x] = IF x = prev[p].to THEN q ELSE next[x]
       /\ prev2[x].to = IF x = next[p] THEN q ELSE prev[x].to
  /\ next2[q] = next[p] /\ prev2[q].to = prev[p].to

PutFirst(next, prev, home, h, q, next2, prev2) ==
  /\ \A x \in Heads : next2[x] = IF x = h THEN q ELSE next[x]
  /\ \A x \in Pages : home[x] # NULL =>
       /\ next2[x] = next[x]
       /\ prev2[x].to = IF x = next[h] THEN q ELSE prev[x].to
  /\ next2[q] = next[h] /\ prev2[q].to = h

LEMMA ListUnlink ==
  ASSUME SlabAssumption,
         NEW next, NEW prev, NEW home \in Homes, NEW m \in Nat, NEW rank \in Ranks(m),
         Linked(next, prev, home, rank),
         NEW p \in Pages, home[p] # NULL,
         NEW next2, NEW prev2, TakenOut(next, prev, home, p, next2, prev2)
  PROVE  Linked(next2, prev2, [home EXCEPT ![p] = NULL], rank)
<1>0. /\ \A x \in Heads : next2[x] = IF x = prev[p].to THEN next[p] ELSE next[x]
      /\ \A x \in Pages : x # p /\ home[x] # NULL =>
           /\ next2[x] = IF x = prev[p].to THEN next[p] ELSE next[x]
           /\ prev2[x].to = IF x = next[p] THEN prev[p].to ELSE prev[x].to
  BY DEF TakenOut
<1> USE <1>0
<1> DEFINE home2 == [home EXCEPT ![p] = NULL]
           a == prev[p].to
           b == next[p]
<1>1. /\ Heads \cap Pages = {} /\ NULL \notin Heads /\ NULL \notin Pages
      /\ \A x \in Pages : home[x] \in Heads \cup {NULL} /\ rank[x] \in Int
  BY NodesApart DEF Homes, Ranks
<1>2. /\ \A x \in Pages : home2[x] = IF x = p THEN NULL ELSE home[x]
  BY DEF Homes
<1>3. /\ b = home[p] \/ (b \in Pages /\ home[b] = home[p] /\ prev[b].to = p /\ rank[b] < rank[p])
      /\ (a = home[p] /\ next[home[p]] = p) \/ (a \in Pages /\ home[a] = home[p] /\ next[a] = p)
  BY DEF Linked
<1>4. b # p /\ a # p  BY <1>1, <1>3
<1>5. ASSUME NEW x \in Pages, home[x] # NULL, next[x] = p PROVE a = x
  BY <1>1, <1>5 DEF Linked
<1>6. ASSUME NEW h \in Heads, next[h] = p PROVE a = h
  BY <1>1, <1>6 DEF Linked
<1>7. a \in Pages => rank[p] < rank[a] /\ home[a] # NULL
  <2> SUFFICES ASSUME a \in Pages PROVE rank[p] < rank[a] /\ home[a] # NULL
    OBVIOUS
  <2>1. home[a] = home[p] /\ next[a] = p  BY <1>1, <1>3
  <2> QED  BY <1>1, <2>1 DEF Linked
<1> HIDE DEF home2
<1>8. ASSUME NEW x \in Pages, home2[x] # NULL
      PROVE  /\ \/ next2[x] = home2[x]
                \/ /\ next2[x] \in Pages /\ home2[next2[x]] = home2[x]
                   /\ prev2[next2[x]].to = x /\ rank[next2[x]] < rank[x]
             /\ \/ prev2[x].to = home2[x] /\ next2[home2[x]] = x
                \/ /\ prev2[x].to \in Pages /\ home2[prev2[x].to] = home2[x]
                   /\ next2[prev2[x].to] = x
  <2>1. x # p /\ home[x] # NULL /\ home2[x] = home[x] /\ home[x] \in Heads  BY <1>1, <1>2, <1>8
  <2>2. /\ \/ next[x] = home[x]
           \/ /\ next[x] \in Pages /\ home[next[x]] = home[x]
              /\ prev[next[x]].to = x /\ rank[next[x]] < rank[x]
        /\ \/ prev[x].to = home[x] /\ next[home[x]] = x
           \/ /\ prev[x].to \in Pages /\ home[prev[x].to] = home[x] /\ next[prev[x].to] = x
    BY <2>1 DEF Linked
  <2>3. CASE x = a
    <3>1. next2[x] = b /\ home[x] = home[p] /\ rank[p] < rank[x]  BY <1>1, <1>3, <1>7, <2>1, <2>3
    <3>2. b \in Pages => prev2[b].to = x /\ home2[b] = home2[x] /\ rank[b] < rank[x]
      BY <1>1, <1>2, <1>3, <1>4, <2>1, <2>3, <3>1
    <3>3. x # b
      BY <1>1, <1>3, <2>3, <3>1
    <3>4. prev2[x].to = prev[x].to /\ prev[x].to # p
      BY <1>1, <1>3, <1>4, <2>1, <2>2, <2>3, <3>1, <3>3
    <3>5. /\ prev[x].to = home[x] => next2[home[x]] = next[home[x]]
          /\ prev[x].to \in Pages => next2[prev[x].to] = next[prev[x].to]
      BY <1>1, <1>2, <1>3, <2>1, <2>2, <2>3, <3>4
    <3> QED  BY <1>1, <1>2, <1>3, <2>1, <2>2, <3>1, <3>2, <3>4, <3>5
  <2>4. CASE x # a
    <3>1. next2[x] = next[x] /\ next[x] # p  BY <1>5, <2>1, <2>4
    <3>2. next[x] \in Pages => /\ next[x] # b /\ prev2[next[x]].to = x
                               /\ home2[next[x]] = home2[x]
      BY <1>1, <1>2, <1>3, <2>1, <2>2, <3>1
    <3>3. CASE x = b
      <4>1. prev2[x].to = a /\ home[x] = home[p]  BY <1>1, <1>3, <2>1, <3>3
      <4>2. a = home[p] => next2[home[p]] = x  BY <1>1, <1>3, <2>1, <3>3, <4>1
      <4>3. a \in Pages => home2[a] = home2[x] /\ next2[a] = x
        BY <1>1, <1>2, <1>3, <1>4, <1>7, <2>1, <3>3, <4>1
      <4> QED  BY <1>3, <2>1, <2>2, <3>1, <3>2, <4>1, <4>2, <4>3
    <3>4. CASE x # b
      <4>1. prev2[x].to = prev[x].to  BY <2>1, <3>4
      <4>2. prev[x].to # p
        BY <1>1, <2>1, <2>2, <3>4
      <4>3. prev[x].to = home[x] /\ next[home[x]] = x => next2[home[x]] = x
        BY <1>3, <1>1, <2>1
      <4>4. prev[x].to \in Pages => next2[prev[x].to] = x /\ home2[prev[x].to] = home2[x]
        BY <1>1, <1>2, <1>3, <2>1, <2>2, <4>2
      <4> QED  BY <2>1, <2>2, <3>1, <3>2, <4>1, <4>3, <4>4
    <3> QED  BY <3>3, <3>4
  <2> QED  BY <2>3, <2>4
<1>9. ASSUME NEW h \in Heads
      PROVE  \/ next2[h] = h
             \/ next2[h] \in Pages /\ home2[next2[h]] = h /\ prev2[next2[h]].to = h
  <2>1. next[h] = h \/ (next[h] \in Pages /\ home[next[h]] = h /\ prev[next[h]].to = h)
    BY DEF Linked
  <2>2. CASE h = a
    <3>1. home[p] = h /\ next2[h] = b  BY <1>1, <1>3, <2>2
    <3> QED  BY <1>1, <1>2, <1>3, <1>4, <2>2, <3>1
  <2>3. CASE h # a
    <3>1. next2[h] = next[h] /\ next[h] # p  BY <1>6, <2>3
    <3>2. next[h] \in Pages => next[h] # b
      BY <1>1, <1>3, <2>1
    <3> QED  BY <1>1, <1>2, <2>1, <3>1, <3>2
  <2> QED  BY <2>2, <2>3
<1> QED  BY <1>8, <1>9 DEF Linked, home2

(* A page takes the place of another in its list.                          *)
LEMMA ListReplace ==
  ASSUME SlabAssumption,
         NEW next, NEW prev, NEW home \in Homes, NEW m \in Nat, NEW rank \in Ranks(m),
         Linked(next, prev, home, rank),
         NEW p \in Pages, home[p] # NULL, NEW q \in Pages, home[q] = NULL,
         NEW next2, NEW prev2, PutFor(next, prev, home, p, q, next2, prev2)
  PROVE  Linked(next2, prev2, [home EXCEPT ![p] = NULL, ![q] = home[p]], [rank EXCEPT ![q] = rank[p]])
<1>0. /\ \A x \in Heads : next2[x] = IF x = prev[p].to THEN q ELSE next[x]
      /\ \A x \in Pages : x # p /\ home[x] # NULL =>
           /\ next2[x] = IF x = prev[p].to THEN q ELSE next[x]
           /\ prev2[x].to = IF x = next[p] THEN q ELSE prev[x].to
      /\ next2[q] = next[p] /\ prev2[q].to = prev[p].to
  BY DEF PutFor
<1> USE <1>0
<1> DEFINE home2 == [home EXCEPT ![p] = NULL, ![q] = home[p]]
           rank2 == [rank EXCEPT ![q] = rank[p]]
           a == prev[p].to
           b == next[p]
<1>1. /\ Heads \cap Pages = {} /\ NULL \notin Heads /\ NULL \notin Pages /\ p # q
      /\ \A x \in Pages : home[x] \in Heads \cup {NULL} /\ rank[x] \in Int
  BY NodesApart DEF Homes, Ranks
<1>2. \A x \in Pages : /\ home2[x] = IF x = p THEN NULL ELSE IF x = q THEN home[p] ELSE home[x]
                       /\ rank2[x] = IF x = q THEN rank[p] ELSE rank[x]
  BY <1>1 DEF Homes, Ranks
<1>3. /\ b = home[p] \/ (b \in Pages /\ home[b] = home[p] /\ prev[b].to = p /\ rank[b] < rank[p])
      /\ (a = home[p] /\ next[home[p]] = p) \/ (a \in Pages /\ home[a] = home[p] /\ next[a] = p)
  BY DEF Linked
<1>4. b # p /\ a # p /\ b # q /\ a # q  BY <1>1, <1>3
<1>5. ASSUME NEW x \in Pages, home[x] # NULL, next[x] = p PROVE a = x
  BY <1>1, <1>5 DEF Linked
<1>6. ASSUME NEW h \in Heads, next[h] = p PROVE a = h
  BY <1>1, <1>6 DEF Linked
<1>7. a \in Pages => rank[p] < rank[a] /\ home[a] # NULL
  <2> SUFFICES ASSUME a \in Pages PROVE rank[p] < rank[a] /\ home[a] # NULL
    OBVIOUS
  <2>1. home[a] = home[p] /\ next[a] = p  BY <1>1, <1>3
  <2> QED  BY <1>1, <2>1 DEF Linked
<1> HIDE DEF home2, rank2
<1>8. ASSUME NEW x \in Pages, home2[x] # NULL, x = q
      PROVE  /\ \/ next2[x] = home2[x]
                \/ /\ next2[x] \in Pages /\ home2[next2[x]] = home2[x]
                   /\ prev2[next2[x]].to = x /\ rank2[next2[x]] < rank2[x]
             /\ \/ prev2[x].to = home2[x] /\ next2[home2[x]] = x
                \/ /\ prev2[x].to \in Pages /\ home2[prev2[x].to] = home2[x]
                   /\ next2[prev2[x].to] = x
  <2>1. home2[q] = home[p] /\ rank2[q] = rank[p] /\ next2[q] = b /\ prev2[q].to = a
    BY <1>1, <1>2
  <2>2. b \in Pages => home2[b] = home[p] /\ prev2[b].to = q /\ rank2[b] = rank[b]
    BY <1>1, <1>2, <1>3, <1>4
  <2>3. a = home[p] => next2[home[p]] = q  BY <1>1
  <2>4. a \in Pages => home2[a] = home[p] /\ next2[a] = q  BY <1>1, <1>2, <1>3, <1>4, <1>7
  <2> QED  BY <1>3, <1>8, <2>1, <2>2, <2>3, <2>4
<1>10. ASSUME NEW x \in Pages, home2[x] # NULL, x # q
      PROVE  /\ \/ next2[x] = home2[x]
                \/ /\ next2[x] \in Pages /\ home2[next2[x]] = home2[x]
                   /\ prev2[next2[x]].to = x /\ rank2[next2[x]] < rank2[x]
             /\ \/ prev2[x].to = home2[x] /\ next2[home2[x]] = x
                \/ /\ prev2[x].to \in Pages /\ home2[prev2[x].to] = home2[x]
                   /\ next2[prev2[x].to] = x
  <2>1. x # p /\ home[x] # NULL /\ home2[x] = home[x] /\ home[x] \in Heads /\ rank2[x] = rank[x]
    BY <1>1, <1>2, <1>10
  <2>2. /\ \/ next[x] = home[x]
           \/ /\ next[x] \in Pages /\ home[next[x]] = home[x]
              /\ prev[next[x]].to = x /\ rank[next[x]] < rank[x]
        /\ \/ prev[x].to = home[x] /\ next[home[x]] = x
           \/ /\ prev[x].to \in Pages /\ home[prev[x].to] = home[x] /\ next[prev[x].to] = x
    BY <2>1 DEF Linked
  <2>3. \/ next2[x] = home2[x]
        \/ /\ next2[x] \in Pages /\ home2[next2[x]] = home2[x]
           /\ prev2[next2[x]].to = x /\ rank2[next2[x]] < rank2[x]
    <3>1. CASE x = a
      <4>1. next2[x] = q /\ home[x] = home[p] /\ rank[p] < rank[x]
        BY <1>1, <1>3, <1>7, <2>1, <3>1
      <4> QED  BY <1>1, <1>2, <2>1, <3>1, <4>1
    <3>2. CASE x # a
      <4>1. next2[x] = next[x] /\ next[x] # p  BY <1>5, <2>1, <3>2
      <4>2. next[x] \in Pages => next[x] # b /\ next[x] # q
        BY <1>1, <1>3, <2>1, <2>2, <4>1
      <4>3. next[x] \in Pages => /\ prev2[next[x]].to = x /\ home2[next[x]] = home2[x]
                                 /\ rank2[next[x]] = rank[next[x]]
        BY <1>1, <1>2, <2>1, <2>2, <4>1, <4>2
      <4> QED  BY <2>1, <2>2, <4>1, <4>3
    <3> QED  BY <3>1, <3>2
  <2>4. \/ prev2[x].to = home2[x] /\ next2[home2[x]] = x
        \/ /\ prev2[x].to \in Pages /\ home2[prev2[x].to] = home2[x] /\ next2[prev2[x].to] = x
    <3>1. CASE x = b
      <4>1. prev2[x].to = q /\ home[x] = home[p]  BY <1>1, <1>3, <2>1, <3>1
      <4> QED  BY <1>1, <1>2, <2>1, <3>1, <4>1
    <3>2. CASE x # b
      <4>1. prev2[x].to = prev[x].to  BY <2>1, <3>2
      <4>2. prev[x].to # p  BY <1>1, <2>1, <2>2, <3>2
      <4>3. prev[x].to = home[x] /\ next[home[x]] = x => next2[home[x]] = x
        BY <1>3, <1>1, <2>1
      <4>4. prev[x].to \in Pages => next2[prev[x].to] = x /\ home2[prev[x].to] = home2[x]
        BY <1>1, <1>2, <1>3, <2>1, <2>2, <4>2
      <4> QED  BY <2>1, <2>2, <4>1, <4>3, <4>4
    <3> QED  BY <3>1, <3>2
  <2> QED  BY <2>3, <2>4
<1>9. ASSUME NEW h \in Heads
      PROVE  \/ next2[h] = h
             \/ next2[h] \in Pages /\ home2[next2[h]] = h /\ prev2[next2[h]].to = h
  <2>1. next[h] = h \/ (next[h] \in Pages /\ home[next[h]] = h /\ prev[next[h]].to = h)
    BY DEF Linked
  <2>2. CASE h = a
    <3>1. home[p] = h /\ next2[h] = q  BY <1>1, <1>3, <2>2
    <3> QED  BY <1>1, <1>2, <2>2, <3>1
  <2>3. CASE h # a
    <3>1. next2[h] = next[h] /\ next[h] # p  BY <1>6, <2>3
    <3>2. next[h] \in Pages => next[h] # b /\ next[h] # q
      BY <1>1, <1>3, <2>1
    <3> QED  BY <1>1, <1>2, <2>1, <3>1, <3>2
  <2> QED  BY <2>2, <2>3
<1> QED  BY <1>8, <1>9, <1>10 DEF Linked, home2, rank2

(* A page comes first in a list.                                           *)
LEMMA ListInsert ==
  ASSUME SlabAssumption,
         NEW next, NEW prev, NEW home \in Homes, NEW m \in Nat, NEW rank \in Ranks(m),
         Linked(next, prev, home, rank),
         NEW h \in Heads, NEW q \in Pages, home[q] = NULL,
         NEW next2, NEW prev2, PutFirst(next, prev, home, h, q, next2, prev2)
  PROVE  /\ Linked(next2, prev2, [home EXCEPT ![q] = h], [rank EXCEPT ![q] = m + 1])
         /\ [rank EXCEPT ![q] = m + 1] \in Ranks(m + 1)
<1>0. /\ \A x \in Heads : next2[x] = IF x = h THEN q ELSE next[x]
      /\ \A x \in Pages : home[x] # NULL =>
           /\ next2[x] = next[x]
           /\ prev2[x].to = IF x = next[h] THEN q ELSE prev[x].to
      /\ next2[q] = next[h] /\ prev2[q].to = h
  BY DEF PutFirst
<1> USE <1>0
<1> DEFINE home2 == [home EXCEPT ![q] = h]
           rank2 == [rank EXCEPT ![q] = m + 1]
<1>1. /\ Heads \cap Pages = {} /\ NULL \notin Heads /\ NULL \notin Pages
      /\ \A x \in Pages : home[x] \in Heads \cup {NULL} /\ rank[x] \in 0 .. m
  BY NodesApart DEF Homes, Ranks
<1>2. \A x \in Pages : /\ home2[x] = IF x = q THEN h ELSE home[x]
                       /\ rank2[x] = IF x = q THEN m + 1 ELSE rank[x]
  BY <1>1 DEF Homes, Ranks
<1>3. next[h] = h \/ (next[h] \in Pages /\ home[next[h]] = h /\ prev[next[h]].to = h)
  BY DEF Linked
<1>4. rank2 \in Ranks(m + 1)  BY <1>1 DEF Ranks
<1> HIDE DEF home2, rank2
<1>5. ASSUME NEW x \in Pages, home2[x] # NULL, x = q
      PROVE  /\ \/ next2[x] = home2[x]
                \/ /\ next2[x] \in Pages /\ home2[next2[x]] = home2[x]
                   /\ prev2[next2[x]].to = x /\ rank2[next2[x]] < rank2[x]
             /\ \/ prev2[x].to = home2[x] /\ next2[home2[x]] = x
                \/ /\ prev2[x].to \in Pages /\ home2[prev2[x].to] = home2[x]
                   /\ next2[prev2[x].to] = x
  <2>1. next2[x] = next[h] /\ home2[x] = h /\ prev2[x].to = h /\ next2[h] = x /\ rank2[x] = m + 1
    BY <1>2, <1>5
  <2>2. next[h] \in Pages => /\ home2[next[h]] = h /\ prev2[next[h]].to = x
                               /\ rank2[next[h]] \in 0 .. m
    BY <1>1, <1>2, <1>3, <1>5
  <2> QED  BY <1>3, <2>1, <2>2
<1>7. ASSUME NEW x \in Pages, home2[x] # NULL, x # q
      PROVE  /\ \/ next2[x] = home2[x]
                \/ /\ next2[x] \in Pages /\ home2[next2[x]] = home2[x]
                   /\ prev2[next2[x]].to = x /\ rank2[next2[x]] < rank2[x]
             /\ \/ prev2[x].to = home2[x] /\ next2[home2[x]] = x
                \/ /\ prev2[x].to \in Pages /\ home2[prev2[x].to] = home2[x]
                   /\ next2[prev2[x].to] = x
  <2>1. /\ home[x] # NULL /\ home2[x] = home[x] /\ home[x] \in Heads /\ rank2[x] = rank[x]
        /\ next2[x] = next[x]
    BY <1>1, <1>2, <1>7
  <2>2. /\ \/ next[x] = home[x]
           \/ /\ next[x] \in Pages /\ home[next[x]] = home[x]
              /\ prev[next[x]].to = x /\ rank[next[x]] < rank[x]
        /\ \/ prev[x].to = home[x] /\ next[home[x]] = x
           \/ /\ prev[x].to \in Pages /\ home[prev[x].to] = home[x] /\ next[prev[x].to] = x
    BY <2>1 DEF Linked
  <2>3. next[x] \in Pages => /\ next[x] # q /\ next[x] # next[h]
                             /\ prev2[next[x]].to = x /\ home2[next[x]] = home2[x]
                             /\ rank2[next[x]] = rank[next[x]]
    BY <1>1, <1>2, <1>3, <2>1, <2>2
  <2>4. CASE x = next[h]
    <3>1. prev2[x].to = q /\ home[x] = h  BY <1>1, <1>3, <2>1, <2>4
    <3> QED  BY <1>1, <1>2, <2>1, <2>2, <2>3, <3>1
  <2>5. CASE x # next[h]
    <3>1. prev2[x].to = prev[x].to  BY <2>1, <2>5
    <3>2. prev[x].to = home[x] /\ next[home[x]] = x => next2[home[x]] = x  BY <2>1, <2>5
    <3>3. prev[x].to \in Pages => next2[prev[x].to] = next[prev[x].to] /\ home2[prev[x].to] = home2[x]
      BY <1>1, <1>2, <2>1, <2>2
    <3> QED  BY <2>1, <2>2, <2>3, <3>1, <3>2, <3>3
  <2> QED  BY <2>4, <2>5
<1>6. ASSUME NEW g \in Heads
      PROVE  \/ next2[g] = g
             \/ next2[g] \in Pages /\ home2[next2[g]] = g /\ prev2[next2[g]].to = g
  <2>1. next[g] = g \/ (next[g] \in Pages /\ home[next[g]] = g /\ prev[next[g]].to = g)
    BY DEF Linked
  <2>2. CASE g = h  BY <1>1, <1>2, <2>2
  <2>3. CASE g # h
    <3>1. next[g] \in Pages => next[g] # next[h] /\ next[g] # q  BY <1>1, <1>3, <2>1, <2>3
    <3> QED  BY <1>1, <1>2, <2>1, <2>3, <3>1
  <2> QED  BY <2>2, <2>3
<1> QED  BY <1>4, <1>5, <1>6, <1>7 DEF Linked, home2, rank2

(* Nothing changes that belongs to a list.                                 *)
LEMMA ListSame ==
  ASSUME SlabAssumption, NEW next, NEW prev, NEW home \in Homes, NEW rank,
         Linked(next, prev, home, rank),
         NEW next2, NEW prev2,
         \A x \in Heads : next2[x] = next[x],
         \A x \in Pages : home[x] # NULL => next2[x] = next[x] /\ prev2[x].to = prev[x].to
  PROVE  Linked(next2, prev2, home, rank)
<1>1. \A x \in Pages : home[x] \in Heads \cup {NULL}  BY DEF Homes
<1>2. ASSUME NEW x \in Pages, home[x] # NULL
      PROVE  /\ \/ next2[x] = home[x]
                \/ /\ next2[x] \in Pages /\ home[next2[x]] = home[x]
                   /\ prev2[next2[x]].to = x /\ rank[next2[x]] < rank[x]
             /\ \/ prev2[x].to = home[x] /\ next2[home[x]] = x
                \/ /\ prev2[x].to \in Pages /\ home[prev2[x].to] = home[x]
                   /\ next2[prev2[x].to] = x
  <2>1. home[x] \in Heads /\ next2[x] = next[x] /\ prev2[x].to = prev[x].to  BY <1>1, <1>2
  <2>2. /\ \/ next[x] = home[x]
           \/ /\ next[x] \in Pages /\ home[next[x]] = home[x]
              /\ prev[next[x]].to = x /\ rank[next[x]] < rank[x]
        /\ \/ prev[x].to = home[x] /\ next[home[x]] = x
           \/ /\ prev[x].to \in Pages /\ home[prev[x].to] = home[x] /\ next[prev[x].to] = x
    BY <1>2 DEF Linked
  <2>3. next[x] \in Pages /\ home[next[x]] = home[x] => prev2[next[x]].to = prev[next[x]].to
    BY <1>2
  <2>4. prev[x].to \in Pages /\ home[prev[x].to] = home[x] => next2[prev[x].to] = next[prev[x].to]
    BY <1>2
  <2>5. next2[home[x]] = next[home[x]]  BY <2>1
  <2> QED  BY <2>1, <2>2, <2>3, <2>4, <2>5
<1>3. ASSUME NEW h \in Heads
      PROVE  \/ next2[h] = h
             \/ next2[h] \in Pages /\ home[next2[h]] = h /\ prev2[next2[h]].to = h
  <2>1. next[h] = h \/ (next[h] \in Pages /\ home[next[h]] = h /\ prev[next[h]].to = h)
    BY DEF Linked
  <2>2. h # NULL  BY NodesApart
  <2> QED  BY <2>1, <2>2
<1> QED  BY <1>2, <1>3 DEF Linked

-----------------------------------------------------------------------------
(* The entries of the pool and their lists *)

(* What stands in the entry of a page after one step on the list of e.     *)
LEMMA EntryOf ==
  ASSUME NEW e \in Entries
  PROVE  /\ e.slab \in [Pages -> SlabType] /\ e.next \in [Nodes -> Nodes \cup {NULL}]
         /\ e.prev \in [Nodes -> [to : Nodes \cup {NULL}, type : Types]]
         /\ \A x \in Pages : e.slab[x] \in SlabType
         /\ \A x \in Nodes : e.next[x] \in Nodes \cup {NULL} /\ e.prev[x].to \in Nodes \cup {NULL}
                             /\ e.prev[x].type \in Types
                             /\ e.prev[x] = Prev(e.prev[x].to, e.prev[x].type)
BY DEF Entries, Prev

(* The neighbours of a page in a list.                                     *)
LEMMA Neighbours ==
  ASSUME SlabAssumption, NEW e, NEW home, Lists(e, home), NEW p \in Pages, home[p] # NULL
  PROVE  /\ e.next[p] \in Nodes /\ e.prev[p].to \in Nodes /\ home[p] \in Heads
         /\ e.next[p] # p /\ e.prev[p].to # p
         /\ \A x \in {e.next[p], e.prev[p].to} : x = home[p] \/ (x \in Pages /\ home[x] = home[p])
         /\ e.prev[p].type = Kind(home[p])
<1>1. PICK m \in Nat : \E rank \in Ranks(m) : Linked(e.next, e.prev, home, rank)  BY DEF Lists
<1>2. PICK rank \in Ranks(m) : Linked(e.next, e.prev, home, rank)  BY <1>1
<1>3. home[p] \in Heads /\ rank[p] \in Int /\ home[p] # p
  BY NodesApart DEF Lists, Homes, Ranks
<1>4. /\ \/ e.next[p] = home[p]
         \/ /\ e.next[p] \in Pages /\ home[e.next[p]] = home[p]
            /\ e.prev[e.next[p]].to = p /\ rank[e.next[p]] < rank[p]
      /\ \/ e.prev[p].to = home[p] /\ e.next[home[p]] = p
         \/ /\ e.prev[p].to \in Pages /\ home[e.prev[p].to] = home[p] /\ e.next[e.prev[p].to] = p
  BY <1>2 DEF Linked
<1>5. e.next[p] # p  BY <1>3, <1>4
<1> QED  BY <1>3, <1>4, <1>5, NodesApart DEF Lists

LEMMA FirstOfList ==
  ASSUME NEW e, NEW home, Lists(e, home), NEW h \in Heads
  PROVE  e.next[h] = h \/ (e.next[h] \in Pages /\ home[e.next[h]] = h)
BY DEF Lists, Linked

LEMMA ListsSame ==
  ASSUME SlabAssumption, NEW e, NEW home, Lists(e, home), NEW E,
         \A x \in Heads : E.next[x] = e.next[x],
         \A x \in Pages : home[x] # NULL => E.next[x] = e.next[x] /\ E.prev[x] = e.prev[x]
  PROVE  Lists(E, home)
<1>1. PICK m \in Nat : \E rank \in Ranks(m) : Linked(e.next, e.prev, home, rank)  BY DEF Lists
<1>2. PICK rank \in Ranks(m) : Linked(e.next, e.prev, home, rank)  BY <1>1
<1>3. home \in Homes  BY DEF Lists
<1>4. \A x \in Pages : home[x] # NULL => E.next[x] = e.next[x] /\ E.prev[x].to = e.prev[x].to
  OBVIOUS
<1>5. Linked(E.next, E.prev, home, rank)  BY <1>2, <1>3, <1>4, ListSame
<1> QED  BY <1>5 DEF Lists

LEMMA ListsUnlink ==
  ASSUME SlabAssumption, NEW e, NEW home, Lists(e, home), NEW p \in Pages, home[p] # NULL, NEW E,
         \A x \in Heads : E.next[x] = IF x = e.prev[p].to THEN e.next[p] ELSE e.next[x],
         \A x \in Pages : x # p /\ home[x] # NULL =>
           /\ E.next[x] = IF x = e.prev[p].to THEN e.next[p] ELSE e.next[x]
           /\ E.prev[x] = IF x = e.next[p] THEN e.prev[p] ELSE e.prev[x]
  PROVE  Lists(E, [home EXCEPT ![p] = NULL])
<1>1. PICK m \in Nat : \E rank \in Ranks(m) : Linked(e.next, e.prev, home, rank)  BY DEF Lists
<1>2. PICK rank \in Ranks(m) : Linked(e.next, e.prev, home, rank)  BY <1>1
<1>3. home \in Homes  BY DEF Lists
<1>4. TakenOut(e.next, e.prev, home, p, E.next, E.prev)  BY DEF TakenOut
<1>5. Linked(E.next, E.prev, [home EXCEPT ![p] = NULL], rank)  BY <1>2, <1>3, <1>4, ListUnlink
<1>6. [home EXCEPT ![p] = NULL] \in Homes  BY <1>3 DEF Homes
<1>7. ASSUME NEW x \in Pages, [home EXCEPT ![p] = NULL][x] # NULL
      PROVE  E.prev[x].type = Kind([home EXCEPT ![p] = NULL][x])
  <2>1. x # p /\ home[x] # NULL /\ [home EXCEPT ![p] = NULL][x] = home[x]  BY <1>3, <1>7 DEF Homes
  <2>2. e.prev[x].type = Kind(home[x])  BY <2>1 DEF Lists
  <2>3. x = e.next[p] => home[x] = home[p] /\ e.prev[p].type = Kind(home[p])
    BY Neighbours, NodesApart
  <2> QED  BY <2>1, <2>2, <2>3
<1> QED  BY <1>5, <1>6, <1>7 DEF Lists

LEMMA ListsReplace ==
  ASSUME SlabAssumption, NEW e, NEW home, Lists(e, home), NEW p \in Pages, home[p] # NULL,
         NEW q \in Pages, home[q] = NULL, NEW E,
         \A x \in Heads : E.next[x] = IF x = e.prev[p].to THEN q ELSE e.next[x],
         \A x \in Pages : x # p /\ home[x] # NULL =>
           /\ E.next[x] = IF x = e.prev[p].to THEN q ELSE e.next[x]
           /\ E.prev[x] = IF x = e.next[p] THEN Prev(q, Kind(home[p])) ELSE e.prev[x],
         E.next[q] = e.next[p], E.prev[q] = e.prev[p]
  PROVE  Lists(E, [home EXCEPT ![p] = NULL, ![q] = home[p]])
<1>1. PICK m \in Nat : \E rank \in Ranks(m) : Linked(e.next, e.prev, home, rank)  BY DEF Lists
<1>2. PICK rank \in Ranks(m) : Linked(e.next, e.prev, home, rank)  BY <1>1
<1> DEFINE home2 == [home EXCEPT ![p] = NULL, ![q] = home[p]]
           rank2 == [rank EXCEPT ![q] = rank[p]]
<1>3. home \in Homes  BY DEF Lists
<1>4. PutFor(e.next, e.prev, home, p, q, E.next, E.prev)  BY DEF PutFor, Prev
<1>5. Linked(E.next, E.prev, home2, rank2)  BY <1>2, <1>3, <1>4, ListReplace
<1>6. home2 \in Homes /\ rank2 \in Ranks(m)  BY <1>3 DEF Homes, Ranks
<1>7. ASSUME NEW x \in Pages, home2[x] # NULL
      PROVE  E.prev[x].type = Kind(home2[x])
  <2>1. CASE x = q
    <3>1. home2[x] = home[p]  BY <1>3, <2>1 DEF Homes
    <3> QED  BY <2>1, <3>1 DEF Lists
  <2>2. CASE x # q
    <3>1. x # p /\ home[x] # NULL /\ home2[x] = home[x]  BY <1>3, <1>7, <2>2 DEF Homes
    <3>2. e.prev[x].type = Kind(home[x])  BY <3>1 DEF Lists
    <3>3. x = e.next[p] => home[x] = home[p]
      BY Neighbours, NodesApart
    <3> QED  BY <3>1, <3>2, <3>3 DEF Prev
  <2> QED  BY <2>1, <2>2
<1> QED  BY <1>5, <1>6, <1>7 DEF Lists

Inserted(e, home, h, q, E) ==
  /\ \A x \in Heads : E.next[x] = IF x = h THEN q ELSE e.next[x]
  /\ \A x \in Pages : home[x] # NULL =>
       /\ E.next[x] = e.next[x]
       /\ E.prev[x] = IF x = e.next[h] THEN Prev(q, Kind(h)) ELSE e.prev[x]
  /\ E.next[q] = e.next[h] /\ E.prev[q] = Prev(h, Kind(h))

LEMMA ListsInsert ==
  ASSUME SlabAssumption, NEW e, NEW home, Lists(e, home), NEW h \in Heads,
         NEW q \in Pages, home[q] = NULL, NEW E, Inserted(e, home, h, q, E)
  PROVE  Lists(E, [home EXCEPT ![q] = h])
<1>0. /\ \A x \in Heads : E.next[x] = IF x = h THEN q ELSE e.next[x]
      /\ \A x \in Pages : home[x] # NULL =>
           /\ E.next[x] = e.next[x]
           /\ E.prev[x] = IF x = e.next[h] THEN Prev(q, Kind(h)) ELSE e.prev[x]
      /\ E.next[q] = e.next[h] /\ E.prev[q] = Prev(h, Kind(h))
  BY DEF Inserted
<1> USE <1>0
<1>1. PICK m \in Nat : \E rank \in Ranks(m) : Linked(e.next, e.prev, home, rank)  BY DEF Lists
<1>2. PICK rank \in Ranks(m) : Linked(e.next, e.prev, home, rank)  BY <1>1
<1> DEFINE home2 == [home EXCEPT ![q] = h]
           rank2 == [rank EXCEPT ![q] = m + 1]
<1>3. home \in Homes  BY DEF Lists
<1>4. PutFirst(e.next, e.prev, home, h, q, E.next, E.prev)  BY DEF PutFirst, Prev
<1>5. Linked(E.next, E.prev, home2, rank2) /\ rank2 \in Ranks(m + 1)
  BY <1>2, <1>3, <1>4, ListInsert
<1>6. home2 \in Homes /\ m + 1 \in Nat  BY <1>3 DEF Homes
<1>7. ASSUME NEW x \in Pages, home2[x] # NULL
      PROVE  E.prev[x].type = Kind(home2[x])
  <2>1. CASE x = q
    <3>1. home2[x] = h  BY <1>3, <2>1 DEF Homes
    <3> QED  BY <2>1, <3>1 DEF Prev
  <2>2. CASE x # q
    <3>1. home[x] # NULL /\ home2[x] = home[x]  BY <1>3, <1>7, <2>2 DEF Homes
    <3>2. e.prev[x].type = Kind(home[x])  BY <3>1 DEF Lists
    <3>3. x = e.next[h] => home[x] = h
      BY FirstOfList, NodesApart
    <3> QED  BY <3>1, <3>2, <3>3 DEF Prev
  <2> QED  BY <2>1, <2>2
<1> QED  BY <1>5, <1>6, <1>7 DEF Lists

-----------------------------------------------------------------------------
(* What the calls on runs and lists do *)

LEMMA UnlinkedIs ==
  ASSUME NEW e \in Entries, NEW p \in Pages, e.next[p] \in Nodes, e.prev[p].to \in Nodes
  PROVE  /\ Unlinked(e, p) \in Entries /\ Unlinked(e, p).slab = e.slab
         /\ \A x \in Nodes :
              /\ Unlinked(e, p).next[x] = IF x = e.prev[p].to THEN e.next[p] ELSE e.next[x]
              /\ Unlinked(e, p).prev[x] = IF x = e.next[p] THEN e.prev[p] ELSE e.prev[x]
<1>1. p \in Nodes  BY DEF Nodes
<1>2. /\ e.next \in [Nodes -> Nodes \cup {NULL}] /\ e.prev \in [Nodes -> [to : Nodes \cup {NULL}, type : Types]]
      /\ e = [slab |-> e.slab, next |-> e.next, prev |-> e.prev] /\ e.slab \in [Pages -> SlabType]
  BY DEF Entries
<1>3. Unlinked(e, p) = [slab |-> e.slab, next |-> [e.next EXCEPT ![e.prev[p].to] = e.next[p]],
                        prev |-> [e.prev EXCEPT ![e.next[p]] = e.prev[p]]]
  <2> SUFFICES ASSUME NEW U, U = Unlinked(e, p)
               PROVE  U = [slab |-> e.slab, next |-> [e.next EXCEPT ![e.prev[p].to] = e.next[p]],
                           prev |-> [e.prev EXCEPT ![e.next[p]] = e.prev[p]]]
    OBVIOUS
  <2> QED  BY <1>2 DEF Unlinked
<1>4. /\ [e.next EXCEPT ![e.prev[p].to] = e.next[p]] \in [Nodes -> Nodes \cup {NULL}]
      /\ [e.prev EXCEPT ![e.next[p]] = e.prev[p]] \in [Nodes -> [to : Nodes \cup {NULL}, type : Types]]
  BY <1>1, <1>2
<1> QED  BY <1>2, <1>3, <1>4 DEF Entries

LEMMA SlotIs ==
  ASSUME SlabAssumption, NEW s \in Shifts
  PROVE  Slot(s) \in Heads /\ Slot(s) # Free /\ Slot(s) \in Slots /\ Kind(Slot(s)) = TypeFor(s)
<1>1. s \in Int /\ min_shift \in Nat /\ page_shift \in Nat /\ N \in Nat /\ s >= min_shift
  BY DEF SlabAssumption, Shifts
<1>2. Slot(s) \in Slots  BY DEF Slots, Shifts
<1>3. Slot(s) # Free /\ Slot(s) - N - 1 + min_shift = s  BY <1>1 DEF Slot, Free
<1> QED  BY <1>2, <1>3 DEF Heads, Kind

LEMMA SlotTypes ==
  ASSUME NEW s
  PROVE  TypeFor(s) \in Types /\ TypeFor(s) # "page"
BY DEF TypeFor, Types

(* The run that is over takes the place of the one that was found.         *)
LEMMA SlabOf ==
  ASSUME NEW n, NEW mark, NEW map, NEW v, v = Slab(n, mark, map)
  PROVE  v.n = n /\ v.mark = mark /\ v.map = map
BY DEF Slab

LEMMA ZeroOf ==
  ASSUME NEW v, v = Slab(0, "", {})
  PROVE  v.n = 0
BY DEF Slab

LEMMA PrevOf ==
  ASSUME NEW to, NEW type, NEW v, v = Prev(to, type)
  PROVE  v.to = to /\ v.type = type
BY DEF Prev

(* The first k of the m pages of a free run are handed out: the homes and  *)
(* the entries then.                                                       *)
Allocatable(e, home, page, m, k) ==
  /\ \A x \in Pages : home[x] = NULL => e.next[x] = NULL
  /\ page \in Pages /\ home[page] = Free /\ m = e.slab[page].n /\ k <= m /\ page + m <= N
  /\ \A x \in page + 1 .. page + m - 1 : home[x] = NULL /\ e.prev[x].type = "page"

HomesAllocated(home, page, m, k) ==
  [x \in Pages |-> IF x = page THEN NULL
                   ELSE IF x = page + k /\ m > k THEN Free ELSE home[x]]

Allocated(e, page, m, k, home2, E) ==
  /\ E \in Entries /\ Lists(E, home2)
  /\ \A x \in Pages : home2[x] = NULL => E.next[x] = NULL
  /\ \A x \in Pages :
       /\ E.prev[x].type = e.prev[x].type
       /\ E.slab[x] = IF x = page THEN Slab(k, "start", {})
                      ELSE IF x \in page + 1 .. page + k - 1 THEN Slab(0, "busy", {})
                      ELSE IF x = page + k /\ m > k
                      THEN Slab(m - k, "", {}) ELSE e.slab[x]
  /\ \A h \in Slots : E.next[h] = e.next[h]

LEMMA PagesAllocated ==
  ASSUME SlabAssumption, NEW e \in Entries, NEW home, Lists(e, home), NEW k \in Nat \ {0},
         NEW page, NEW m, Allocatable(e, home, page, m, k),
         NEW E, E = slab_alloc_pages(e, page, k),
         NEW home2, home2 = HomesAllocated(home, page, m, k)
  PROVE  Allocated(e, page, m, k, home2, E)
<1>a. /\ \A x \in Pages : home[x] = NULL => e.next[x] = NULL
      /\ page \in Pages /\ home[page] = Free
      /\ k <= e.slab[page].n /\ page + e.slab[page].n <= N
      /\ \A x \in page + 1 .. page + e.slab[page].n - 1 :
           home[x] = NULL /\ e.prev[x].type = "page"
      /\ home2 = [x \in Pages |->
           IF x = page THEN NULL
           ELSE IF x = page + k /\ e.slab[page].n > k THEN Free ELSE home[x]]
  BY DEF Allocatable, HomesAllocated
<1>b. SUFFICES /\ E \in Entries /\ Lists(E, home2)
               /\ \A x \in Pages : home2[x] = NULL => E.next[x] = NULL
               /\ \A x \in Pages :
                    /\ E.prev[x].type = e.prev[x].type
                    /\ E.slab[x] = IF x = page THEN Slab(k, "start", {})
                                   ELSE IF x \in page + 1 .. page + k - 1 THEN Slab(0, "busy", {})
                                   ELSE IF x = page + k /\ e.slab[page].n > k
                                   THEN Slab(e.slab[page].n - k, "", {}) ELSE e.slab[x]
               /\ \A h \in Slots : E.next[h] = e.next[h]
  BY DEF Allocated, Allocatable
<1> USE <1>a
<1> DEFINE n == e.slab[page].n
           rest == page + k
           a == e.prev[page].to
           b == e.next[page]
<1>0. e.slab[page] \in SlabType /\ page_shift \in Nat
  BY EntryOf DEF SlabAssumption
<1>1. N \in Nat \ {0} /\ page \in 0 .. N - 1 /\ n \in Nat /\ n <= N + page_shift /\ page_shift \in Nat
  <2>1. n \in 0 .. N + page_shift  BY <1>0 DEF SlabType
  <2>2. N \in Nat \ {0} /\ page \in 0 .. N - 1  BY NodesApart DEF Pages
  <2> QED  BY <1>0, <2>1, <2>2
<1>2. /\ a \in Nodes /\ b \in Nodes /\ a # page /\ b # page
      /\ \A x \in {a, b} : x = Free \/ (x \in Pages /\ home[x] = Free)
      /\ e.prev[page].type = "page"
  <2>1. home[page] # NULL /\ Kind(home[page]) = "page"  BY NodesApart DEF Heads, Kind
  <2> QED  BY <2>1, Neighbours
<1>3. /\ e.next \in [Nodes -> Nodes \cup {NULL}] /\ e.prev \in [Nodes -> [to : Nodes \cup {NULL}, type : Types]]
      /\ e.slab \in [Pages -> SlabType]
      /\ e = [slab |-> e.slab, next |-> e.next, prev |-> e.prev]
  BY DEF Entries
<1>4. Pages \subseteq Nodes /\ Free \in Nodes /\ Slots \subseteq Nodes /\ Free \notin Pages /\ NULL # Free
      /\ NULL \notin Pages /\ Slots \cap Pages = {} /\ Heads \subseteq Nodes
      /\ Heads \cap Pages = {} /\ Slots \subseteq Heads /\ Free \in Heads
  BY NodesApart DEF Heads
<1>5. Slab(0, "busy", {}) \in SlabType /\ Slab(k, "start", {}) \in SlabType
  BY <1>1 DEF Slab, SlabType
<1>6. "page" \in Types  BY DEF Types
<1>7. \A x \in Pages : home[x] # NULL => x = page \/ x \notin page .. page + n - 1
  BY <1>1
<1>f. Free \notin Slots
  BY SlotIs DEF Slots, Shifts
<1>8. \A h \in Slots : a # h /\ b # h  BY <1>2, <1>4, <1>f
<1> DEFINE U == IF n > k
                THEN [e EXCEPT !.slab[rest] = Slab(n - k, "", {}),
                               !.next[rest] = e.next[page], !.prev[rest] = e.prev[page],
                               !.next[e.prev[page].to] = rest,
                               !.prev[e.next[page]] = Prev(rest, "page")]
                ELSE Unlinked(e, page)
<1>9. E = [slab |-> [p \in Pages |-> IF p = page THEN Slab(k, "start", {})
                                     ELSE IF p \in page + 1 .. page + k - 1 THEN Slab(0, "busy", {})
                                     ELSE U.slab[p]],
           next |-> [x \in Nodes |-> IF x \in page .. page + k - 1 THEN NULL ELSE U.next[x]],
           prev |-> [x \in Nodes |-> IF x \in page .. page + k - 1 THEN Prev(NULL, "page")
                                     ELSE U.prev[x]]]
  BY DEF slab_alloc_pages
<1> HIDE DEF U
<1>10. U \in Entries => E \in Entries
  <2> SUFFICES ASSUME U \in Entries PROVE E \in Entries
    OBVIOUS
  <2>1. Prev(NULL, "page") \in [to : Nodes \cup {NULL}, type : Types]  BY <1>6 DEF Prev
  <2> QED  BY <1>5, <1>9, <2>1, EntryOf DEF Entries
<1>11. \A x \in Nodes : /\ E.next[x] = IF x \in page .. page + k - 1 THEN NULL ELSE U.next[x]
                        /\ E.prev[x] = IF x \in page .. page + k - 1 THEN Prev(NULL, "page")
                                       ELSE U.prev[x]
  BY <1>9
<1>12. \A x \in Pages : E.slab[x] = IF x = page THEN Slab(k, "start", {})
                                    ELSE IF x \in page + 1 .. page + k - 1 THEN Slab(0, "busy", {})
                                    ELSE U.slab[x]
  BY <1>9
<1>13. CASE n > k
  <2>1. rest \in Pages /\ rest # page /\ home[rest] = NULL /\ e.prev[rest].type = "page"
        /\ rest \in Nodes /\ rest # a /\ rest # b /\ rest \in page + 1 .. page + n - 1
    <3>1. rest \in page + 1 .. page + n - 1 /\ rest \in Pages  BY <1>1, <1>13 DEF Pages
    <3> QED  BY <1>1, <1>2, <1>4, <3>1
  <2>2. U = [slab |-> [e.slab EXCEPT ![rest] = Slab(n - k, "", {})],
             next |-> [e.next EXCEPT ![rest] = b, ![a] = rest],
             prev |-> [e.prev EXCEPT ![rest] = e.prev[page], ![b] = Prev(rest, "page")]]
    BY <1>3, <1>13 DEF U
  <2>3. Slab(n - k, "", {}) \in SlabType  BY <1>1, <1>13 DEF Slab, SlabType
  <2>4. Prev(rest, "page") \in [to : Nodes \cup {NULL}, type : Types]
        /\ e.prev[page] \in [to : Nodes \cup {NULL}, type : Types]
    BY <1>3, <1>4, <1>6, <2>1 DEF Prev
  <2>5. U \in Entries
    BY <1>2, <1>3, <2>1, <2>2, <2>3, <2>4 DEF Entries
  <2>6. \A x \in Nodes : /\ U.next[x] = IF x = a THEN rest ELSE IF x = rest THEN b ELSE e.next[x]
                         /\ U.prev[x] = IF x = b THEN Prev(rest, "page")
                                        ELSE IF x = rest THEN e.prev[page] ELSE e.prev[x]
    BY <1>2, <1>3, <2>1, <2>2
  <2>7. \A x \in Pages : U.slab[x] = IF x = rest THEN Slab(n - k, "", {}) ELSE e.slab[x]
    BY <1>3, <2>1, <2>2
  <2>8. rest \notin page .. page + k - 1  BY <1>1
  <2>9. home2 = [home EXCEPT ![page] = NULL, ![rest] = home[page]]
    BY <1>13, <2>1 DEF Lists, Homes
  <2>10. \A x \in page .. page + k - 1 : x = page \/ (x \in Pages /\ home[x] = NULL /\ e.prev[x].type = "page")
    <3> TAKE x \in page .. page + k - 1
    <3>1. x \in Pages /\ (x = page \/ x \in page + 1 .. page + n - 1)  BY <1>1, <1>13 DEF Pages
    <3> QED  BY <3>1
  <2>11. Lists(E, home2)
    <3>1. \A x \in Heads : x \notin page .. page + k - 1 /\ x # rest /\ x \in Nodes
      BY <1>4, <2>1, <2>10
    <3>2. \A x \in Heads : E.next[x] = IF x = a THEN rest ELSE e.next[x]
      BY <1>11, <2>6, <3>1
    <3>3. \A x \in Pages : x # page /\ home[x] # NULL =>
            /\ x \notin page .. page + k - 1 /\ x # rest /\ x \in Nodes
      BY <1>4, <2>1, <2>10
    <3>4. \A x \in Pages : x # page /\ home[x] # NULL =>
            /\ E.next[x] = IF x = a THEN rest ELSE e.next[x]
            /\ E.prev[x] = IF x = b THEN Prev(rest, Kind(home[page])) ELSE e.prev[x]
      BY <1>11, <2>6, <3>3 DEF Kind
    <3>5. E.next[rest] = b /\ E.prev[rest] = e.prev[page]
      BY <1>11, <2>1, <2>6, <2>8
    <3> QED  BY <1>4, <2>1, <2>9, <3>2, <3>4, <3>5, ListsReplace
  <2>12. \A x \in Pages : home2[x] = NULL => E.next[x] = NULL
    <3> SUFFICES ASSUME NEW x \in Pages, home2[x] = NULL PROVE E.next[x] = NULL
      OBVIOUS
    <3>1. CASE x \in page .. page + k - 1  BY <1>4, <1>11, <3>1
    <3>2. CASE x \notin page .. page + k - 1
      <4>1. page \in page .. page + k - 1  BY <1>1
      <4>2. x # page /\ x # rest  BY <1>4, <1>13, <3>2, <4>1
      <4>3. home[x] = NULL /\ x # a  BY <1>2, <1>4, <4>2
      <4> QED  BY <1>4, <1>11, <2>6, <3>2, <4>2, <4>3
    <3> QED  BY <3>1, <3>2
  <2>13. \A x \in Pages : E.prev[x].type = e.prev[x].type
    <3> TAKE x \in Pages
    <3>1. CASE x \in page .. page + k - 1  BY <1>2, <1>4, <1>11, <2>10, <3>1 DEF Prev
    <3>2. CASE x \notin page .. page + k - 1
      <4>1. x = b => e.prev[x].type = "page"
        BY <1>2, <1>4 DEF Lists, Kind
      <4> QED  BY <1>2, <1>4, <1>11, <2>1, <2>6, <3>2, <4>1 DEF Prev
    <3> QED  BY <3>1, <3>2
  <2>14. \A h \in Slots : E.next[h] = e.next[h]
    <3>1. \A h \in Slots : h \notin page .. page + k - 1 /\ h # rest /\ h \in Nodes /\ h # a
      BY <1>4, <1>8, <2>1, <2>10
    <3> QED  BY <1>11, <2>6, <3>1
  <2>15. \A x \in Pages : E.slab[x] = IF x = page THEN Slab(k, "start", {})
                             ELSE IF x \in page + 1 .. page + k - 1 THEN Slab(0, "busy", {})
                             ELSE IF x = page + k /\ e.slab[page].n > k
                             THEN Slab(e.slab[page].n - k, "", {}) ELSE e.slab[x]
    BY <1>12, <1>13, <2>7
  <2> QED  BY <1>10, <2>5, <2>11, <2>12, <2>13, <2>14, <2>15
<1>14. CASE ~(n > k)
  <2>0. n = k  BY <1>1, <1>14
  <2>1. U = Unlinked(e, page)  BY <1>14 DEF U
  <2>2. /\ U \in Entries /\ U.slab = e.slab
        /\ \A x \in Nodes : /\ U.next[x] = IF x = a THEN b ELSE e.next[x]
                            /\ U.prev[x] = IF x = b THEN e.prev[page] ELSE e.prev[x]
    BY <1>2, <2>1, UnlinkedIs
  <2>9. home2 = [home EXCEPT ![page] = NULL]
    BY <1>14 DEF Lists, Homes
  <2>10. \A x \in page .. page + k - 1 : x = page \/ (x \in Pages /\ home[x] = NULL /\ e.prev[x].type = "page")
    BY <1>1, <2>0 DEF Pages
  <2>11. Lists(E, home2)
    <3>1. \A x \in Heads : x \notin page .. page + k - 1 /\ x \in Nodes
      BY <1>4, <2>10
    <3>2. \A x \in Heads : E.next[x] = IF x = a THEN b ELSE e.next[x]
      BY <1>11, <2>2, <3>1
    <3>3. \A x \in Pages : x # page /\ home[x] # NULL =>
            /\ x \notin page .. page + k - 1 /\ x \in Nodes
      BY <1>4, <2>10
    <3>4. \A x \in Pages : x # page /\ home[x] # NULL =>
            /\ E.next[x] = IF x = a THEN b ELSE e.next[x]
            /\ E.prev[x] = IF x = b THEN e.prev[page] ELSE e.prev[x]
      BY <1>11, <2>2, <3>3
    <3> QED  BY <1>4, <2>9, <3>2, <3>4, ListsUnlink
  <2>12. \A x \in Pages : home2[x] = NULL => E.next[x] = NULL
    <3> SUFFICES ASSUME NEW x \in Pages, home2[x] = NULL PROVE E.next[x] = NULL
      OBVIOUS
    <3>1. CASE x \in page .. page + k - 1  BY <1>4, <1>11, <3>1
    <3>2. CASE x \notin page .. page + k - 1
      <4>1. page \in page .. page + k - 1  BY <1>1
      <4>2. home[x] = NULL /\ x # a  BY <1>2, <1>4, <1>14, <3>2, <4>1
      <4> QED  BY <1>4, <1>11, <2>2, <3>2, <4>2
    <3> QED  BY <3>1, <3>2
  <2>13. \A x \in Pages : E.prev[x].type = e.prev[x].type
    <3> TAKE x \in Pages
    <3>1. CASE x \in page .. page + k - 1  BY <1>2, <1>4, <1>11, <2>10, <3>1 DEF Prev
    <3>2. CASE x \notin page .. page + k - 1
      <4>1. x = b => e.prev[x].type = "page"
        BY <1>2, <1>4 DEF Lists, Kind
      <4> QED  BY <1>2, <1>4, <1>11, <2>2, <3>2, <4>1 DEF Prev
    <3> QED  BY <3>1, <3>2
  <2>14. \A h \in Slots : E.next[h] = e.next[h]
    <3>1. \A h \in Slots : h \notin page .. page + k - 1 /\ h \in Nodes /\ h # a
      BY <1>4, <1>8, <2>10
    <3> QED  BY <1>11, <2>2, <3>1
  <2>15. \A x \in Pages : E.slab[x] = IF x = page THEN Slab(k, "start", {})
                             ELSE IF x \in page + 1 .. page + k - 1 THEN Slab(0, "busy", {})
                             ELSE IF x = page + k /\ e.slab[page].n > k
                             THEN Slab(e.slab[page].n - k, "", {}) ELSE e.slab[x]
    BY <1>12, <1>14, <2>2
  <2> QED  BY <1>10, <2>2, <2>11, <2>12, <2>13, <2>14, <2>15
<1> QED  BY <1>13, <1>14

(* The run comes first in the list of free runs.                           *)
Freeable(e, home, page, k) ==
  /\ \A x \in Pages : home[x] = NULL => e.next[x] = NULL
  /\ page \in Pages /\ page + k <= N
  /\ \A x \in page + 1 .. page + k - 1 : home[x] = NULL

Freed(e, home, page, k, E) ==
  /\ E \in Entries /\ Lists(E, [home EXCEPT ![page] = Free])
  /\ \A x \in Pages : x # page /\ home[x] = NULL => E.next[x] = NULL
  /\ \A x \in Pages :
       /\ E.prev[x].type = IF x \in page .. page + k - 1 THEN "page" ELSE e.prev[x].type
       /\ E.slab[x] = IF x = page THEN Slab(k, "", {})
                      ELSE IF x \in page + 1 .. page + k - 1 THEN Slab(0, "", {})
                      ELSE e.slab[x]

LEMMA PagesFreed ==
  ASSUME SlabAssumption, NEW e \in Entries, NEW home, Lists(e, home), NEW k \in Nat \ {0},
         NEW page, Freeable(e, home, page, k), NEW E, E = slab_free_pages(e, page, k)
  PROVE  Freed(e, home, page, k, E)
<1> DEFINE home2 == [home EXCEPT ![page] = Free]
<1>a. /\ \A x \in Pages : home[x] = NULL => e.next[x] = NULL
      /\ page \in Pages /\ page + k <= N
      /\ \A x \in page + 1 .. page + k - 1 : home[x] = NULL
  BY DEF Freeable
<1>b. home \in Homes /\ \A x \in Pages : home2[x] = IF x = page THEN Free ELSE home[x]
  BY <1>a DEF Lists, Homes
<1>c. SUFFICES /\ E \in Entries /\ Lists(E, home2)
               /\ \A x \in Pages : home2[x] = NULL => E.next[x] = NULL
               /\ \A x \in Pages :
                    /\ E.prev[x].type = IF x \in page .. page + k - 1 THEN "page" ELSE e.prev[x].type
                    /\ E.slab[x] = IF x = page THEN Slab(k, "", {})
                                   ELSE IF x \in page + 1 .. page + k - 1 THEN Slab(0, "", {})
                                   ELSE e.slab[x]
  BY <1>b DEF Freed
<1> USE <1>a
<1> DEFINE U == IF e.next[page] # NULL THEN Unlinked(e, page) ELSE e
           V == [slab |-> [p \in Pages |-> IF p = page THEN Slab(k, "", {})
                                           ELSE IF p \in page + 1 .. page + k - 1 THEN Slab(0, "", {})
                                           ELSE U.slab[p]],
                 next |-> [x \in Nodes |-> IF x \in page + 1 .. page + k - 1 THEN NULL ELSE U.next[x]],
                 prev |-> [x \in Nodes |-> IF x \in page + 1 .. page + k - 1 THEN Prev(NULL, "page")
                                           ELSE U.prev[x]]]
           home1 == [home EXCEPT ![page] = NULL]
           inner == page + 1 .. page + k - 1
<1>1. N \in Nat \ {0} /\ page \in 0 .. N - 1 /\ page \notin inner /\ inner \subseteq Pages
      /\ page .. page + k - 1 = {page} \cup inner
  BY NodesApart DEF Pages
<1>2. Pages \subseteq Nodes /\ Free \in Nodes /\ Slots \subseteq Nodes /\ Free \notin Pages /\ NULL # Free
      /\ NULL \notin Pages /\ Slots \cap Pages = {} /\ Heads \subseteq Nodes /\ NULL \notin Heads
      /\ Heads \cap Pages = {} /\ Slots \subseteq Heads /\ Free \in Heads /\ NULL \notin Nodes
  BY NodesApart DEF Heads
<1>3. "page" \in Types /\ Kind(Free) = "page"  BY DEF Types, Kind
<1>4. home \in Homes /\ home1 \in Homes
      /\ \A x \in Pages : /\ home1[x] = IF x = page THEN NULL ELSE home[x]
                          /\ home2[x] = IF x = page THEN Free ELSE home[x]
  BY <1>2 DEF Lists, Homes
<1>5. E = [V EXCEPT !.prev[page] = Prev(Free, "page"), !.next[page] = V.next[Free],
                    !.prev[V.next[Free]] = Prev(page, "page"), !.next[Free] = page]
  BY DEF slab_free_pages
<1>6. /\ U \in Entries /\ U.slab = e.slab /\ Lists(U, home1)
      /\ \A x \in Pages : home1[x] = NULL /\ x # page => U.next[x] = NULL
      /\ \A x \in Pages : U.prev[x].type = e.prev[x].type
  <2>1. CASE home[page] = NULL
    <3>1. U = e  BY <2>1
    <3>2. home1 = home  BY <1>4, <2>1 DEF Homes
    <3> QED  BY <1>4, <3>1, <3>2
  <2>2. CASE home[page] # NULL
    <3> DEFINE a == e.prev[page].to
               b == e.next[page]
    <3>1. /\ a \in Nodes /\ b \in Nodes /\ a # page /\ b # page
          /\ \A x \in {a, b} : x = home[page] \/ (x \in Pages /\ home[x] = home[page])
          /\ e.prev[page].type = Kind(home[page]) /\ home[page] \in Heads
      BY <2>2, Neighbours
    <3>2. U = Unlinked(e, page)  BY <1>2, <3>1
    <3> HIDE DEF U
    <3>3. /\ U \in Entries /\ U.slab = e.slab
          /\ \A x \in Nodes : /\ U.next[x] = IF x = a THEN b ELSE e.next[x]
                              /\ U.prev[x] = IF x = b THEN e.prev[page] ELSE e.prev[x]
      BY <3>1, <3>2, UnlinkedIs
    <3>4. \A x \in Heads : U.next[x] = IF x = e.prev[page].to THEN e.next[page] ELSE e.next[x]
      BY <1>2, <3>3
    <3>5. \A x \in Pages : x # page /\ home[x] # NULL =>
            /\ U.next[x] = IF x = e.prev[page].to THEN e.next[page] ELSE e.next[x]
            /\ U.prev[x] = IF x = e.next[page] THEN e.prev[page] ELSE e.prev[x]
      BY <1>2, <3>3
    <3>6. Lists(U, home1)  BY <2>2, <3>4, <3>5, ListsUnlink
    <3>7. \A x \in Pages : home1[x] = NULL /\ x # page => U.next[x] = NULL
      BY <1>2, <1>4, <2>2, <3>1, <3>3
    <3>8. \A x \in Pages : U.prev[x].type = e.prev[x].type
      <4> TAKE x \in Pages
      <4>1. x = b => e.prev[x].type = Kind(home[page])  BY <1>2, <2>2, <3>1 DEF Lists
      <4> QED  BY <1>2, <3>1, <3>3, <4>1
    <3> QED  BY <3>3, <3>6, <3>7, <3>8
  <2> QED  BY <2>1, <2>2
<1> HIDE DEF U
<1>7. /\ Slab(k, "", {}) \in SlabType /\ Slab(0, "", {}) \in SlabType
      /\ Prev(NULL, "page") \in [to : Nodes \cup {NULL}, type : Types]
      /\ Prev(Free, "page") \in [to : Nodes \cup {NULL}, type : Types]
      /\ Prev(page, "page") \in [to : Nodes \cup {NULL}, type : Types]
  BY <1>1, <1>2, <1>3 DEF Slab, SlabType, Prev, SlabAssumption
<1>8. V \in Entries
  BY <1>6, <1>7, EntryOf DEF Entries
<1>9. /\ \A x \in Nodes : /\ V.next[x] = IF x \in inner THEN NULL ELSE U.next[x]
                          /\ V.prev[x] = IF x \in inner THEN Prev(NULL, "page") ELSE U.prev[x]
      /\ \A x \in Pages : V.slab[x] = IF x = page THEN Slab(k, "", {})
                                      ELSE IF x \in inner THEN Slab(0, "", {}) ELSE U.slab[x]
  OBVIOUS
<1> HIDE DEF V, inner, home1
<1>10. Lists(V, home1)
  <2>1. \A x \in Heads : x \notin inner /\ x \in Nodes  BY <1>1, <1>2
  <2>2. \A x \in Pages : home1[x] # NULL => x \notin inner /\ x \in Nodes
    BY <1>1, <1>2, <1>4 DEF inner
  <2>3. \A x \in Heads : V.next[x] = U.next[x]  BY <1>9, <2>1
  <2>4. \A x \in Pages : home1[x] # NULL => V.next[x] = U.next[x] /\ V.prev[x] = U.prev[x]
    BY <1>9, <2>2
  <2> QED  BY <1>6, <2>3, <2>4, ListsSame
<1> DEFINE f == V.next[Free]
<1>11. f \in Nodes /\ f # page /\ (f = Free \/ (f \in Pages /\ home1[f] = Free))
  BY <1>2, <1>4, <1>10, FirstOfList
<1>12. E = [slab |-> V.slab, next |-> [V.next EXCEPT ![page] = f, ![Free] = page],
            prev |-> [V.prev EXCEPT ![page] = Prev(Free, "page"), ![f] = Prev(page, "page")]]
  BY <1>5, <1>8 DEF Entries
<1> HIDE DEF f
<1>13. /\ V.next \in [Nodes -> Nodes \cup {NULL}]
       /\ V.prev \in [Nodes -> [to : Nodes \cup {NULL}, type : Types]] /\ V.slab \in [Pages -> SlabType]
  BY <1>8 DEF Entries
<1>14. /\ \A x \in Nodes : /\ E.next[x] = IF x = Free THEN page ELSE IF x = page THEN f ELSE V.next[x]
                           /\ E.prev[x] = IF x = f THEN Prev(page, "page")
                                          ELSE IF x = page THEN Prev(Free, "page") ELSE V.prev[x]
       /\ E.slab = V.slab
  BY <1>2, <1>11, <1>12, <1>13
<1>15. E \in Entries
  <2>1. [V.next EXCEPT ![page] = f, ![Free] = page] \in [Nodes -> Nodes \cup {NULL}]
    BY <1>2, <1>11, <1>13
  <2>2. [V.prev EXCEPT ![page] = Prev(Free, "page"), ![f] = Prev(page, "page")]
          \in [Nodes -> [to : Nodes \cup {NULL}, type : Types]]
    BY <1>2, <1>7, <1>11, <1>13
  <2> QED  BY <1>12, <1>13, <2>1, <2>2 DEF Entries
<1>16. Lists(E, home2)
  <2>1. \A x \in Heads : E.next[x] = IF x = Free THEN page ELSE V.next[x]
    BY <1>2, <1>14
  <2>2. \A x \in Pages : home1[x] # NULL =>
          /\ E.next[x] = V.next[x]
          /\ E.prev[x] = IF x = V.next[Free] THEN Prev(page, Kind(Free)) ELSE V.prev[x]
    BY <1>2, <1>3, <1>4, <1>14 DEF f
  <2>3. E.next[page] = V.next[Free] /\ E.prev[page] = Prev(Free, Kind(Free))
    BY <1>2, <1>3, <1>11, <1>14 DEF f
  <2>4. home1[page] = NULL  BY <1>4
  <2>5. home2 = [home1 EXCEPT ![page] = Free]  BY <1>4 DEF home1, Homes
  <2>6. Inserted(V, home1, Free, page, E)  BY <2>1, <2>2, <2>3 DEF Inserted
  <2>7. Lists(E, [home1 EXCEPT ![page] = Free])  BY <1>2, <1>10, <2>4, <2>6, ListsInsert
  <2> QED  BY <2>5, <2>7
<1>17. \A x \in Pages : home2[x] = NULL => E.next[x] = NULL
  <2> SUFFICES ASSUME NEW x \in Pages, home2[x] = NULL PROVE E.next[x] = NULL
    OBVIOUS
  <2>1. x # page /\ home1[x] = NULL /\ x # Free /\ x \in Nodes  BY <1>2, <1>4
  <2>2. E.next[x] = V.next[x]  BY <1>14, <2>1
  <2> QED  BY <1>6, <1>9, <2>1, <2>2
<1>18. \A x \in Pages :
         E.prev[x].type = IF x \in page .. page + k - 1 THEN "page" ELSE e.prev[x].type
  <2> TAKE x \in Pages
  <2>1. CASE x = page  BY <1>1, <1>2, <1>11, <1>14, <2>1 DEF Prev
  <2>2. CASE x # page /\ x = f
    <3>1. home1[x] = Free /\ x \notin inner
      BY <1>1, <1>2, <1>4, <1>11, <2>2 DEF inner
    <3>2. U.prev[x].type = "page"  BY <1>2, <1>3, <1>6, <3>1 DEF Lists
    <3> QED  BY <1>1, <1>2, <1>6, <1>14, <2>2, <3>1, <3>2 DEF Prev
  <2>3. CASE x # page /\ x # f
    <3>1. E.prev[x] = V.prev[x]  BY <1>2, <1>14, <2>3
    <3>2. V.prev[x] = IF x \in inner THEN Prev(NULL, "page") ELSE U.prev[x]  BY <1>2, <1>9
    <3>3. x \in page .. page + k - 1 <=> x \in inner  BY <1>1, <2>3
    <3> QED  BY <1>6, <3>1, <3>2, <3>3 DEF Prev
  <2> QED  BY <2>1, <2>2, <2>3
<1>19. \A x \in Pages : E.slab[x] = IF x = page THEN Slab(k, "", {})
                             ELSE IF x \in page + 1 .. page + k - 1 THEN Slab(0, "", {})
                             ELSE e.slab[x]
  BY <1>6, <1>9, <1>14 DEF inner
<1> QED  BY <1>15, <1>16, <1>17, <1>18, <1>19

-----------------------------------------------------------------------------
(* Following a list *)

LEMMA ListNodes ==
  ASSUME SlabAssumption,
         NEW e, NEW home, Lists(e, home), NEW h \in Heads, NEW node, node = InList(e, h)
  PROVE  /\ node[0] = e.next[h]
         /\ \A i \in 0 .. N - 1 : node[i + 1] = IF node[i] = h THEN h ELSE e.next[node[i]]
         /\ \A i \in 0 .. N : node[i] = h \/ (node[i] \in Pages /\ home[node[i]] = h)
<1> DEFINE ok(x) == x = h \/ (x \in Pages /\ home[x] = h)
           T == {j \in Nat : j <= N => ok(node[j])}
<1>1. N \in Nat \ {0} /\ h \notin Pages /\ h # NULL  BY NodesApart
<1>2. node = [i \in 0 .. N |-> IF i = 0 THEN e.next[h]
                               ELSE IF node[i - 1] = h THEN h ELSE e.next[node[i - 1]]]
  BY InListFollows DEF Following
<1>3. node[0] = e.next[h]  BY <1>1, <1>2
<1>4. \A i \in 0 .. N - 1 : node[i + 1] = IF node[i] = h THEN h ELSE e.next[node[i]]
  <2> TAKE i \in 0 .. N - 1
  <2> DEFINE link(j) == IF j = 0 THEN e.next[h]
                        ELSE IF node[j - 1] = h THEN h ELSE e.next[node[j - 1]]
  <2>1. i + 1 \in 0 .. N /\ i + 1 # 0 /\ (i + 1) - 1 = i  BY <1>1
  <2>2. node = [j \in 0 .. N |-> link(j)]  BY <1>2
  <2> HIDE DEF link
  <2>3. node[i + 1] = link(i + 1)  BY <2>1, <2>2
  <2> QED  BY <2>1, <2>3 DEF link
<1>5. ASSUME NEW x, ok(x), x # h PROVE ok(e.next[x])
  <2>1. x \in Pages /\ home[x] = h /\ home[x] # NULL  BY <1>1, <1>5
  <2> QED  BY <2>1, Neighbours
<1>6. ok(e.next[h])  BY FirstOfList
<1> HIDE DEF ok
<1>7. 0 \in T  BY <1>3, <1>6
<1>8. ASSUME NEW j \in T PROVE j + 1 \in T
  <2>1. SUFFICES ASSUME j + 1 <= N PROVE ok(node[j + 1])
    OBVIOUS
  <2>2. j \in 0 .. N - 1 /\ ok(node[j])  BY <1>1, <2>1
  <2>3. node[j + 1] = IF node[j] = h THEN h ELSE e.next[node[j]]  BY <1>4, <2>2
  <2>4. ok(h)  BY DEF ok
  <2> QED  BY <1>5, <2>2, <2>3, <2>4
<1>9. T = Nat
  <2> HIDE DEF T
  <2>1. T \in SUBSET Nat  BY DEF T
  <2> QED  BY <1>7, <1>8, <2>1, Reaches
<1>10. \A i \in 0 .. N : ok(node[i])  BY <1>1, <1>9
<1> QED  BY <1>3, <1>4, <1>10 DEF ok

(* N steps are enough: there are no more pages.                            *)
LEMMA ListEnds ==
  ASSUME SlabAssumption, NEW e, NEW home, Lists(e, home), NEW h \in Heads
  PROVE  InList(e, h)[N] = h
<1> DEFINE node == InList(e, h)
<1>1. /\ \A i \in 0 .. N - 1 : node[i + 1] = IF node[i] = h THEN h ELSE e.next[node[i]]
      /\ \A i \in 0 .. N : node[i] = h \/ (node[i] \in Pages /\ home[node[i]] = h)
  BY ListNodes
<1>2. PICK m \in Nat : \E rank \in Ranks(m) : Linked(e.next, e.prev, home, rank)  BY DEF Lists
<1>3. PICK rank \in Ranks(m) : Linked(e.next, e.prev, home, rank)  BY <1>2
<1> HIDE DEF node
<1>4. N \in Nat \ {0} /\ h # NULL /\ h \notin Pages  BY NodesApart
<1> SUFFICES ASSUME node[N] # h PROVE FALSE
  BY DEF node
<1>5. \A i \in 0 .. N : node[i] # h
  <2> DEFINE T == {j \in Nat : j <= N => node[N - j] # h}
  <2>1. 0 \in T  BY <1>4
  <2>2. ASSUME NEW j \in T PROVE j + 1 \in T
    <3> SUFFICES ASSUME j + 1 <= N, node[N - (j + 1)] = h PROVE FALSE
      OBVIOUS
    <3>1. N - (j + 1) \in 0 .. N - 1 /\ (N - (j + 1)) + 1 = N - j /\ j <= N  BY <1>4
    <3>2. node[(N - (j + 1)) + 1] = h  BY <1>1, <3>1
    <3> QED  BY <3>1, <3>2
  <2>3. T = Nat
    <3> HIDE DEF T
    <3>1. T \in SUBSET Nat  BY DEF T
    <3> QED  BY <2>1, <2>2, <3>1, Reaches
  <2> TAKE i \in 0 .. N
  <2>4. N - i \in Nat /\ N - i <= N /\ N - (N - i) = i  BY <1>4
  <2>5. N - i \in T
    <3> HIDE DEF T
    <3> QED  BY <2>3, <2>4
  <2> QED  BY <2>4, <2>5
<1>6. \A i \in 0 .. N : node[i] \in Pages /\ home[node[i]] = h /\ rank[node[i]] \in Int
  BY <1>1, <1>5 DEF Ranks
<1>7. \A i \in 0 .. N - 1 : rank[node[i + 1]] < rank[node[i]]
  <2> TAKE i \in 0 .. N - 1
  <2>1. i \in 0 .. N /\ i + 1 \in 0 .. N  BY <1>4
  <2>2. node[i + 1] = e.next[node[i]] /\ node[i + 1] # h /\ node[i] \in Pages /\ home[node[i]] = h
    BY <1>1, <1>5, <1>6, <2>1
  <2> QED  BY <1>3, <1>4, <2>2 DEF Linked
<1>8. \A d \in Nat : \A i \in 0 .. N : i + d + 1 <= N => rank[node[i + d + 1]] < rank[node[i]]
  <2> DEFINE T == {d \in Nat : \A i \in 0 .. N : i + d + 1 <= N => rank[node[i + d + 1]] < rank[node[i]]}
  <2>1. 0 \in T
    <3>1. ASSUME NEW i \in 0 .. N, i + 0 + 1 <= N PROVE rank[node[i + 0 + 1]] < rank[node[i]]
      <4>1. i \in 0 .. N - 1 /\ i + 0 + 1 = i + 1  BY <1>4, <3>1
      <4> QED  BY <1>7, <4>1
    <3> QED  BY <3>1
  <2>2. ASSUME NEW d \in T PROVE d + 1 \in T
    <3>1. ASSUME NEW i \in 0 .. N, i + (d + 1) + 1 <= N
          PROVE  rank[node[i + (d + 1) + 1]] < rank[node[i]]
      <4>1. d \in Nat /\ i + d + 1 <= N /\ i + d + 1 \in 0 .. N - 1 /\ i + (d + 1) + 1 = (i + d + 1) + 1
            /\ (i + d + 1) + 1 \in 0 .. N
        BY <1>4, <3>1
      <4>2. rank[node[i + d + 1]] < rank[node[i]]  BY <4>1
      <4>3. rank[node[(i + d + 1) + 1]] < rank[node[i + d + 1]]  BY <1>7, <4>1
      <4>4. i + d + 1 \in 0 .. N  BY <4>1
      <4>5. rank[node[i]] \in Int /\ rank[node[i + d + 1]] \in Int /\ rank[node[(i + d + 1) + 1]] \in Int
        BY <1>6, <4>1, <4>4
      <4> HIDE DEF T
      <4>6. rank[node[(i + d + 1) + 1]] < rank[node[i]]  BY <4>2, <4>3, <4>5
      <4> QED  BY <4>1, <4>6
    <3> QED  BY <3>1
  <2>3. T = Nat
    <3> HIDE DEF T
    <3>1. T \in SUBSET Nat  BY DEF T
    <3> QED  BY <2>1, <2>2, <3>1, Reaches
  <2> QED  BY <2>3
<1>9. ASSUME NEW i \in 0 .. N, NEW j \in 0 .. N, i < j PROVE node[i] # node[j]
  <2>1. j - i - 1 \in Nat /\ i + (j - i - 1) + 1 = j /\ i + (j - i - 1) + 1 <= N  BY <1>9
  <2>2. rank[node[j]] < rank[node[i]]  BY <1>8, <2>1
  <2> QED  BY <1>6, <2>2
<1> DEFINE f == [i \in 0 .. N |-> node[i]]
<1>10. f \in Injection(0 .. N, Pages)
  <2>1. f \in [0 .. N -> Pages]  BY <1>6
  <2>2. \A i, j \in 0 .. N : f[i] = f[j] => i = j
    <3> TAKE i, j \in 0 .. N
    <3>1. i < j \/ j < i \/ i = j  OBVIOUS
    <3> QED  BY <1>9, <3>1
  <2> QED  BY <2>1, <2>2 DEF Injection, IsInjective
<1>11. /\ IsFiniteSet(Pages) /\ Cardinality(Pages) = N
       /\ IsFiniteSet(0 .. N) /\ Cardinality(0 .. N) = N + 1
  <2>1. IsFiniteSet(0 .. N - 1) /\ Cardinality(0 .. N - 1) = IF 0 > N - 1 THEN 0 ELSE (N - 1) - 0 + 1
    BY <1>4, FS_Interval
  <2>2. IsFiniteSet(0 .. N) /\ Cardinality(0 .. N) = IF 0 > N THEN 0 ELSE N - 0 + 1
    BY <1>4, FS_Interval
  <2> QED  BY <1>4, <2>1, <2>2 DEF Pages
<1>12. Cardinality(0 .. N) <= Cardinality(Pages)  BY <1>10, <1>11, FS_Injection
<1> QED  BY <1>4, <1>11, <1>12

(* A list has the pages of this home in it, and no others.                 *)
LEMMA ListReaches ==
  ASSUME SlabAssumption, NEW e, NEW home, Lists(e, home), NEW h \in Heads
  PROVE  /\ \A i \in 0 .. N : InList(e, h)[i] # h =>
              InList(e, h)[i] \in Pages /\ home[InList(e, h)[i]] = h
         /\ \A p \in Pages : home[p] = h => \E i \in 0 .. N : InList(e, h)[i] = p
<1> DEFINE node == InList(e, h)
<1>1. /\ node[0] = e.next[h]
      /\ \A i \in 0 .. N - 1 : node[i + 1] = IF node[i] = h THEN h ELSE e.next[node[i]]
      /\ \A i \in 0 .. N : node[i] = h \/ (node[i] \in Pages /\ home[node[i]] = h)
  BY ListNodes
<1>2. node[N] = h  BY ListEnds
<1> HIDE DEF node
<1>3. PICK m \in Nat : \E rank \in Ranks(m) : Linked(e.next, e.prev, home, rank)  BY DEF Lists
<1>4. PICK rank \in Ranks(m) : Linked(e.next, e.prev, home, rank)  BY <1>3
<1>5. N \in Nat \ {0} /\ h # NULL /\ h \notin Pages  BY NodesApart
<1>6. ASSUME NEW p \in Pages, home[p] = h PROVE \E i \in 0 .. N : node[i] = p
  <2> DEFINE Missed == {x \in Pages : home[x] = h /\ ~ \E i \in 0 .. N : node[i] = x}
             T == {m - rank[x] : x \in Missed}
  <2> SUFFICES ASSUME Missed # {} PROVE FALSE
    BY <1>6
  <2>1. \A x \in Pages : rank[x] \in 0 .. m  BY DEF Ranks
  <2>2. T \in SUBSET Nat /\ T # {}  BY <2>1
  <2>3. PICK t \in T : \A s \in T : t <= s
    <3> HIDE DEF T
    <3> QED  BY <2>2, Least
  <2>4. PICK x \in Missed : \A y \in Missed : m - rank[x] <= m - rank[y]  BY <2>3
  <2>5. x \in Pages /\ home[x] = h /\ home[x] # NULL /\ ~ \E i \in 0 .. N : node[i] = x
    BY <1>5
  <2>6. \/ e.prev[x].to = h /\ e.next[h] = x
        \/ e.prev[x].to \in Pages /\ home[e.prev[x].to] = h /\ e.next[e.prev[x].to] = x
    BY <1>4, <2>5 DEF Linked
  <2>7. e.next[h] # x  BY <1>1, <1>5, <2>5
  <2> DEFINE y == e.prev[x].to
  <2>8. y \in Pages /\ home[y] = h /\ e.next[y] = x  BY <2>6, <2>7
  <2> HIDE DEF y
  <2>9. rank[x] < rank[y]  BY <1>4, <1>5, <2>5, <2>8 DEF Linked
  <2>10. y \notin Missed  BY <2>1, <2>4, <2>5, <2>8, <2>9
  <2>11. PICK i \in 0 .. N : node[i] = y  BY <2>8, <2>10
  <2>12. i # N /\ y # h  BY <1>2, <1>5, <2>8, <2>11
  <2>13. i \in 0 .. N - 1 /\ i + 1 \in 0 .. N  BY <1>5, <2>12
  <2>14. node[i + 1] = x  BY <1>1, <2>8, <2>11, <2>12, <2>13
  <2> QED  BY <2>5, <2>13, <2>14
<1> QED  BY <1>1, <1>6 DEF node

LEMMA SomeLeast ==
  ASSUME NEW T \in SUBSET Nat, T # {}
  PROVE  Min(T) \in T /\ \A y \in T : Min(T) <= y
BY Least DEF Min

LEMMA FirstFitIs ==
  ASSUME SlabAssumption, NEW e, NEW home, Lists(e, home), NEW k, FirstFit(e, k) # NULL
  PROVE  /\ FirstFit(e, k) \in Pages /\ home[FirstFit(e, k)] = Free
         /\ e.slab[FirstFit(e, k)].n >= k
<1> DEFINE node == InList(e, Free)
           fits == {i \in 0 .. N : node[i] # Free /\ e.slab[node[i]].n >= k}
<1>1. FirstFit(e, k) = node[Min(fits)] /\ fits # {}  BY DEF FirstFit
<1>2. fits \in SUBSET Nat  BY NodesApart
<1>3. Min(fits) \in fits
  <2> HIDE DEF fits
  <2> QED  BY <1>1, <1>2, SomeLeast
<1>4. Free \in Heads  BY DEF Heads
<1> QED  BY <1>1, <1>3, <1>4, ListReaches

-----------------------------------------------------------------------------
(* Sizes, shifts and addresses *)

LEMMA Quotient ==
  ASSUME NEW x \in Nat, NEW b \in Nat \ {0}
  PROVE  x \div b \in Nat /\ x % b \in 0 .. b - 1 /\ x = b * (x \div b) + (x % b)
OBVIOUS

(* No other quotient and remainder make it.                                *)
LEMMA Apart ==
  ASSUME NEW x \in Nat, NEW b \in Nat \ {0}, NEW q \in Int, NEW r \in 0 .. b - 1, x = b * q + r
  PROVE  q = x \div b /\ r = x % b
<1> DEFINE p == x \div b  s == x % b
<1>1. p \in Nat /\ s \in 0 .. b - 1 /\ x = b * p + s  BY Quotient
<1> HIDE DEF p, s
<1>2. b * (q - p) = s - r  BY <1>1
<1>3. ~(q - p >= 1)  BY <1>1, <1>2
<1>4. ~(q - p <= -1)  BY <1>1, <1>2
<1> QED  BY <1>1, <1>3, <1>4 DEF p, s

LEMMA Times ==
  ASSUME NEW x \in Nat, NEW y \in Nat, x <= y, NEW z \in Nat
  PROVE  x * z \in Nat /\ y * z \in Nat /\ x * z <= y * z
<1>1. PICK d \in Nat : y = x + d
  <2>1. y - x \in Nat /\ y = x + (y - x)  OBVIOUS
  <2> QED  BY <2>1
<1>2. (x + d) * z = x * z + d * z /\ x * z \in Nat /\ d * z \in Nat  OBVIOUS
<1> QED  BY <1>1, <1>2

LEMMA PowersApart ==
  ASSUME NEW i \in Nat, NEW j \in Nat
  PROVE  (2 ^ i < 2 ^ j => i < j) /\ (2 ^ i = 2 ^ j => i = j) /\ (2 ^ i <= 2 ^ j => i <= j)
<1>1. 2 ^ i \in Nat /\ 2 ^ j \in Nat  BY PowerPositive
<1>2. i < j => 2 ^ i < 2 ^ j  BY PowerSplit
<1>3. j < i => 2 ^ j < 2 ^ i  BY PowerSplit
<1>4. i < j \/ i = j \/ j < i  OBVIOUS
<1> QED  BY <1>1, <1>2, <1>3, <1>4

LEMMA Shift ==
  ASSUME SlabAssumption, NEW s \in Shifts
  PROVE  /\ s \in Nat /\ page_shift - s \in Nat \ {0} /\ 2 ^ s \in Nat \ {0}
         /\ min_shift \in Nat /\ page_shift \in Nat /\ min_shift <= s /\ s < page_shift
         /\ 2 ^ (page_shift - s) \in Nat /\ 2 ^ (page_shift - s) >= 2
         /\ page_size \in Nat \ {0} /\ page_size = 2 ^ (page_shift - s) * 2 ^ s
<1>1. /\ s \in Nat /\ page_shift - s \in Nat \ {0} /\ s <= page_shift
      /\ min_shift \in Nat /\ page_shift \in Nat /\ min_shift <= s /\ s < page_shift
  BY DEF SlabAssumption, Shifts
<1>2. 2 ^ s \in Nat \ {0} /\ 2 ^ page_shift \in Nat \ {0}  BY <1>1, PowerPositive
<1>3. 2 ^ page_shift = 2 ^ (page_shift - s) * 2 ^ s  BY <1>1, PowerSplit
<1>4. 2 ^ (page_shift - s) \in Nat /\ page_shift - s < 2 ^ (page_shift - s)
  BY <1>1, PowerPositive
<1> QED  BY <1>1, <1>2, <1>3, <1>4 DEF page_size

LEMMA ExactShift ==
  ASSUME SlabAssumption
  PROVE  exact_shift \in Shifts
<1>1. PICK s \in Shifts : 2 ^ page_shift \div word_bits = 2 ^ s
  BY DEF SlabAssumption, Shifts
<1>2. s \in 0 .. page_shift  BY <1>1, Shift
<1> DEFINE t == CHOOSE t \in 0 .. page_shift : 2 ^ t = page_size \div word_bits
<1>3. t \in 0 .. page_shift /\ 2 ^ t = 2 ^ s  BY <1>1, <1>2 DEF page_size
<1> HIDE DEF t
<1>4. t = s
  <2>1. t \in Nat /\ s \in Nat  BY <1>2, <1>3, Shift
  <2> QED  BY <1>3, <2>1, PowersApart
<1> QED  BY <1>4 DEF exact_shift, t

(* A size below half a page has its shift.                                 *)
LEMMA ShiftForIs ==
  ASSUME SlabAssumption, NEW size \in Nat, size < max_size
  PROVE  ShiftFor(size) \in Shifts /\ size <= 2 ^ ShiftFor(size)
<1>1. min_shift \in Nat /\ page_shift \in Nat /\ min_shift < page_shift
  BY ExactShift, Shift
<1>2. 2 ^ min_shift \in Nat  BY <1>1, PowerPositive
<1>3. CASE size > 2 ^ min_shift
  <2> DEFINE half == page_shift - 1
  <2>1. half \in Nat /\ page_shift = half + 1  BY <1>1
  <2>2. 2 ^ page_shift = 2 * 2 ^ half /\ 2 ^ half \in Nat  BY <2>1, PowerNext, PowerPositive
  <2>3. max_size = 2 ^ half
    <3> DEFINE y == 2 ^ half
    <3>1. y \in Nat /\ max_size = (2 * y) \div 2  BY <2>2 DEF max_size, page_size
    <3> HIDE DEF y
    <3> QED  BY <3>1 DEF y
  <2> DEFINE T == {s \in Nat : size <= 2 ^ s}
  <2>4. half \in T  BY <2>1, <2>2, <2>3
  <2>5. T \in SUBSET Nat /\ T # {}  BY <2>4
  <2>6. PICK s \in T : \A t \in T : s <= t
    <3> HIDE DEF T
    <3> QED  BY <2>5, Least
  <2>7. s \in Nat /\ size <= 2 ^ s /\ s <= half  BY <2>4, <2>6
  <2>8. s # 0 /\ s > min_shift
    <3>1. 2 ^ s \in Nat /\ 2 ^ min_shift < 2 ^ s  BY <1>2, <1>3, <2>7, PowerPositive
    <3> QED  BY <1>1, <2>7, <3>1, PowersApart
  <2>9. s - 1 \in Nat /\ ~(size <= 2 ^ (s - 1)) /\ 2 ^ (s - 1) \in Nat
    <3>1. s - 1 \in Nat  BY <2>7, <2>8
    <3>2. s - 1 \notin T  BY <2>6, <2>7, <3>1
    <3> QED  BY <3>1, <3>2, PowerPositive
  <2>10. s \in 1 .. page_shift /\ 2 ^ (s - 1) < size /\ size <= 2 ^ s
    BY <1>1, <2>1, <2>7, <2>8, <2>9
  <2> DEFINE t == CHOOSE t \in 1 .. page_shift : 2 ^ (t - 1) < size /\ size <= 2 ^ t
  <2>11. t \in 1 .. page_shift /\ 2 ^ (t - 1) < size /\ size <= 2 ^ t  BY <2>10
  <2>12. ShiftFor(size) = t  BY <1>3 DEF ShiftFor
  <2> HIDE DEF t
  <2>13. t \in Nat /\ t - 1 \in Nat /\ 2 ^ t \in Nat /\ 2 ^ (t - 1) \in Nat  BY <2>11, PowerPositive
  <2>14. 2 ^ (t - 1) < 2 ^ half /\ 2 ^ min_shift < 2 ^ t  BY <1>2, <1>3, <2>2, <2>3, <2>11, <2>13
  <2>15. t - 1 < half /\ min_shift < t  BY <1>1, <2>1, <2>13, <2>14, PowersApart
  <2> QED  BY <1>1, <2>1, <2>11, <2>12, <2>13, <2>15 DEF Shifts
<1>4. CASE ~(size > 2 ^ min_shift)
  BY <1>1, <1>2, <1>4 DEF ShiftFor, Shifts
<1> QED  BY <1>3, <1>4

(* A chunk lies in its page, and its address says which it is.             *)
LEMMA AddressIs ==
  ASSUME SlabAssumption, NEW p \in Nat, NEW s \in Shifts, NEW c \in Chunks(s)
  PROVE  /\ Address(p, s, c) \in Nat
         /\ Address(p, s, c) \div page_size = p
         /\ (Address(p, s, c) % page_size) \div 2 ^ s = c
         /\ p * page_size + c * 2 ^ s = Address(p, s, c)
         /\ p * page_size <= Address(p, s, c)
         /\ Address(p, s, c) + 2 ^ s <= p * page_size + page_size
<1> DEFINE k == 2 ^ (page_shift - s)  b == 2 ^ s
<1>1. /\ k \in Nat /\ b \in Nat \ {0} /\ page_size = k * b /\ page_size \in Nat \ {0}
      /\ c \in Nat /\ c + 1 <= k
  BY Shift DEF Chunks
<1> HIDE DEF k, b
<1>2. c * b \in Nat /\ (c + 1) * b <= k * b /\ (c + 1) * b = c * b + b
  BY <1>1, Times
<1>3. p * page_size \in Nat /\ p * page_size = page_size * p  BY <1>1
<1> DEFINE x == p * page_size + c * b
<1>4. x \in Nat /\ c * b \in 0 .. page_size - 1 /\ x = page_size * p + c * b
  BY <1>1, <1>2, <1>3
<1>5. p = x \div page_size /\ c * b = x % page_size
  <2> HIDE DEF x
  <2>1. p \in Int  OBVIOUS
  <2> QED  BY <1>1, <1>4, <2>1, Apart
<1>6. c = (c * b) \div b
  <2>1. c * b = b * c + 0 /\ 0 \in 0 .. b - 1 /\ c \in Int  BY <1>1
  <2> QED  BY <1>1, <1>2, <2>1, Apart
<1>7. Address(p, s, c) = x  BY DEF Address, b
<1>8. x + b <= p * page_size + page_size /\ p * page_size <= x
  BY <1>1, <1>2, <1>3
<1> QED  BY <1>4, <1>5, <1>6, <1>7, <1>8 DEF b

LEMMA PageAddress ==
  ASSUME SlabAssumption, NEW p \in Nat
  PROVE  p * page_size \in Nat /\ (p * page_size) \div page_size = p /\ page_size \in Nat \ {0}
<1>1. page_size \in Nat \ {0}  BY ExactShift, Shift
<1>2. p * page_size \in Nat /\ p * page_size = page_size * p + 0 /\ 0 \in 0 .. page_size - 1 /\ p \in Int
  BY <1>1
<1> QED  BY <1>1, <1>2, Apart

(* Longer chunks are fewer.                                                *)
LEMMA FewerChunks ==
  ASSUME SlabAssumption, NEW s \in Shifts, NEW t \in Shifts, s <= t
  PROVE  Chunks(t) \subseteq Chunks(s)
<1>1. page_shift - t \in Nat /\ page_shift - s \in Nat /\ page_shift - t <= page_shift - s
  BY Shift
<1>2. 2 ^ (page_shift - t) <= 2 ^ (page_shift - s) /\ 2 ^ (page_shift - t) \in Nat
      /\ 2 ^ (page_shift - s) \in Nat
  BY <1>1, PowerSplit, PowerPositive
<1> QED  BY <1>2 DEF Chunks

LEMMA OneOrMore ==
  ASSUME NEW x \in Nat
  PROVE  Max({1, x}) = IF x > 1 THEN x ELSE 1
<1>1. \E y \in {1, x} : \A z \in {1, x} : y >= z  OBVIOUS
<1> DEFINE M == CHOOSE y \in {1, x} : \A z \in {1, x} : y >= z
<1>2. M \in {1, x} /\ \A z \in {1, x} : M >= z  BY <1>1
<1>3. Max({1, x}) = M  BY DEF Max
<1> HIDE DEF M
<1> QED  BY <1>2, <1>3

(* The bitmap of a page has room in the chunks that are kept for it, and   *)
(* the page has two more chunks at least.                                  *)
LEMMA BitmapIs ==
  ASSUME SlabAssumption, NEW s \in Shifts, s < exact_shift
  PROVE  /\ BitmapChunks(s) \in Nat \ {0}
         /\ BitmapChunks(s) + 1 < 2 ^ (page_shift - s)
         /\ Max({1, 2 ^ (page_shift - s) \div 8}) \in Nat
         /\ Max({1, 2 ^ (page_shift - s) \div 8}) <= BitmapChunks(s) * 2 ^ s
<1> DEFINE d == page_shift - s  k == 2 ^ d  b == 2 ^ s  y == k \div 8  z == y \div b
<1>1. /\ s \in Nat /\ d \in Nat /\ d >= 2 /\ b \in Nat \ {0} /\ k \in Nat
  BY ExactShift, Shift
<1>2. k >= 4
  <2>1. d - 1 \in Nat /\ d = (d - 1) + 1 /\ d - 2 \in Nat /\ d - 1 = (d - 2) + 1  BY <1>1
  <2>2. 2 ^ ((d - 1) + 1) = 2 * 2 ^ (d - 1) /\ 2 ^ ((d - 2) + 1) = 2 * 2 ^ (d - 2)
        /\ 2 ^ (d - 2) \in Nat \ {0} /\ 2 ^ (d - 1) \in Nat
    BY <2>1, PowerNext, PowerPositive
  <2>3. 2 ^ d = 2 * 2 ^ (d - 1) /\ 2 ^ (d - 1) = 2 * 2 ^ (d - 2)  BY <2>1, <2>2
  <2> QED  BY <2>2, <2>3
<1>3. y \in Nat /\ k = 8 * y + (k % 8) /\ k % 8 \in 0 .. 7
  <2> HIDE DEF k
  <2>1. 8 \in Nat \ {0}  OBVIOUS
  <2> QED  BY <1>1, <2>1, Quotient
<1>4. z \in Nat /\ y = b * z + (y % b) /\ y % b \in 0 .. b - 1
  <2> HIDE DEF y, b
  <2> QED  BY <1>1, <1>3, Quotient
<1>5. BitmapChunks(s) = IF z > 1 THEN z ELSE 1
  BY <1>4, OneOrMore DEF BitmapChunks
<1>7. b \in Nat /\ b >= 1 /\ y \in Nat /\ z \in Nat /\ y % b \in Nat
  BY <1>1, <1>3, <1>4
<1>6. z <= y
  <2>0. y = b * z + (y % b)  BY <1>4
  <2> HIDE DEF z, y, b
  <2>2. 1 * z <= b * z /\ b * z \in Nat  BY <1>7, Times
  <2> QED  BY <1>7, <2>0, <2>2
<1>8. y <= b * z \/ (z = 0 /\ y < b)
  <2>1. CASE d < 3
    <3>1. d = 2  BY <1>1, <2>1
    <3>2. 2 ^ 1 = 2 * 2 ^ 0 /\ 2 ^ 2 = 2 * 2 ^ 1
      <4>1. 2 ^ (0 + 1) = 2 * 2 ^ 0 /\ 2 ^ (1 + 1) = 2 * 2 ^ 1  BY PowerNext
      <4>2. 0 + 1 = 1 /\ 1 + 1 = 2  OBVIOUS
      <4> QED  BY <4>1, <4>2
    <3>3. k = 4
      <4>1. 2 ^ 2 = 4  BY <3>2, PowerZero
      <4> QED  BY <3>1, <4>1
    <3>4. y = 0  BY <1>3, <3>3
    <3> HIDE DEF y, b, z
    <3> QED  BY <1>1, <1>4, <3>4
  <2>2. CASE d >= 3
    <3> DEFINE j == d - 3
    <3>1. j \in Nat /\ d = 3 + j /\ 3 \in Nat  BY <1>1, <2>2
    <3>2. 2 ^ 3 = 8
      <4>1. 2 ^ (0 + 1) = 2 * 2 ^ 0 /\ 2 ^ (1 + 1) = 2 * 2 ^ 1 /\ 2 ^ (2 + 1) = 2 * 2 ^ 2  BY PowerNext
      <4>2. 0 + 1 = 1 /\ 1 + 1 = 2 /\ 2 + 1 = 3  OBVIOUS
      <4> QED  BY <4>1, <4>2, PowerZero
    <3>3. k = 2 ^ 3 * 2 ^ j /\ 2 ^ j \in Nat  BY <3>1, PowerSum, PowerPositive
    <3>4. y = 2 ^ j
      <4> DEFINE w == 2 ^ j
      <4>1. k = 8 * w + 0 /\ w \in Int /\ 0 \in 0 .. 8 - 1  BY <3>2, <3>3
      <4> HIDE DEF w, k
      <4>2. w = k \div 8  BY <1>1, <4>1, Apart
      <4> QED  BY <4>2 DEF w
    <3>5. CASE s <= j
      <4>1. 2 ^ j = 2 ^ (j - s) * 2 ^ s /\ j - s \in Nat  BY <1>1, <3>1, <3>5, PowerSplit
      <4>2. 2 ^ (j - s) \in Nat  BY <4>1, PowerPositive
      <4> DEFINE w == 2 ^ (j - s)
      <4>3. y = b * w + 0 /\ w \in Int /\ 0 \in 0 .. b - 1
        <5>1. y = w * b /\ w \in Nat  BY <3>4, <4>1, <4>2
        <5> HIDE DEF y, w, b
        <5> QED  BY <1>1, <5>1
      <4> HIDE DEF y, w, b
      <4>4. w = z  BY <1>1, <1>3, <4>3, Apart
      <4> HIDE DEF z
      <4> QED  BY <1>7, <4>3, <4>4
    <3>6. CASE ~(s <= j)
      <4>1. y < b  BY <1>1, <3>1, <3>4, <3>6, PowerSplit
      <4>2. y = b * 0 + y /\ 0 \in Int /\ y \in 0 .. b - 1
        <5> HIDE DEF y, b
        <5> QED  BY <1>1, <1>3, <4>1
      <4>3. 0 = z
        <5> HIDE DEF y, b
        <5> QED  BY <1>1, <1>3, <4>2, Apart
      <4> QED  BY <4>1, <4>3
    <3> QED  BY <3>5, <3>6
  <2> QED  BY <1>1, <2>1, <2>2
<1>9. Max({1, y}) = IF y > 1 THEN y ELSE 1
  <2> HIDE DEF y
  <2> QED  BY <1>3, OneOrMore
<1> DEFINE B == BitmapChunks(s)
<1>10. B \in Nat \ {0} /\ B + 1 < k
  <2> HIDE DEF B, z, y, k
  <2>1. B = IF z > 1 THEN z ELSE 1  BY <1>5 DEF B
  <2> QED  BY <1>1, <1>2, <1>3, <1>4, <1>6, <2>1
<1>11. Max({1, y}) \in Nat /\ Max({1, y}) <= B * b
  <2>1. B = IF z > 1 THEN z ELSE 1  BY <1>5 DEF B
  <2> HIDE DEF B, z, y, b
  <2>2. CASE z > 1
    <3>1. B * b = b * z /\ b * z \in Nat /\ y <= b * z  BY <1>1, <1>4, <1>8, <2>1, <2>2
    <3>2. 1 <= b * z
      <4>1. 1 * z <= b * z /\ b * z \in Nat  BY <1>7, Times
      <4> QED  BY <1>7, <2>2, <4>1
    <3> QED  BY <1>3, <1>9, <3>1, <3>2
  <2>3. CASE ~(z > 1)
    <3>1. B = 1 /\ B * b = b  BY <1>1, <2>1, <2>3
    <3>2. z = 0 \/ z = 1  BY <1>4, <2>3
    <3>3. y <= b
      <4>1. CASE z = 0  BY <1>1, <1>3, <1>8, <4>1
      <4>2. CASE z = 1  BY <1>1, <1>3, <1>8, <4>2
      <4> QED  BY <3>2, <4>1, <4>2
    <3> QED  BY <1>7, <1>9, <3>1, <3>3
  <2> QED  BY <2>2, <2>3
<1> QED  BY <1>10, <1>11

-----------------------------------------------------------------------------
(* Steps that leave all pages as they are but some *)

Same(p) ==
  /\ entry'.prev[p].type = entry.prev[p].type
  /\ entry'.slab[p] = entry.slab[p]
  /\ bitmap'[p] = bitmap[p]

LEMMA SameIs ==
  ASSUME NEW p \in Pages, Same(p)
  PROVE  /\ Type(p)' = Type(p) /\ ShiftOf(entry, p)' = ShiftOf(entry, p)
         /\ Taken(entry, p)' = Taken(entry, p) /\ Reserved(p)' = Reserved(p)
         /\ (p \in Runs)' <=> p \in Runs
         /\ (p \in Chunked)' <=> p \in Chunked
         /\ Home(p)' = Home(p)
         /\ \A a : IsRun(a, p)' <=> IsRun(a, p)
         /\ \A a, c : IsChunk(a, p, c)' <=> IsChunk(a, p, c)
<1>1. Type(p)' = Type(p) /\ ShiftOf(entry, p)' = ShiftOf(entry, p)
      /\ Taken(entry, p)' = Taken(entry, p)
  BY DEF Same, Type, ShiftOf, Taken
<1>2. Reserved(p)' = Reserved(p)  BY <1>1 DEF Reserved
<1>3. ((p \in Runs)' <=> p \in Runs) /\ ((p \in Chunked)' <=> p \in Chunked)
  BY <1>1 DEF Same, Runs, Chunked
<1>4. Home(p)' = Home(p)  BY <1>1, <1>3 DEF Home, Same
<1>5. \A a : IsRun(a, p)' <=> IsRun(a, p)  BY <1>3 DEF IsRun, Same
<1>6. \A a, c : IsChunk(a, p, c)' <=> IsChunk(a, p, c)  BY <1>1, <1>2, <1>3 DEF IsChunk
<1> QED  BY <1>1, <1>2, <1>3, <1>4, <1>5, <1>6

(* A run, or a page that is cut up: the n pages from p on.                 *)
Part(p, n) ==
  /\ p \in Pages /\ n \in Nat \ {0} /\ p + n <= N
  /\ \/ p \in Runs /\ n = entry.slab[p].n
     \/ p \in Chunked /\ n = 1

LEMMA NumbersAre ==
  ASSUME SlabAssumption, NEW e \in Entries, NEW p \in Pages
  PROVE  e.slab[p].n \in Nat
<1>1. e.slab[p] \in SlabType  BY EntryOf
<1>2. N \in Nat \ {0} /\ page_shift \in Nat
  BY NodesApart DEF SlabAssumption
<1>3. e.slab[p].n \in 0 .. N + page_shift  BY <1>1 DEF SlabType
<1> QED  BY <1>2, <1>3

LEMMA NumberOfPages ==
  ASSUME SlabAssumption, entry \in Entries, NEW p \in Pages
  PROVE  /\ entry.slab[p].n \in Nat /\ (p \in Runs => entry.slab[p].n \in Nat \ {0})
         /\ (p \in Runs => p \notin Chunked)
         /\ N \in Nat \ {0} /\ p \in 0 .. N - 1
<1>1. entry.slab[p] \in SlabType  BY EntryOf
<1>2. N \in Nat \ {0} /\ page_shift \in Nat /\ p \in 0 .. N - 1
  BY NodesApart DEF SlabAssumption, Pages
<1>3. entry.slab[p].n \in 0 .. N + page_shift  BY <1>1 DEF SlabType
<1> QED  BY <1>2, <1>3 DEF Runs, Chunked

(* The other runs lie before it or behind it.                              *)
LEMMA PartApart ==
  ASSUME SlabAssumption, entry \in Entries, RunInv, NEW p, NEW n, Part(p, n), NEW q \in Runs
  PROVE  q = p \/ (q \notin p .. p + n - 1 /\ \A x \in q .. q + entry.slab[q].n - 1 : x \notin p .. p + n - 1)
<1> SUFFICES ASSUME q # p
             PROVE  q \notin p .. p + n - 1 /\ \A x \in q .. q + entry.slab[q].n - 1 : x \notin p .. p + n - 1
  OBVIOUS
<1>1. p \in Pages /\ q \in Pages /\ n \in Nat \ {0} /\ p \in Runs \cup Chunked  BY DEF Part, Runs
<1>2. p \in Nat /\ q \in Nat /\ entry.slab[q].n \in Nat  BY <1>1, NumberOfPages, NodesApart
<1>3. p \notin q + 1 .. q + entry.slab[q].n - 1  BY <1>1 DEF RunInv
<1>4. q \notin p + 1 .. p + n - 1
  <2>1. CASE p \in Runs /\ n = entry.slab[p].n  BY <2>1 DEF RunInv
  <2>2. CASE n = 1  BY <1>2, <2>2
  <2> QED  BY <2>1, <2>2 DEF Part
<1>5. CASE q < p
  <2>1. q + entry.slab[q].n - 1 < p  BY <1>2, <1>3, <1>5
  <2> QED  BY <1>1, <1>2, <1>5, <2>1
<1>6. CASE p < q
  <2>1. p + n - 1 < q  BY <1>1, <1>2, <1>4, <1>6
  <2> QED  BY <1>1, <1>2, <1>6, <2>1
<1> QED  BY <1>2, <1>5, <1>6

LEMMA PartPages ==
  ASSUME SlabAssumption, NEW p, NEW n, Part(p, n)
  PROVE  p .. p + n - 1 \subseteq Pages /\ p \in p .. p + n - 1
         /\ p \in Nat /\ n \in Nat \ {0} /\ p + n <= N /\ N \in Nat
BY NodesApart DEF Part, Pages

(* The n pages from p on, when each of them is in a run of these pages or  *)
(* cut up.                                                                 *)
Tiled(p, n) ==
  /\ \A x \in p .. p + n - 1 : x \in Runs =>
       /\ x + entry.slab[x].n <= p + n
       /\ entry.slab[x].mark \in {"", "start"} /\ entry.slab[x].map = {}
       /\ \A q \in x + 1 .. x + entry.slab[x].n - 1 : q \notin Runs \cup Chunked
  /\ \A q \in p .. p + n - 1 : q \notin Chunked =>
       \E x \in p .. p + n - 1 : x \in Runs /\ q \in x .. x + entry.slab[x].n - 1

LEMMA RunStep ==
  ASSUME SlabAssumption, entry \in Entries, entry' \in Entries, RunInv, NEW p, NEW n, Part(p, n),
         NEW R, R = p .. p + n - 1, \A x \in Pages \ R : Same(x), Tiled(p, n)'
  PROVE  RunInv'
<1>1. R \subseteq Pages /\ p \in Nat /\ n \in Nat \ {0} /\ p + n <= N /\ N \in Nat  BY PartPages
<1>2. \A x \in Pages \ R : /\ (x \in Runs' <=> x \in Runs) /\ (x \in Chunked' <=> x \in Chunked)
                           /\ entry'.slab[x] = entry.slab[x]
  BY SameIs DEF Same
<1>3. \A x \in Runs' : x \in Pages /\ x \in Nat /\ entry'.slab[x].n \in Nat
  BY NumbersAre, NodesApart DEF Runs
<1>4. ASSUME NEW x \in Runs'
      PROVE  /\ x + entry'.slab[x].n <= N
             /\ entry'.slab[x].mark \in {"", "start"} /\ entry'.slab[x].map = {}
             /\ \A q \in x + 1 .. x + entry'.slab[x].n - 1 : q \notin Runs' \cup Chunked'
  <2>1. CASE x \in R
    <3>1. /\ x + entry'.slab[x].n <= p + n
          /\ entry'.slab[x].mark \in {"", "start"} /\ entry'.slab[x].map = {}
          /\ \A q \in x + 1 .. x + entry'.slab[x].n - 1 : q \notin Runs' \cup Chunked'
      BY <2>1 DEF Tiled
    <3>2. x + entry'.slab[x].n <= N
      <4> DEFINE m == entry'.slab[x].n
      <4>1. x \in Nat /\ m \in Nat /\ x + m <= p + n  BY <1>3, <3>1
      <4> HIDE DEF m
      <4>2. x + m <= N  BY <1>1, <4>1
      <4> QED  BY <4>2 DEF m
    <3> QED  BY <3>1, <3>2
  <2>2. CASE x \notin R
    <3>0. x \in Pages \ R /\ p \in R  BY <1>3, <2>2, PartPages
    <3>1. x \in Runs /\ entry'.slab[x] = entry.slab[x] /\ x # p  BY <1>2, <3>0
    <3>2. \A q \in x .. x + entry.slab[x].n - 1 : q \notin R  BY <3>1, PartApart
    <3>3. /\ x + entry.slab[x].n <= N /\ entry.slab[x].mark \in {"", "start"} /\ entry.slab[x].map = {}
          /\ \A q \in x + 1 .. x + entry.slab[x].n - 1 : q \notin Runs \cup Chunked
      BY <3>1 DEF RunInv
    <3>4. x \in Nat /\ entry.slab[x].n \in Nat /\ x \in Pages
      BY <1>3, NumberOfPages, NodesApart
    <3>5. \A q \in x + 1 .. x + entry.slab[x].n - 1 :
            q \in Pages \ R /\ q \in x .. x + entry.slab[x].n - 1
      <4> TAKE q \in x + 1 .. x + entry.slab[x].n - 1
      <4> DEFINE m == entry.slab[x].n
      <4>1. x \in Nat /\ m \in Nat /\ x + m <= N /\ q \in x + 1 .. x + m - 1  BY <3>3, <3>4
      <4> HIDE DEF m
      <4>2. q \in x .. x + m - 1 /\ q \in Pages  BY <1>1, <4>1 DEF Pages
      <4> QED  BY <3>2, <4>2 DEF m
    <3> QED  BY <1>2, <3>1, <3>3, <3>5
  <2> QED  BY <2>1, <2>2
<1>5. ASSUME NEW q \in Pages, q \notin Chunked'
      PROVE  \E x \in Runs' : q \in x .. x + entry'.slab[x].n - 1
  <2>1. CASE q \in R  BY <1>5, <2>1 DEF Tiled
  <2>2. CASE q \notin R
    <3>1. q \in Pages \ Chunked  BY <1>2, <1>5, <2>2
    <3>2. PICK x \in Runs : q \in x .. x + entry.slab[x].n - 1  BY <3>1 DEF RunInv
    <3>3. x \in Pages  BY DEF Runs
    <3>4. x # p \/ (p \in Runs /\ n = entry.slab[p].n)
      BY NumberOfPages DEF Part
    <3>5. x # p  BY <2>2, <3>2, <3>4
    <3>6. x \notin R  BY <3>5, PartApart
    <3> QED  BY <1>2, <3>2, <3>3, <3>6
  <2> QED  BY <2>1, <2>2
<1> QED  BY <1>4, <1>5 DEF RunInv

LEMMA ChunkStep ==
  ASSUME ChunkInv, NEW R, \A x \in Pages \ R : Same(x),
         \A x \in R : x \in Chunked' =>
           /\ ShiftOf(entry', x) \in Shifts /\ Type(x)' = TypeFor(ShiftOf(entry', x))
           /\ entry'.slab[x].mark = ""
           /\ Taken(entry, x)' \subseteq Chunks(ShiftOf(entry', x))
           /\ Reserved(x)' \subseteq Taken(entry, x)' /\ Taken(entry, x)' # Reserved(x)'
  PROVE  ChunkInv'
<1> SUFFICES ASSUME NEW x \in Chunked', x \notin R
             PROVE  /\ ShiftOf(entry', x) \in Shifts /\ Type(x)' = TypeFor(ShiftOf(entry', x))
                    /\ entry'.slab[x].mark = ""
                    /\ Taken(entry, x)' \subseteq Chunks(ShiftOf(entry', x))
                    /\ Reserved(x)' \subseteq Taken(entry, x)' /\ Taken(entry, x)' # Reserved(x)'
  BY DEF ChunkInv
<1>1. x \in Pages /\ Same(x)  BY DEF Chunked
<1>2. x \in Chunked  BY <1>1, SameIs
<1> QED  BY <1>1, <1>2, SameIs DEF ChunkInv, Same

(* Whose page an address is in.                                            *)
PageOf(a) == a.at \div page_size
ChunkOf(a) == (a.at % page_size) \div 2 ^ ShiftOf(entry, PageOf(a))

LEMMA RunAt ==
  ASSUME SlabAssumption, NEW a, NEW p \in Pages, IsRun(a, p)
  PROVE  PageOf(a) = p
BY PageAddress, NodesApart DEF IsRun, PageOf

LEMMA ChunkAt ==
  ASSUME SlabAssumption, ChunkInv, NEW a, NEW p \in Pages, NEW c, IsChunk(a, p, c)
  PROVE  PageOf(a) = p /\ ChunkOf(a) = c /\ c \in Taken(entry, p) /\ c \in Chunks(ShiftOf(entry, p))
         /\ p \in Chunked
<1>1. p \in Chunked /\ c \in Taken(entry, p) /\ a.at = Address(p, ShiftOf(entry, p), c)
  BY DEF IsChunk
<1>2. ShiftOf(entry, p) \in Shifts /\ c \in Chunks(ShiftOf(entry, p))  BY <1>1 DEF ChunkInv
<1>3. p \in Nat  BY NodesApart
<1> QED  BY <1>1, <1>2, <1>3, AddressIs DEF PageOf, ChunkOf

LEMMA LiveAt ==
  ASSUME SlabAssumption, ChunkInv, LiveInv, NEW a \in live
  PROVE  /\ PageOf(a) \in Pages /\ a.at \in Nat /\ a.room \in Nat /\ a.size \in Nat
         /\ IsRun(a, PageOf(a)) \/ IsChunk(a, PageOf(a), ChunkOf(a))
<1>1. a.at \in Nat /\ a.room \in Nat /\ a.size \in Nat  BY DEF LiveInv
<1>2. CASE \E p \in Pages : IsRun(a, p)  BY <1>1, <1>2, RunAt
<1>3. CASE \E p \in Pages : \E c \in Taken(entry, p) : IsChunk(a, p, c)
  BY <1>1, <1>3, ChunkAt
<1> QED  BY <1>2, <1>3 DEF LiveInv

LEMMA LiveStep ==
  ASSUME SlabAssumption, ChunkInv, LiveInv, NEW R, R \subseteq Pages, \A x \in Pages \ R : Same(x),
         \A a \in live' : (a \in live /\ PageOf(a) \notin R)
           \/ (/\ PageOf(a) \in R /\ a \in [at : Nat, room : Nat, size : Nat] /\ a.size <= a.room
               /\ \E p \in R : \/ IsRun(a, p)'
                               \/ \E c \in Taken(entry, p)' : IsChunk(a, p, c)'),
         \A a \in live : PageOf(a) \notin R => a \in live',
         \A a, b \in live' : PageOf(a) \in R /\ a.at = b.at => a = b,
         \A p \in R : p \in Runs' /\ entry'.slab[p].mark = "start" => \E a \in live' : IsRun(a, p)',
         \A p \in R : p \in Chunked' => \A c \in Taken(entry, p)' \ Reserved(p)' :
                                          \E a \in live' : IsChunk(a, p, c)'
  PROVE  LiveInv'
<1>1. ASSUME NEW a \in live'
      PROVE  /\ a \in [at : Nat, room : Nat, size : Nat] /\ a.size <= a.room
             /\ \/ \E p \in Pages : IsRun(a, p)'
                \/ \E p \in Pages : \E c \in Taken(entry, p)' : IsChunk(a, p, c)'
  <2>1. CASE a \in live /\ PageOf(a) \notin R
    <3>1. a \in [at : Nat, room : Nat, size : Nat] /\ a.size <= a.room  BY <2>1 DEF LiveInv
    <3>2. PageOf(a) \in Pages \ R /\ (IsRun(a, PageOf(a)) \/ IsChunk(a, PageOf(a), ChunkOf(a)))
      BY <2>1, LiveAt
    <3>3. PICK p \in Pages : Same(p) /\ (IsRun(a, p) \/ \E c : IsChunk(a, p, c))  BY <3>2
    <3>4. CASE IsRun(a, p)  BY <3>1, <3>3, <3>4, SameIs
    <3>5. CASE \E c : IsChunk(a, p, c)
      <4>0. PICK c : IsChunk(a, p, c)  BY <3>5
      <4>1. IsChunk(a, p, c)'  BY <3>3, <4>0, SameIs
      <4>2. c \in Taken(entry, p)'  BY <3>3, <4>0, SameIs DEF IsChunk
      <4> QED  BY <3>1, <3>3, <4>1, <4>2
    <3> QED  BY <3>3, <3>4, <3>5
  <2>2. CASE /\ a \in [at : Nat, room : Nat, size : Nat] /\ a.size <= a.room
             /\ \E p \in R : \/ IsRun(a, p)'
                             \/ \E c \in Taken(entry, p)' : IsChunk(a, p, c)'
    BY <2>2
  <2> QED  BY <2>1, <2>2
<1>2. ASSUME NEW a \in live', NEW b \in live', a.at = b.at PROVE a = b
  <2>1. CASE PageOf(a) \in R  BY <1>2, <2>1
  <2>2. CASE PageOf(a) \notin R
    <3>1. PageOf(b) \notin R  BY <1>2, <2>2 DEF PageOf
    <3>2. a \in live /\ b \in live  BY <2>2, <3>1
    <3> QED  BY <1>2, <3>2 DEF LiveInv
  <2> QED  BY <2>1, <2>2
<1>3. ASSUME NEW p \in Runs', entry'.slab[p].mark = "start" PROVE \E a \in live' : IsRun(a, p)'
  <2>1. CASE p \in R  BY <1>3, <2>1
  <2>2. CASE p \notin R
    <3>1. p \in Pages /\ Same(p)  BY <2>2 DEF Runs
    <3>2. p \in Runs /\ entry.slab[p].mark = "start"  BY <1>3, <3>1, SameIs DEF Same
    <3>3. PICK a \in live : IsRun(a, p)  BY <3>2 DEF LiveInv
    <3>4. a \in live'  BY <2>2, <3>1, <3>3, RunAt
    <3> QED  BY <3>1, <3>3, <3>4, SameIs
  <2> QED  BY <2>1, <2>2
<1>4. ASSUME NEW p \in Chunked', NEW c \in Taken(entry, p)' \ Reserved(p)'
      PROVE  \E a \in live' : IsChunk(a, p, c)'
  <2>1. CASE p \in R  BY <2>1
  <2>2. CASE p \notin R
    <3>1. p \in Pages /\ Same(p)  BY <2>2 DEF Chunked
    <3>2. p \in Chunked /\ c \in Taken(entry, p) \ Reserved(p)  BY <3>1, SameIs
    <3>3. PICK a \in live : IsChunk(a, p, c)  BY <3>2 DEF LiveInv
    <3>4. a \in live'  BY <2>2, <3>1, <3>3, ChunkAt
    <3> QED  BY <3>1, <3>3, <3>4, SameIs
  <2> QED  BY <2>1, <2>2
<1> QED  BY <1>1, <1>2, <1>3, <1>4 DEF LiveInv

LEMMA PrevFields == \A to, type : Prev(to, type).to = to /\ Prev(to, type).type = type
BY DEF Prev

LEMMA Span ==
  ASSUME NEW p \in Nat, NEW n \in Nat \ {0}
  PROVE  /\ p \in p .. p + n - 1 /\ p \notin p + 1 .. p + n - 1 /\ n <= n
         /\ \A x \in p .. p + n - 1 : x = p \/ x \in p + 1 .. p + n - 1
         /\ \A x \in p + 1 .. p + n - 1 : x \in p .. p + n - 1
OBVIOUS

LEMMA Spans ==
  ASSUME NEW p \in Nat, NEW n \in Nat \ {0}, NEW k \in Nat \ {0}, k <= n
  PROVE  /\ p \in p .. p + n - 1 /\ p \notin p + 1 .. p + n - 1
         /\ \A x \in p .. p + n - 1 : x = p \/ x \in p + 1 .. p + n - 1
         /\ \A x \in p + 1 .. p + n - 1 : x \in p .. p + n - 1
         /\ \A x \in p + 1 .. p + k - 1 : x \in p + 1 .. p + n - 1 /\ x # p + k
         /\ p + k \in p + 1 .. p + n - 1 <=> n > k
         /\ n > k => n - k \in Nat \ {0} /\ p + k + (n - k) = p + n
         /\ \A x \in p + k + 1 .. p + k + (n - k) - 1 : x \in p + 1 .. p + n - 1 /\ x # p + k
         /\ \A x \in p .. p + n - 1 :
              \/ x \in p .. p + k - 1
              \/ n > k /\ x \in p + k .. p + k + (n - k) - 1
         /\ \A x \in p .. p + k - 1 : k = 1 => x = p
         /\ p + k <= p + n
OBVIOUS

(* The first k of n pages are a run or, if k is one, may be cut up; what   *)
(* is over is a run.                                                       *)
Cut(p, n, k) ==
  /\ \/ p \in Chunked /\ p \notin Runs /\ k = 1
     \/ /\ p \in Runs /\ p \notin Chunked /\ entry.slab[p].n = k
        /\ entry.slab[p].mark \in {"", "start"} /\ entry.slab[p].map = {}
  /\ \A x \in p + 1 .. p + n - 1 : x \notin Chunked /\ (x \in Runs <=> x = p + k)
  /\ n > k => entry.slab[p + k] = Slab(n - k, "", {})

LEMMA CutTiled ==
  ASSUME NEW p \in Nat, NEW n \in Nat \ {0}, NEW k \in Nat \ {0}, k <= n, Cut(p, n, k)'
  PROVE  Tiled(p, n)'
<1>1. n > k => /\ entry'.slab[p + k].n = n - k /\ entry'.slab[p + k].mark = ""
               /\ entry'.slab[p + k].map = {} /\ p + k \in p + 1 .. p + n - 1
               /\ p + k \in Runs'
  <2>1. n > k => p + k \in p + 1 .. p + n - 1  BY Spans
  <2>2. n > k => entry'.slab[p + k] = Slab(n - k, "", {}) /\ p + k \in Runs'  BY <2>1 DEF Cut
  <2>3. Slab(n - k, "", {}).n = n - k /\ Slab(n - k, "", {}).mark = "" /\ Slab(n - k, "", {}).map = {}
    <3> SUFFICES ASSUME NEW d, d = n - k
                 PROVE  Slab(d, "", {}).n = d /\ Slab(d, "", {}).mark = "" /\ Slab(d, "", {}).map = {}
      OBVIOUS
    <3> QED  BY DEF Slab
  <2> QED  BY <2>1, <2>2, <2>3
<1>3. ASSUME NEW x \in p .. p + n - 1, x \in Runs'
      PROVE  /\ x + entry'.slab[x].n <= p + n
             /\ entry'.slab[x].mark \in {"", "start"} /\ entry'.slab[x].map = {}
             /\ \A q \in x + 1 .. x + entry'.slab[x].n - 1 : q \notin Runs' \cup Chunked'
  <2>1. CASE x = p
    <3>1. /\ entry'.slab[x].n = k /\ entry'.slab[x].mark \in {"", "start"} /\ entry'.slab[x].map = {}
      BY <1>3, <2>1 DEF Cut
    <3>2. \A q \in p + 1 .. p + k - 1 : q \in p + 1 .. p + n - 1 /\ q # p + k  BY Spans
    <3>3. \A q \in p + 1 .. p + k - 1 : q \notin Runs' \cup Chunked'  BY <3>2 DEF Cut
    <3>4. p + k <= p + n  BY Spans
    <3> QED  BY <2>1, <3>1, <3>3, <3>4
  <2>2. CASE x # p
    <3>1. x \in p + 1 .. p + n - 1  BY <2>2, Spans
    <3>2. x = p + k  BY <1>3, <3>1 DEF Cut
    <3>3. n > k  BY <3>1, <3>2, Spans
    <3>4. entry'.slab[x].n = n - k /\ x + (n - k) = p + n  BY <1>1, <3>2, <3>3, Spans
    <3>5. \A q \in x + 1 .. x + (n - k) - 1 : q \in p + 1 .. p + n - 1 /\ q # p + k
      BY <3>2, Spans
    <3>6. \A q \in x + 1 .. x + (n - k) - 1 : q \notin Runs' \cup Chunked'  BY <3>5 DEF Cut
    <3>7. p + n <= p + n  OBVIOUS
    <3>8. x + entry'.slab[x].n <= p + n  BY <3>4, <3>7
    <3> QED  BY <1>1, <3>2, <3>3, <3>4, <3>6, <3>8
  <2> QED  BY <2>1, <2>2
<1>4. ASSUME NEW q \in p .. p + n - 1, q \notin Chunked'
      PROVE  \E x \in p .. p + n - 1 : x \in Runs' /\ q \in x .. x + entry'.slab[x].n - 1
  <2>1. CASE q \in p .. p + k - 1
    <3>1. k = 1 => q = p  BY <2>1, Spans
    <3>2. p \in Runs' /\ entry'.slab[p].n = k  BY <1>4, <3>1 DEF Cut
    <3>3. p \in p .. p + n - 1  BY Spans
    <3> QED  BY <2>1, <3>2, <3>3
  <2>2. CASE n > k /\ q \in p + k .. p + k + (n - k) - 1
    <3>1. p + k \in p .. p + n - 1  BY <1>1, <2>2, Spans
    <3> QED  BY <1>1, <2>2, <3>1
  <2> QED  BY <2>1, <2>2, Spans
<1> QED  BY <1>3, <1>4 DEF Tiled

LEMMA ListStep ==
  ASSUME NEW home, Lists(entry', home), \A p \in Pages : home[p] = Home(p)',
         \A p \in Pages : home[p] = NULL => entry'.next[p] = NULL
  PROVE  ListInv'
<1>1. home = [p \in Pages |-> home[p]]  BY DEF Lists, Homes
<1>2. home = Homed'  BY <1>1 DEF Homed
<1> QED  BY <1>2 DEF ListInv

-----------------------------------------------------------------------------
(* The homes of pages *)

LEMMA SlotsApart ==
  ASSUME SlabAssumption, NEW s \in Shifts, NEW t \in Shifts
  PROVE  /\ Slot(s) # NULL /\ Slot(s) # Free
         /\ (Slot(s) = Slot(t) => s = t)
<1>1. s \in Nat /\ t \in Nat /\ min_shift \in Nat  BY Shift
<1> QED  BY <1>1, SlotIs, NodesApart DEF Slot

LEMMA HomeIs ==
  ASSUME SlabAssumption, ChunkInv, NEW p \in Pages
  PROVE  /\ Homed[p] = Home(p)
         /\ Home(p) = Free <=> p \in Runs /\ entry.slab[p].mark = ""
         /\ p \in Chunked => (Home(p) = NULL <=> Taken(entry, p) = Chunks(ShiftOf(entry, p)))
         /\ p \in Chunked /\ Home(p) # NULL => Home(p) = Slot(ShiftOf(entry, p))
         /\ \A s \in Shifts : Home(p) = Slot(s) =>
              p \in Chunked /\ ShiftOf(entry, p) = s /\ Taken(entry, p) # Chunks(s)
<1>1. Homed[p] = Home(p)  BY DEF Homed
<1>2. CASE p \in Chunked
  <2>1. ShiftOf(entry, p) \in Shifts /\ Type(p) # "page" /\ p \notin Runs
    BY <1>2 DEF ChunkInv, Chunked, Runs
  <2>2. Home(p) = IF Taken(entry, p) # Chunks(ShiftOf(entry, p)) THEN Slot(ShiftOf(entry, p)) ELSE NULL
    BY <2>1 DEF Home
  <2>3. Slot(ShiftOf(entry, p)) # NULL /\ Slot(ShiftOf(entry, p)) # Free /\ NULL # Free
    BY <2>1, SlotsApart, NodesApart DEF Heads
  <2>4. \A s \in Shifts : Slot(s) # NULL /\ (Slot(s) = Slot(ShiftOf(entry, p)) => s = ShiftOf(entry, p))
    BY <2>1, SlotsApart
  <2> QED  BY <1>1, <1>2, <2>1, <2>2, <2>3, <2>4
<1>3. CASE p \notin Chunked
  <2>1. Type(p) = "page"  BY <1>3 DEF Chunked
  <2>2. Home(p) = IF p \in Runs /\ entry.slab[p].mark = "" THEN Free ELSE NULL  BY <2>1 DEF Home
  <2>3. NULL # Free /\ \A s \in Shifts : Slot(s) # NULL /\ Slot(s) # Free
    BY SlotsApart, NodesApart DEF Heads
  <2> QED  BY <1>1, <1>3, <2>2, <2>3
<1> QED  BY <1>2, <1>3

(* The pages of a run behind its first.                                    *)
LEMMA RunPages ==
  ASSUME SlabAssumption, entry \in Entries, RunInv, NEW p \in Runs, NEW n, n = entry.slab[p].n
  PROVE  /\ Part(p, n) /\ p \notin Chunked
         /\ \A x \in p + 1 .. p + n - 1 :
              /\ x \in Pages /\ x \notin Runs /\ x \notin Chunked /\ Home(x) = NULL
              /\ Type(x) = "page" /\ entry.slab[x].n = 0
<1>1. p \in Pages /\ n \in Nat \ {0} /\ p \notin Chunked /\ p + n <= N
      /\ \A q \in p + 1 .. p + n - 1 : q \notin Runs \cup Chunked
  BY NumberOfPages DEF RunInv, Runs
<1>2. Part(p, n)  BY <1>1 DEF Part
<1>3. p .. p + n - 1 \subseteq Pages /\ p \in Nat  BY <1>2, PartPages
<1>4. ASSUME NEW x \in p + 1 .. p + n - 1
      PROVE  /\ x \in Pages /\ x \notin Runs /\ x \notin Chunked /\ Home(x) = NULL
             /\ Type(x) = "page" /\ entry.slab[x].n = 0
  <2>1. x \in p .. p + n - 1  BY <1>1, <1>3
  <2>2. x \in Pages /\ x \notin Runs /\ x \notin Chunked  BY <1>1, <1>3, <2>1
  <2> QED  BY <2>2 DEF Home, Runs, Chunked
<1> QED  BY <1>1, <1>2, <1>4

(* Nobody has anything in a free run.                                      *)
LEMMA NobodyIn ==
  ASSUME SlabAssumption, entry \in Entries, RunInv, ChunkInv, LiveInv,
         NEW p \in Runs, entry.slab[p].mark = "", NEW n, n = entry.slab[p].n, NEW a \in live
  PROVE  PageOf(a) \notin p .. p + n - 1
<1>1. Part(p, n) /\ p \notin Chunked
      /\ \A x \in p + 1 .. p + n - 1 : x \notin Runs /\ x \notin Chunked
  BY RunPages
<1>2. p \in Nat /\ n \in Nat  BY <1>1, PartPages
<1>3. \A x \in p .. p + n - 1 : x = p \/ x \in p + 1 .. p + n - 1
  <2>1. n \in Nat \ {0}  BY <1>1 DEF Part
  <2> QED  BY <1>2, <2>1, Span
<1>4. IsRun(a, PageOf(a)) \/ IsChunk(a, PageOf(a), ChunkOf(a))  BY LiveAt
<1>5. \/ PageOf(a) \in Runs /\ entry.slab[PageOf(a)].mark = "start"
      \/ PageOf(a) \in Chunked
  BY <1>4 DEF IsRun, IsChunk
<1> QED  BY <1>1, <1>3, <1>5

-----------------------------------------------------------------------------
(* The invariant holds in the beginning *)

LEMMA InitInv ==
  ASSUME SlabAssumption
  PROVE  Init => IInv
<1> SUFFICES ASSUME Init PROVE IInv
  OBVIOUS
<1>1. /\ N \in Nat \ {0} /\ 0 \in Pages /\ Pages \subseteq Nat /\ page_shift \in Nat
      /\ Heads \cap Pages = {} /\ NULL \notin Heads /\ NULL \notin Pages /\ Nodes = Pages \cup Heads
      /\ Slots \cap Pages = {} /\ Slots \subseteq Heads /\ Free \in Heads /\ Free \notin Slots
  BY NodesApart, SlotIs DEF Heads, Pages, SlabAssumption, Slots, Shifts
<1>2. /\ entry = [slab |-> [p \in Pages |-> Slab(IF p = 0 THEN N ELSE 0, "", {})],
                  next |-> [x \in Nodes |-> CASE x \in Slots -> x [] x = 0 -> Free
                                              [] x = Free -> 0 [] OTHER -> NULL],
                  prev |-> [x \in Nodes |-> Prev(IF x = 0 THEN Free ELSE NULL, "page")]]
      /\ bitmap = [p \in Pages |-> {}]
      /\ live = {}
  BY DEF Init
<1>3. /\ \A p \in Pages : /\ entry.slab[p] = Slab(IF p = 0 THEN N ELSE 0, "", {})
                          /\ entry.next[p] = IF p = 0 THEN Free ELSE NULL
                          /\ entry.prev[p] = Prev(IF p = 0 THEN Free ELSE NULL, "page")
      /\ \A h \in Slots : entry.next[h] = h
      /\ entry.next[Free] = 0
  BY <1>1, <1>2
<1>4. entry \in Entries
  <2>1. \A p \in Pages : Slab(IF p = 0 THEN N ELSE 0, "", {}) \in SlabType
    <3> TAKE p \in Pages
    <3>1. (IF p = 0 THEN N ELSE 0) \in 0 .. N + page_shift  BY <1>1
    <3> QED  BY <3>1 DEF Slab, SlabType
  <2>2. \A x \in Nodes : (CASE x \in Slots -> x [] x = 0 -> Free [] x = Free -> 0 [] OTHER -> NULL)
                           \in Nodes \cup {NULL}
    BY <1>1
  <2>3. \A x \in Nodes : Prev(IF x = 0 THEN Free ELSE NULL, "page") \in [to : Nodes \cup {NULL}, type : Types]
    BY <1>1 DEF Prev, Types
  <2> QED  BY <1>2, <2>1, <2>2, <2>3 DEF Entries
<1>5. bitmap \in [Pages -> SUBSET Chunks(min_shift)]  BY <1>2
<1>6. \A p \in Pages : /\ Type(p) = "page" /\ entry.slab[p].n = (IF p = 0 THEN N ELSE 0)
                       /\ entry.slab[p].mark = "" /\ entry.slab[p].map = {}
  <2> TAKE p \in Pages
  <2>1. entry.slab[p] = Slab(IF p = 0 THEN N ELSE 0, "", {})
        /\ entry.prev[p] = Prev(IF p = 0 THEN Free ELSE NULL, "page")
    BY <1>3
  <2> DEFINE m == IF p = 0 THEN N ELSE 0
  <2>2. Slab(m, "", {}).n = m /\ Slab(m, "", {}).mark = "" /\ Slab(m, "", {}).map = {}
    BY DEF Slab
  <2>3. Prev(IF p = 0 THEN Free ELSE NULL, "page").type = "page"
    BY DEF Prev
  <2> QED  BY <2>1, <2>2, <2>3 DEF Type
<1>7. Chunked = {} /\ Runs = {0}  BY <1>1, <1>6 DEF Chunked, Runs
<1>8. RunInv
  <2>1. entry.slab[0].n = N /\ 0 + N <= N
    <3>1. 0 + N <= N  BY <1>1
    <3> QED  BY <1>1, <1>6, <3>1
  <2>2. \A q \in 0 + 1 .. 0 + N - 1 : q # 0  BY <1>1
  <2>3. \A q \in Pages : q \in 0 .. 0 + N - 1  BY <1>1 DEF Pages
  <2> QED  BY <1>1, <1>6, <1>7, <2>1, <2>2, <2>3 DEF RunInv
<1>9. ChunkInv  BY <1>7 DEF ChunkInv
<1>10. LiveInv  BY <1>2, <1>6, <1>7, <1>1 DEF LiveInv
<1>11. \A p \in Pages : Homed[p] = IF p = 0 THEN Free ELSE NULL
  BY <1>6, <1>7 DEF Homed, Home
<1>12. ListInv
  <2> DEFINE rank == [p \in Pages |-> 0]
  <2>1. rank \in Ranks(0) /\ 0 \in Nat  BY DEF Ranks
  <2>2. Homed \in Homes
    <3>1. Homed = [p \in Pages |-> Homed[p]]  BY DEF Homed
    <3> QED  BY <1>1, <1>11, <3>1 DEF Homes
  <2>3. Linked(entry.next, entry.prev, Homed, rank)
    <3> HIDE DEF rank
    <3>1. \A p \in Pages : Homed[p] # NULL => /\ p = 0 /\ Homed[p] = Free /\ entry.next[p] = Free
                                              /\ entry.prev[p].to = Free /\ entry.next[Free] = p
      <4>1. entry.prev[0].to = Free
        <5>1. entry.prev[0] = Prev(Free, "page")  BY <1>1, <1>3
        <5> QED  BY <5>1, PrevFields
      <4> QED  BY <1>1, <1>3, <1>11, <4>1
    <3>2. \A h \in Heads : \/ entry.next[h] = h
                           \/ entry.next[h] \in Pages /\ Homed[entry.next[h]] = h
                              /\ entry.prev[entry.next[h]].to = h
      <4>1. entry.prev[0].to = Free
        <5>1. entry.prev[0] = Prev(Free, "page")  BY <1>1, <1>3
        <5> QED  BY <5>1, PrevFields
      <4>2. CASE TRUE
        <5> TAKE h \in Heads
        <5>1. CASE h \in Slots  BY <1>3, <5>1
        <5>2. CASE h = Free  BY <1>1, <1>3, <1>11, <4>1, <5>2
        <5> QED  BY <5>1, <5>2 DEF Heads
      <4> QED  BY <4>2
    <3> QED  BY <3>1, <3>2 DEF Linked
  <2>4. \A p \in Pages : Homed[p] # NULL => entry.prev[p].type = Kind(Homed[p])
    BY <1>6, <1>11 DEF Kind, Type
  <2>5. \A p \in Pages : Home(p) = NULL => entry.next[p] = NULL
    BY <1>1, <1>3, <1>11 DEF Homed
  <2>6. \E m \in Nat : \E r \in Ranks(m) : Linked(entry.next, entry.prev, Homed, r)
    BY <2>1, <2>3
  <2> QED  BY <2>2, <2>4, <2>5, <2>6 DEF ListInv, Lists
<1> QED  BY <1>4, <1>5, <1>8, <1>9, <1>10, <1>12 DEF IInv

-----------------------------------------------------------------------------
(* The step: a run of pages is handed out *)

LEMMA PagesFor ==
  ASSUME SlabAssumption,
         NEW size \in Nat, size >= max_size, NEW k, k = (size + page_size - 1) \div page_size
  PROVE  k \in Nat \ {0} /\ k * page_size \in Nat /\ size <= k * page_size
<1>1. page_size \in Nat \ {0} /\ page_size >= 2
  <2>1. PICK s \in Shifts : TRUE  BY ExactShift
  <2> DEFINE b == 2 ^ s
             d == 2 ^ (page_shift - s)
  <2>2. b \in Nat \ {0} /\ d \in Nat /\ d >= 2 /\ page_size = d * b /\ page_size \in Nat \ {0}
    BY <2>1, Shift
  <2> HIDE DEF b, d
  <2>3. 2 * 1 <= d * 1 /\ d * 1 <= d * b
    BY <2>2, Times
  <2> QED  BY <2>2, <2>3
<1> DEFINE b == page_size
           x == size + page_size - 1
<1>2. max_size = b \div 2  BY DEF max_size
<1> HIDE DEF b
<1>3. b \in Nat /\ b >= 2  BY <1>1 DEF b
<1>4. x \in Nat /\ x >= b /\ k = x \div b /\ size = x - b + 1
  <2>1. b \div 2 >= 1  BY <1>3
  <2>2. x = size + b - 1 /\ k = x \div b  BY DEF b
  <2> HIDE DEF x
  <2> QED  BY <1>2, <1>3, <2>1, <2>2
<1> HIDE DEF x
<1>5. k \in Nat /\ x % b \in 0 .. b - 1 /\ x = b * k + (x % b)
  <2>1. x \in Nat /\ b \in Nat \ {0}  BY <1>3, <1>4
  <2>2. x \div b \in Nat /\ x % b \in 0 .. b - 1 /\ x = b * (x \div b) + (x % b)
    BY <2>1, Quotient, Zenon
  <2> QED  BY <1>4, <2>2
<1>6. k # 0  BY <1>3, <1>4, <1>5
<1>7. k * b \in Nat /\ b * k = k * b  BY <1>3, <1>5, Times
<1>8. size <= k * b  BY <1>3, <1>4, <1>5, <1>7
<1> QED  BY <1>5, <1>6, <1>7, <1>8 DEF b

RunTaken(p, n, k, home, E) ==
  /\ p \in Runs /\ entry.slab[p].mark = "" /\ Part(p, n) /\ k <= n
  /\ E \in Entries /\ Lists(E, home)
  /\ \A x \in Pages : home[x] = NULL => E.next[x] = NULL
  /\ \A x \in Pages \ (p .. p + n - 1) :
       /\ E.prev[x].type = entry.prev[x].type /\ E.slab[x] = entry.slab[x]
       /\ home[x] = Home(x)
  /\ \A x \in p .. p + n - 1 : E.prev[x].type = "page"
  /\ E.slab[p] = Slab(k, "start", {}) /\ home[p] = NULL
  /\ n > k => E.slab[p + k] = Slab(n - k, "", {}) /\ home[p + k] = Free
  /\ \A x \in p + 1 .. p + n - 1 : x # p + k => E.slab[x].n = 0 /\ home[x] = NULL
  /\ \A h \in Slots : E.next[h] = entry.next[h]
  /\ \A a \in live : PageOf(a) \notin p .. p + n - 1

(* What is in the pages of the run that was found.                         *)
LEMMA RunAllocated ==
  ASSUME SlabAssumption, IInv, NEW k \in Nat \ {0}, NEW p, p = FirstFit(entry, k), p # NULL,
         NEW n, n = entry.slab[p].n, NEW E, E = slab_alloc_pages(entry, p, k),
         NEW home, home = HomesAllocated(Homed, p, n, k)
  PROVE  RunTaken(p, n, k, home, E)
<1>1. /\ entry \in Entries /\ Lists(entry, Homed) /\ RunInv /\ ChunkInv /\ LiveInv
      /\ \A x \in Pages : Homed[x] = Home(x) /\ (Homed[x] = NULL => entry.next[x] = NULL)
  BY HomeIs DEF IInv, ListInv
<1>2. p \in Pages /\ Homed[p] = Free /\ n >= k  BY <1>1, FirstFitIs
<1>3. p \in Runs /\ entry.slab[p].mark = ""  BY <1>1, <1>2, HomeIs
<1>4. /\ Part(p, n) /\ p \notin Chunked
      /\ \A x \in p + 1 .. p + n - 1 :
           /\ x \in Pages /\ x \notin Runs /\ x \notin Chunked /\ Home(x) = NULL
           /\ Type(x) = "page" /\ entry.slab[x].n = 0
  BY <1>1, <1>3, RunPages
<1>5. p \in Nat /\ n \in Nat \ {0} /\ p + n <= N /\ p .. p + n - 1 \subseteq Pages  BY <1>4, PartPages
<1>6. k <= n  BY <1>2, <1>5
<1>7. \A x \in p + 1 .. p + n - 1 : Homed[x] = NULL /\ entry.prev[x].type = "page"
  BY <1>1, <1>4 DEF Type
<1>8. /\ E \in Entries /\ Lists(E, home)
      /\ \A x \in Pages : home[x] = NULL => E.next[x] = NULL
      /\ \A x \in Pages :
           /\ E.prev[x].type = entry.prev[x].type
           /\ E.slab[x] = IF x = p THEN Slab(k, "start", {})
                          ELSE IF x \in p + 1 .. p + k - 1 THEN Slab(0, "busy", {})
                          ELSE IF x = p + k /\ n > k
                          THEN Slab(n - k, "", {}) ELSE entry.slab[x]
      /\ \A h \in Slots : E.next[h] = entry.next[h]
  <2>1. Allocatable(entry, Homed, p, n, k)  BY <1>1, <1>2, <1>5, <1>6, <1>7 DEF Allocatable
  <2>2. Allocated(entry, p, n, k, home, E)  BY <1>1, <2>1, PagesAllocated
  <2> QED  BY <2>2 DEF Allocated
<1>9. /\ p \in p .. p + n - 1 /\ p \notin p + 1 .. p + n - 1
      /\ \A x \in p .. p + n - 1 : x = p \/ x \in p + 1 .. p + n - 1
      /\ \A x \in p + 1 .. p + n - 1 : x \in p .. p + n - 1
      /\ \A x \in p + 1 .. p + k - 1 : x \in p + 1 .. p + n - 1 /\ x # p + k
      /\ n > k => p + k \in p + 1 .. p + n - 1
  BY <1>5, <1>6, Spans
<1>10. \A x \in Pages : home[x] = IF x = p THEN NULL
                                  ELSE IF x = p + k /\ n > k THEN Free ELSE Homed[x]
  BY DEF HomesAllocated
<1>11. \A x \in Pages \ (p .. p + n - 1) :
         /\ E.prev[x].type = entry.prev[x].type /\ E.slab[x] = entry.slab[x]
         /\ home[x] = Home(x)
  <2> TAKE x \in Pages \ (p .. p + n - 1)
  <2>1. x # p /\ x \notin p + 1 .. p + k - 1 /\ ~ (x = p + k /\ n > k)  BY <1>9
  <2> QED  BY <1>1, <1>8, <1>10, <2>1
<1>12. \A x \in p .. p + n - 1 : E.prev[x].type = "page"
  <2> SUFFICES ASSUME NEW x \in p .. p + n - 1 PROVE E.prev[x].type = "page"
    OBVIOUS
  <2>1. x \in Pages  BY <1>5
  <2>2. x = p => entry.prev[x].type = "page"  BY <1>3 DEF Runs, Type
  <2>3. x # p => entry.prev[x].type = "page"  BY <1>7, <1>9
  <2> QED  BY <1>8, <2>1, <2>2, <2>3
<1>13. E.slab[p] = Slab(k, "start", {}) /\ home[p] = NULL  BY <1>2, <1>8, <1>10
<1>14. n > k => E.slab[p + k] = Slab(n - k, "", {}) /\ home[p + k] = Free
  <2> SUFFICES ASSUME n > k PROVE E.slab[p + k] = Slab(n - k, "", {}) /\ home[p + k] = Free
    OBVIOUS
  <2>1. p + k \in Pages /\ p + k # p /\ p + k \notin p + 1 .. p + k - 1  BY <1>5, <1>9
  <2> QED  BY <1>8, <1>10, <2>1
<1>15. \A x \in p + 1 .. p + n - 1 : x # p + k => E.slab[x].n = 0 /\ home[x] = NULL
  <2> SUFFICES ASSUME NEW x \in p + 1 .. p + n - 1, x # p + k PROVE E.slab[x].n = 0 /\ home[x] = NULL
    OBVIOUS
  <2>1. x \in Pages /\ x # p  BY <1>5, <1>9
  <2>2. E.slab[x] = Slab(0, "busy", {}) \/ E.slab[x] = entry.slab[x]  BY <1>8, <2>1
  <2>3. E.slab[x].n = 0  BY <1>4, <2>2 DEF Slab
  <2> QED  BY <1>7, <1>10, <2>1, <2>3
<1>16. \A a \in live : PageOf(a) \notin p .. p + n - 1  BY <1>1, <1>3, NobodyIn
<1> QED  BY <1>3, <1>4, <1>6, <1>8, <1>11, <1>12, <1>13, <1>14, <1>15, <1>16 DEF RunTaken

(* What is in the pages afterwards, when the first k are a run.            *)
LEMMA AllocRunInv ==
  ASSUME SlabAssumption, IInv, NEW size \in Nat, AllocRun(size)
  PROVE  IInv'
<1> DEFINE k0 == (size + page_size - 1) \div page_size
<1>1. PICK k : k = k0  OBVIOUS
<1>2. PICK p : p = FirstFit(entry, k)  OBVIOUS
<1>3. /\ size >= max_size /\ p # NULL /\ entry' = slab_alloc_pages(entry, p, k)
      /\ live' = live \cup {[at |-> p * page_size, room |-> k * page_size, size |-> size]}
      /\ bitmap' = bitmap
  BY <1>1, <1>2 DEF AllocRun
<1>4. k \in Nat \ {0} /\ k * page_size \in Nat /\ size <= k * page_size  BY <1>1, <1>3, PagesFor
<1> HIDE DEF k0
<1>5. PICK n : n = entry.slab[p].n  OBVIOUS
<1>6. PICK E : E = entry'  OBVIOUS
<1>7. PICK home : home = HomesAllocated(Homed, p, n, k)
  OBVIOUS
<1>8. /\ p \in Runs /\ entry.slab[p].mark = "" /\ Part(p, n) /\ k <= n
      /\ E \in Entries /\ Lists(E, home)
      /\ \A x \in Pages : home[x] = NULL => E.next[x] = NULL
      /\ \A x \in Pages \ (p .. p + n - 1) :
           /\ E.prev[x].type = entry.prev[x].type /\ E.slab[x] = entry.slab[x]
           /\ home[x] = Home(x)
      /\ \A x \in p .. p + n - 1 : E.prev[x].type = "page"
      /\ E.slab[p] = Slab(k, "start", {}) /\ home[p] = NULL
      /\ n > k => E.slab[p + k] = Slab(n - k, "", {}) /\ home[p + k] = Free
      /\ \A x \in p + 1 .. p + n - 1 : x # p + k => E.slab[x].n = 0 /\ home[x] = NULL
      /\ \A a \in live : PageOf(a) \notin p .. p + n - 1
  <2>1. E = slab_alloc_pages(entry, p, k)  BY <1>3, <1>6
  <2>2. RunTaken(p, n, k, home, E)  BY <1>2, <1>3, <1>4, <1>5, <1>7, <2>1, RunAllocated
  <2> QED  BY <2>2 DEF RunTaken
<1>9. PICK R : R = p .. p + n - 1  OBVIOUS
<1>10. /\ R \subseteq Pages /\ p \in R /\ p \in Nat /\ n \in Nat \ {0} /\ p \in Pages
  BY <1>8, <1>9, PartPages
<1>11. /\ \A x \in R : x = p \/ x \in p + 1 .. p + n - 1
       /\ \A x \in p + 1 .. p + n - 1 : x \in R
       /\ p + k \in p + 1 .. p + n - 1 <=> n > k
       /\ p \notin p + 1 .. p + n - 1
       /\ n > k => n - k \in Nat \ {0}
  BY <1>4, <1>8, <1>9, <1>10, Spans
<1>12. \A x \in Pages \ R : Same(x) /\ home[x] = Home(x)  BY <1>3, <1>6, <1>8, <1>9 DEF Same
<1>13. \A x \in R : Type(x)' = "page" /\ x \notin Chunked'
  BY <1>6, <1>8, <1>9, <1>10 DEF Type, Chunked
<1>14. entry'.slab[p].n = k /\ entry'.slab[p].mark = "start" /\ entry'.slab[p].map = {}
  <2>1. entry'.slab[p] = Slab(k, "start", {})  BY <1>6, <1>8
  <2> QED  BY <2>1, SlabOf
<1>15. p \in Runs'  BY <1>4, <1>10, <1>13, <1>14 DEF Runs
<1>16. n > k => entry'.slab[p + k] = Slab(n - k, "", {})  BY <1>6, <1>8
<1>17. n > k => entry'.slab[p + k].n = n - k /\ entry'.slab[p + k].mark = ""
  <2> SUFFICES ASSUME NEW d, d = n - k, n > k PROVE entry'.slab[p + k].n = d /\ entry'.slab[p + k].mark = ""
    OBVIOUS
  <2>1. PICK v : v = entry'.slab[p + k]  OBVIOUS
  <2>2. v = Slab(d, "", {})  BY <1>16, <2>1
  <2>3. v.n = d /\ v.mark = ""  BY <1>4, <1>10, <2>2 DEF Slab
  <2> QED  BY <2>1, <2>3
<1>18. n > k => p + k \in Runs'
  BY <1>10, <1>11, <1>13, <1>17 DEF Runs
<1>19. \A x \in p + 1 .. p + n - 1 : x # p + k => x \notin Runs'
  BY <1>6, <1>8 DEF Runs
<1>20. Cut(p, n, k)'
  <2>1. \A x \in p + 1 .. p + n - 1 : x \notin Chunked' /\ (x \in Runs' <=> x = p + k)
    <3> TAKE x \in p + 1 .. p + n - 1
    <3>1. x \in R  BY <1>11
    <3>2. x = p + k => n > k  BY <1>11
    <3> QED  BY <1>13, <1>18, <1>19, <3>1, <3>2
  <2>2. p \in Runs' /\ p \notin Chunked' /\ entry'.slab[p].n = k
        /\ entry'.slab[p].mark \in {"", "start"} /\ entry'.slab[p].map = {}
    BY <1>10, <1>13, <1>14, <1>15
  <2> QED  BY <1>16, <2>1, <2>2 DEF Cut
<1>21. Tiled(p, n)'  BY <1>4, <1>8, <1>10, <1>20, CutTiled
<1>22. /\ entry \in Entries /\ entry' \in Entries /\ RunInv /\ ChunkInv /\ LiveInv
       /\ bitmap \in [Pages -> SUBSET Chunks(min_shift)]
  BY <1>6, <1>8 DEF IInv
<1>23. RunInv'  BY <1>8, <1>9, <1>12, <1>21, <1>22, RunStep
<1>24. ChunkInv'  BY <1>12, <1>13, <1>22, ChunkStep
<1>25. LiveInv'
  <2> DEFINE b == [at |-> p * page_size, room |-> k * page_size, size |-> size]
  <2>1. b.at = p * page_size /\ b.room = k * page_size /\ b.size = size
        /\ b \in [at : Nat, room : Nat, size : Nat]
    BY <1>4, <1>10, PageAddress
  <2> HIDE DEF b
  <2>2. live' = live \cup {b}  BY <1>3 DEF b
  <2>3. IsRun(b, p)'  BY <1>14, <1>15, <2>1 DEF IsRun
  <2>4. PageOf(b) = p  BY <1>10, <2>1, PageAddress DEF PageOf
  <2>5. \A a \in live : PageOf(a) \notin R  BY <1>8, <1>9
  <2>6. \A a \in live' : (a \in live /\ PageOf(a) \notin R)
          \/ (/\ PageOf(a) \in R /\ a \in [at : Nat, room : Nat, size : Nat] /\ a.size <= a.room
              /\ \E x \in R : \/ IsRun(a, x)'
                              \/ \E c \in Taken(entry, x)' : IsChunk(a, x, c)')
    <3>1. b.size <= b.room  BY <1>4, <2>1
    <3> QED  BY <1>10, <2>1, <2>2, <2>3, <2>4, <2>5, <3>1
  <2>7. \A a, c \in live' : PageOf(a) \in R /\ a.at = c.at => a = c
    <3>1. \A a, c : a.at = c.at => PageOf(a) = PageOf(c)  BY DEF PageOf
    <3> QED  BY <1>10, <2>2, <2>4, <2>5, <3>1
  <2>8. \A x \in R : x \in Runs' /\ entry'.slab[x].mark = "start" => \E a \in live' : IsRun(a, x)'
    <3> SUFFICES ASSUME NEW x \in R, x \in Runs', entry'.slab[x].mark = "start"
                 PROVE  \E a \in live' : IsRun(a, x)'
      OBVIOUS
    <3>1. x = p  BY <1>11, <1>17, <1>19
    <3> QED  BY <2>2, <2>3, <3>1
  <2> QED  BY <1>10, <1>12, <1>13, <1>22, <2>2, <2>5, <2>6, <2>7, <2>8, LiveStep
<1>26. \A x \in Pages : home[x] = Home(x)'
  <2> TAKE x \in Pages
  <2>1. CASE x \notin R  BY <1>12, <2>1, SameIs
  <2>2. CASE x = p
    BY <1>8, <1>10, <1>13, <1>14, <2>2 DEF Home
  <2>3. CASE x = p + k /\ n > k
    BY <1>8, <1>11, <1>13, <1>17, <1>18, <2>3 DEF Home
  <2>4. CASE x \in p + 1 .. p + n - 1 /\ x # p + k
    BY <1>8, <1>11, <1>13, <1>19, <2>4 DEF Home
  <2> QED  BY <1>11, <2>1, <2>2, <2>3, <2>4
<1>27. ListInv'  BY <1>6, <1>8, <1>26, ListStep
<1> QED  BY <1>3, <1>22, <1>23, <1>24, <1>25, <1>27 DEF IInv

-----------------------------------------------------------------------------
(* The step: a page is cut up *)

(* What a page of a type has taken from the start, and what of it is for   *)
(* the bitmap.                                                             *)
FirstOf(s) == IF TypeFor(s) = "small" THEN BitmapChunks(s) ELSE 0
TakenFirst(s, c) == IF TypeFor(s) = "small" THEN 0 .. c ELSE {c}
Kept(s) == IF TypeFor(s) = "small" THEN 0 .. BitmapChunks(s) - 1 ELSE {}

LEMMA FirstChunk ==
  ASSUME SlabAssumption,
         NEW s \in Shifts, NEW c, c = FirstOf(s), NEW T, T = TakenFirst(s, c), NEW V, V = Kept(s)
  PROVE  /\ c \in Chunks(s) /\ T \subseteq Chunks(s) /\ T # Chunks(s)
         /\ V \subseteq T /\ T \ V = {c} /\ T \subseteq Chunks(min_shift)
         /\ TypeFor(s) # "small" => T \subseteq Chunks(exact_shift)
<1>1. /\ s \in Nat /\ min_shift \in Nat /\ page_shift \in Nat /\ min_shift <= s /\ s < page_shift
      /\ 2 ^ (page_shift - s) \in Nat /\ 2 ^ (page_shift - s) >= 2
  BY Shift
<1>2. exact_shift \in Shifts /\ min_shift \in Shifts /\ exact_shift \in Nat
  <2>1. min_shift \in Shifts  BY <1>1 DEF Shifts
  <2> QED  BY <2>1, ExactShift, Shift
<1>3. TypeFor(s) = "small" <=> s < exact_shift  BY DEF TypeFor
<1> USE DEF FirstOf, TakenFirst, Kept
<1> DEFINE m == 2 ^ (page_shift - s)
<1>4. Chunks(s) = 0 .. m - 1  BY DEF Chunks
<1>5. m \in Nat /\ m >= 2  BY <1>1
<1> HIDE DEF m
<1>6. CASE TypeFor(s) = "small"
  <2>1. c \in Nat \ {0} /\ c + 1 < m
    BY <1>3, <1>6, BitmapIs DEF m
  <2>2. T = 0 .. c /\ V = 0 .. c - 1  BY <1>6
  <2>3. c \in 0 .. m - 1 /\ 0 .. c \subseteq 0 .. m - 1 /\ m - 1 \in 0 .. m - 1 /\ m - 1 \notin 0 .. c
        /\ 0 .. c - 1 \subseteq 0 .. c /\ (0 .. c) \ (0 .. c - 1) = {c}
    BY <1>5, <2>1
  <2>4. Chunks(s) \subseteq Chunks(min_shift)  BY <1>1, <1>2, FewerChunks
  <2> QED  BY <1>4, <1>6, <2>2, <2>3, <2>4
<1>7. CASE TypeFor(s) # "small"
  <2>1. c = 0 /\ T = {0} /\ V = {}  BY <1>7
  <2>2. 0 \in Chunks(s) /\ 1 \in Chunks(s)  BY <1>4, <1>5
  <2>3. exact_shift <= s  BY <1>1, <1>2, <1>3, <1>7
  <2>4. Chunks(s) \subseteq Chunks(min_shift) /\ Chunks(s) \subseteq Chunks(exact_shift)
    BY <1>1, <1>2, <2>3, FewerChunks
  <2> QED  BY <2>1, <2>2, <2>4
<1> QED  BY <1>6, <1>7

(* Its entry.                                                              *)
CutUp(e, p, s, v) ==
  [e EXCEPT !.slab[p] = v, !.next[p] = Slot(s), !.prev[p] = Prev(Slot(s), TypeFor(s)),
            !.next[Slot(s)] = p]

LEMMA PageCut ==
  ASSUME SlabAssumption,
         NEW e \in Entries, NEW p \in Pages, NEW s \in Shifts, NEW v \in SlabType, NEW X, X = CutUp(e, p, s, v)
  PROVE  /\ X \in Entries
         /\ \A x \in Pages : /\ X.slab[x] = IF x = p THEN v ELSE e.slab[x]
                             /\ X.next[x] = IF x = p THEN Slot(s) ELSE e.next[x]
                             /\ X.prev[x] = IF x = p THEN Prev(Slot(s), TypeFor(s)) ELSE e.prev[x]
         /\ \A h \in Heads : X.next[h] = IF h = Slot(s) THEN p ELSE e.next[h]
<1>1. /\ e.next \in [Nodes -> Nodes \cup {NULL}] /\ e.prev \in [Nodes -> [to : Nodes \cup {NULL}, type : Types]]
      /\ e.slab \in [Pages -> SlabType]
      /\ e = [slab |-> e.slab, next |-> e.next, prev |-> e.prev]
  BY DEF Entries
<1>2. Slot(s) \in Heads /\ Heads \cap Pages = {} /\ Nodes = Pages \cup Heads
  BY SlotIs, NodesApart
<1>3. X = [slab |-> [e.slab EXCEPT ![p] = v],
           next |-> [e.next EXCEPT ![p] = Slot(s), ![Slot(s)] = p],
           prev |-> [e.prev EXCEPT ![p] = Prev(Slot(s), TypeFor(s))]]
  BY <1>1 DEF CutUp
<1>4. Prev(Slot(s), TypeFor(s)) \in [to : Nodes \cup {NULL}, type : Types]
  BY <1>2, SlotTypes DEF Prev
<1>5. X \in Entries  BY <1>1, <1>2, <1>3, <1>4 DEF Entries
<1>6. \A x \in Pages : X.slab[x] = IF x = p THEN v ELSE e.slab[x]  BY <1>1, <1>3
<1>7. \A x \in Pages : X.prev[x] = IF x = p THEN Prev(Slot(s), TypeFor(s)) ELSE e.prev[x]
  BY <1>1, <1>2, <1>3
<1>8. \A x \in Pages : X.next[x] = IF x = p THEN Slot(s) ELSE e.next[x]
  BY <1>1, <1>2, <1>3
<1>9. \A h \in Heads : X.next[h] = IF h = Slot(s) THEN p ELSE e.next[h]
  BY <1>1, <1>2, <1>3
<1> QED  BY <1>5, <1>6, <1>7, <1>8, <1>9

LEMMA AllocPageInv ==
  ASSUME SlabAssumption, IInv, NEW size \in Nat, AllocPage(size)
  PROVE  IInv'
<1>1. PICK s : s = ShiftFor(size)  OBVIOUS
<1>2. PICK p : p = FirstFit(entry, 1)  OBVIOUS
<1>3. PICK E : E = slab_alloc_pages(entry, p, 1)  OBVIOUS
<1>4. PICK c : c = IF TypeFor(s) = "small" THEN BitmapChunks(s) ELSE 0  OBVIOUS
<1>5. PICK v : v = Slab(IF TypeFor(s) = "exact" THEN 0 ELSE s, "", IF TypeFor(s) = "small" THEN {} ELSE {c})
  OBVIOUS
<1>6. PICK X : X = entry'  OBVIOUS
<1>7. /\ size < max_size /\ entry.next[Slot(s)] = Slot(s) /\ p # NULL
      /\ X = CutUp(E, p, s, v)
      /\ bitmap' = IF TypeFor(s) = "small" THEN [bitmap EXCEPT ![p] = 0 .. c] ELSE bitmap
      /\ live' = live \cup {[at |-> Address(p, s, c), room |-> 2 ^ s, size |-> size]}
  BY <1>1, <1>2, <1>3, <1>4, <1>5, <1>6 DEF AllocPage, Granted, CutUp
<1>8. s \in Shifts /\ size <= 2 ^ s  BY <1>1, <1>7, ShiftForIs
<1>9. PICK n : n = entry.slab[p].n  OBVIOUS
<1>10. PICK home : home = HomesAllocated(Homed, p, n, 1)  OBVIOUS
<1>11. RunTaken(p, n, 1, home, E)
  <2>1. 1 \in Nat \ {0}  OBVIOUS
  <2> QED  BY <1>2, <1>3, <1>7, <1>9, <1>10, <2>1, RunAllocated
<1>12. /\ p \in Runs /\ entry.slab[p].mark = "" /\ Part(p, n) /\ 1 <= n
       /\ E \in Entries /\ Lists(E, home)
       /\ \A x \in Pages : home[x] = NULL => E.next[x] = NULL
       /\ \A x \in Pages \ (p .. p + n - 1) :
            /\ E.prev[x].type = entry.prev[x].type /\ E.slab[x] = entry.slab[x]
            /\ home[x] = Home(x)
       /\ \A x \in p .. p + n - 1 : E.prev[x].type = "page"
       /\ home[p] = NULL
       /\ n > 1 => E.slab[p + 1] = Slab(n - 1, "", {}) /\ home[p + 1] = Free
       /\ \A x \in p + 1 .. p + n - 1 : x # p + 1 => E.slab[x].n = 0 /\ home[x] = NULL
       /\ \A h \in Slots : E.next[h] = entry.next[h]
       /\ \A a \in live : PageOf(a) \notin p .. p + n - 1
  BY <1>11 DEF RunTaken
<1>13. PICK R : R = p .. p + n - 1  OBVIOUS
<1>14. R \subseteq Pages /\ p \in R /\ p \in Nat /\ n \in Nat \ {0} /\ p \in Pages /\ N \in Nat
  BY <1>12, <1>13, PartPages
<1>15. /\ \A x \in R : x = p \/ x \in p + 1 .. p + n - 1
       /\ \A x \in p + 1 .. p + n - 1 : x \in R
       /\ p + 1 \in p + 1 .. p + n - 1 <=> n > 1
       /\ p \notin p + 1 .. p + n - 1
       /\ n > 1 => n - 1 \in Nat \ {0}
  <2>1. 1 \in Nat \ {0}  OBVIOUS
  <2> QED  BY <1>12, <1>13, <1>14, <2>1, Spans
<1>16. PICK T : T = IF TypeFor(s) = "small" THEN 0 .. c ELSE {c}  OBVIOUS
<1>17. PICK V : V = IF TypeFor(s) = "small" THEN 0 .. BitmapChunks(s) - 1 ELSE {}  OBVIOUS
<1>18. /\ c \in Chunks(s) /\ T \subseteq Chunks(s) /\ T # Chunks(s)
       /\ V \subseteq T /\ T \ V = {c} /\ T \subseteq Chunks(min_shift)
       /\ TypeFor(s) # "small" => T \subseteq Chunks(exact_shift)
  <2>1. c = FirstOf(s) /\ T = TakenFirst(s, c) /\ V = Kept(s)
    BY <1>4, <1>16, <1>17 DEF FirstOf, TakenFirst, Kept
  <2> QED  BY <1>8, <2>1, FirstChunk
<1>19. /\ v \in SlabType /\ v.n = (IF TypeFor(s) = "exact" THEN 0 ELSE s) /\ v.mark = ""
       /\ v.map = (IF TypeFor(s) = "small" THEN {} ELSE {c})
  <2>1. PICK z : z = IF TypeFor(s) = "exact" THEN 0 ELSE s  OBVIOUS
  <2>2. PICK Y : Y = IF TypeFor(s) = "small" THEN {} ELSE {c}  OBVIOUS
  <2>3. v = Slab(z, "", Y)  BY <1>5, <2>1, <2>2
  <2>4. v.n = z /\ v.mark = "" /\ v.map = Y  BY <2>3 DEF Slab
  <2>5. z \in 0 .. N + page_shift
    <3>1. s \in Nat /\ s < page_shift /\ page_shift \in Nat  BY <1>8, Shift
    <3> QED  BY <1>14, <2>1, <3>1
  <2>6. Y \subseteq Chunks(exact_shift)  BY <1>16, <1>18, <2>2
  <2>7. v \in SlabType  BY <2>3, <2>5, <2>6 DEF Slab, SlabType
  <2> QED  BY <2>1, <2>2, <2>4, <2>7
<1>20. /\ X \in Entries
       /\ \A x \in Pages : /\ X.slab[x] = IF x = p THEN v ELSE E.slab[x]
                           /\ X.next[x] = IF x = p THEN Slot(s) ELSE E.next[x]
                           /\ X.prev[x] = IF x = p THEN Prev(Slot(s), TypeFor(s)) ELSE E.prev[x]
       /\ \A h \in Heads : X.next[h] = IF h = Slot(s) THEN p ELSE E.next[h]
  <2>1. E \in Entries /\ p \in Pages /\ s \in Shifts /\ v \in SlabType /\ X = CutUp(E, p, s, v)
    BY <1>7, <1>8, <1>12, <1>14, <1>19
  <2> QED  BY <2>1, PageCut
<1>21. X.prev[p].type = TypeFor(s) /\ X.slab[p] = v
  <2>1. X.prev[p] = Prev(Slot(s), TypeFor(s)) /\ X.slab[p] = v  BY <1>14, <1>20
  <2> QED  BY <2>1, PrevOf
<1>22. /\ entry \in Entries /\ entry' \in Entries /\ RunInv /\ ChunkInv /\ LiveInv
       /\ bitmap \in [Pages -> SUBSET Chunks(min_shift)]
  BY <1>6, <1>20 DEF IInv
<1>23. /\ bitmap' \in [Pages -> SUBSET Chunks(min_shift)]
       /\ \A x \in Pages : x # p => bitmap'[x] = bitmap[x]
       /\ TypeFor(s) = "small" => bitmap'[p] = T
  BY <1>7, <1>14, <1>16, <1>18, <1>22
<1>24. Type(p)' = TypeFor(s) /\ ShiftOf(entry', p) = s /\ Taken(entry, p)' = T /\ Reserved(p)' = V
  <2>1. Type(p)' = TypeFor(s)  BY <1>6, <1>21 DEF Type
  <2>2. ShiftOf(entry', p) = s
    BY <1>6, <1>19, <1>21 DEF ShiftOf, TypeFor
  <2>3. Taken(entry, p)' = T
    BY <1>6, <1>16, <1>19, <1>21, <1>23 DEF Taken
  <2>4. Reserved(p)' = V  BY <1>17, <2>1, <2>2 DEF Reserved
  <2> QED  BY <2>1, <2>2, <2>3, <2>4
<1>25. p \in Chunked' /\ p \notin Runs'  BY <1>14, <1>24, SlotTypes DEF Chunked, Runs
<1>26. \A x \in Pages \ R : Same(x) /\ home[x] = Home(x) /\ x # p
  <2> SUFFICES ASSUME NEW x \in Pages \ R PROVE Same(x) /\ home[x] = Home(x) /\ x # p
    OBVIOUS
  <2>1. x # p /\ x \in Pages \ (p .. p + n - 1)  BY <1>13, <1>14
  <2>2. X.prev[x] = E.prev[x] /\ X.slab[x] = E.slab[x] /\ bitmap'[x] = bitmap[x]  BY <1>20, <1>23, <2>1
  <2> QED  BY <1>6, <1>12, <2>1, <2>2 DEF Same
<1>27. \A x \in p + 1 .. p + n - 1 : /\ x \in Pages /\ x # p /\ Type(x)' = "page" /\ x \notin Chunked'
                                     /\ entry'.slab[x] = E.slab[x]
  <2> TAKE x \in p + 1 .. p + n - 1
  <2>1. x \in Pages /\ x # p /\ x \in R  BY <1>14, <1>15
  <2>2. X.prev[x] = E.prev[x] /\ X.slab[x] = E.slab[x]  BY <1>20, <2>1
  <2> QED  BY <1>6, <1>12, <1>13, <2>1, <2>2 DEF Type, Chunked
<1>28. n > 1 => /\ entry'.slab[p + 1] = Slab(n - 1, "", {}) /\ entry'.slab[p + 1].n = n - 1
                /\ entry'.slab[p + 1].mark = "" /\ p + 1 \in Runs'
  <2> SUFFICES ASSUME NEW d, d = n - 1, n > 1
               PROVE  /\ entry'.slab[p + 1] = Slab(d, "", {}) /\ entry'.slab[p + 1].n = d
                      /\ entry'.slab[p + 1].mark = "" /\ p + 1 \in Runs'
    OBVIOUS
  <2>1. PICK w : w = entry'.slab[p + 1]  OBVIOUS
  <2>2. w = Slab(d, "", {})  BY <1>12, <1>15, <1>27, <2>1
  <2>3. d \in Nat \ {0}  BY <1>15
  <2>4. w.n = d /\ w.mark = ""  BY <1>14, <2>2, <2>3 DEF Slab
  <2>5. p + 1 \in Runs'  BY <1>15, <1>27, <2>1, <2>3, <2>4 DEF Runs
  <2> QED  BY <2>1, <2>2, <2>4, <2>5
<1>29. \A x \in p + 1 .. p + n - 1 : x # p + 1 => x \notin Runs'
  BY <1>12, <1>27 DEF Runs
<1>30. Cut(p, n, 1)'
  <2>1. \A x \in p + 1 .. p + n - 1 : x \notin Chunked' /\ (x \in Runs' <=> x = p + 1)
    <3> TAKE x \in p + 1 .. p + n - 1
    <3>2. x = p + 1 => n > 1  BY <1>15
    <3> QED  BY <1>27, <1>28, <1>29, <3>2
  <2> QED  BY <1>25, <1>28, <2>1 DEF Cut
<1>31. Tiled(p, n)'
  <2>1. 1 \in Nat \ {0}  OBVIOUS
  <2> QED  BY <1>12, <1>14, <1>30, <2>1, CutTiled
<1>32. RunInv'  BY <1>12, <1>13, <1>22, <1>26, <1>31, RunStep
<1>33. \A x \in R : x \in Chunked' => x = p  BY <1>15, <1>27
<1>34. ChunkInv'
  <2>1. entry'.slab[p].mark = ""  BY <1>6, <1>19, <1>21
  <2>2. T # V  BY <1>18
  <2>3. \A x \in R : x \in Chunked' =>
           /\ ShiftOf(entry', x) \in Shifts /\ Type(x)' = TypeFor(ShiftOf(entry', x))
           /\ entry'.slab[x].mark = ""
           /\ Taken(entry, x)' \subseteq Chunks(ShiftOf(entry', x))
           /\ Reserved(x)' \subseteq Taken(entry, x)' /\ Taken(entry, x)' # Reserved(x)'
    BY <1>8, <1>18, <1>24, <1>33, <2>1, <2>2
  <2>4. \A x \in Pages \ R : Same(x)  BY <1>26
  <2> QED  BY <1>22, <2>3, <2>4, ChunkStep
<1>35. LiveInv'
  <2> DEFINE b == [at |-> Address(p, s, c), room |-> 2 ^ s, size |-> size]
  <2>1. b.at = Address(p, s, c) /\ b.room = 2 ^ s /\ b.size = size
        /\ b \in [at : Nat, room : Nat, size : Nat]
    <3>1. Address(p, s, c) \in Nat  BY <1>8, <1>14, <1>18, AddressIs
    <3>2. 2 ^ s \in Nat  BY <1>8, Shift
    <3> QED  BY <3>1, <3>2
  <2> HIDE DEF b
  <2>2. live' = live \cup {b}  BY <1>7 DEF b
  <2>3. IsChunk(b, p, c)'  BY <1>18, <1>24, <1>25, <2>1 DEF IsChunk
  <2>4. PageOf(b) = p  BY <1>8, <1>14, <1>18, <2>1, AddressIs DEF PageOf
  <2>5. \A a \in live : PageOf(a) \notin R  BY <1>12, <1>13
  <2>6. \A a \in live' : (a \in live /\ PageOf(a) \notin R)
          \/ (/\ PageOf(a) \in R /\ a \in [at : Nat, room : Nat, size : Nat] /\ a.size <= a.room
              /\ \E x \in R : \/ IsRun(a, x)'
                              \/ \E d \in Taken(entry, x)' : IsChunk(a, x, d)')
    <3>1. b.size <= b.room  BY <1>8, <2>1
    <3>2. c \in Taken(entry, p)'  BY <1>18, <1>24
    <3> QED  BY <1>14, <2>1, <2>2, <2>3, <2>4, <2>5, <3>1, <3>2
  <2>7. \A a, d \in live' : PageOf(a) \in R /\ a.at = d.at => a = d
    <3>1. \A a, d : a.at = d.at => PageOf(a) = PageOf(d)  BY DEF PageOf
    <3> QED  BY <1>14, <2>2, <2>4, <2>5, <3>1
  <2>8. \A x \in R : x \in Runs' /\ entry'.slab[x].mark = "start" => \E a \in live' : IsRun(a, x)'
    <3> SUFFICES ASSUME NEW x \in R, x \in Runs', entry'.slab[x].mark = "start" PROVE FALSE
      OBVIOUS
    <3>1. x = p + 1 /\ n > 1  BY <1>15, <1>25, <1>29
    <3> QED  BY <1>28, <3>1
  <2>9. \A x \in R : x \in Chunked' => \A d \in Taken(entry, x)' \ Reserved(x)' :
                                          \E a \in live' : IsChunk(a, x, d)'
    BY <1>18, <1>24, <1>33, <2>2, <2>3
  <2>10. \A x \in Pages \ R : Same(x)  BY <1>26
  <2> QED  BY <1>14, <1>22, <2>2, <2>5, <2>6, <2>7, <2>8, <2>9, <2>10, LiveStep
<1>36. PICK home2 : home2 = [home EXCEPT ![p] = Slot(s)]  OBVIOUS
<1>37. Slot(s) \in Heads /\ Slot(s) \in Slots /\ Kind(Slot(s)) = TypeFor(s) /\ Slot(s) # NULL
       /\ Slot(s) \notin Pages
  BY <1>8, SlotIs, NodesApart
<1>38. Lists(X, home2)
  <2>1. E.next[Slot(s)] = Slot(s)  BY <1>7, <1>12, <1>37
  <2>2. Inserted(E, home, Slot(s), p, X)
    <3>1. X.next[p] = E.next[Slot(s)] /\ X.prev[p] = Prev(Slot(s), Kind(Slot(s)))
      BY <1>14, <1>20, <1>37, <2>1
    <3>2. \A x \in Pages : home[x] # NULL => x # p /\ x # E.next[Slot(s)]
      BY <1>12, <1>37, <2>1
    <3> QED  BY <1>20, <3>1, <3>2 DEF Inserted
  <2> QED  BY <1>12, <1>14, <1>36, <1>37, <2>2, ListsInsert
<1>39. \A x \in Pages : home2[x] = IF x = p THEN Slot(s) ELSE home[x]
  BY <1>12, <1>36 DEF Lists, Homes
<1>40. \A x \in Pages : home2[x] = Home(x)'
  <2> TAKE x \in Pages
  <2>1. CASE x \notin R  BY <1>26, <1>39, <2>1, SameIs
  <2>2. CASE x = p
    BY <1>18, <1>24, <1>39, <2>2, SlotTypes DEF Home
  <2>3. CASE x = p + 1 /\ n > 1
    BY <1>12, <1>15, <1>27, <1>28, <1>39, <2>3 DEF Home
  <2>4. CASE x \in p + 1 .. p + n - 1 /\ x # p + 1
    BY <1>12, <1>27, <1>29, <1>39, <2>4 DEF Home
  <2> QED  BY <1>15, <2>1, <2>2, <2>3, <2>4
<1>41. \A x \in Pages : home2[x] = NULL => X.next[x] = NULL
  <2> SUFFICES ASSUME NEW x \in Pages, home2[x] = NULL PROVE X.next[x] = NULL
    OBVIOUS
  <2>1. x # p /\ home[x] = NULL  BY <1>37, <1>39
  <2>2. E.next[x] = NULL  BY <1>12, <2>1
  <2> QED  BY <1>20, <2>1, <2>2
<1>42. ListInv'  BY <1>6, <1>38, <1>40, <1>41, ListStep
<1> QED  BY <1>22, <1>23, <1>32, <1>34, <1>35, <1>42 DEF IInv

-----------------------------------------------------------------------------
(* Steps that change what is taken of a page *)

LEMMA ChunksFit ==
  ASSUME SlabAssumption, NEW s \in Shifts
  PROVE  /\ Chunks(s) \subseteq Chunks(min_shift) /\ Chunks(s) \subseteq Nat
         /\ TypeFor(s) # "small" => Chunks(s) \subseteq Chunks(exact_shift)
<1>1. /\ s \in Nat /\ min_shift \in Nat /\ page_shift \in Nat /\ min_shift <= s /\ s < page_shift
      /\ 2 ^ (page_shift - s) \in Nat
  BY Shift
<1>2. exact_shift \in Shifts /\ min_shift \in Shifts /\ exact_shift \in Nat
  <2>1. min_shift \in Shifts  BY <1>1 DEF Shifts
  <2> QED  BY <2>1, ExactShift, Shift
<1>3. TypeFor(s) # "small" => exact_shift <= s  BY <1>1, <1>2 DEF TypeFor
<1>4. Chunks(s) \subseteq Chunks(min_shift)  BY <1>1, <1>2, FewerChunks
<1>5. TypeFor(s) # "small" => Chunks(s) \subseteq Chunks(exact_shift)  BY <1>2, <1>3, FewerChunks
<1>6. Chunks(s) \subseteq Nat  BY <1>1 DEF Chunks
<1> QED  BY <1>4, <1>5, <1>6

MapSet(e, p, T) == [e EXCEPT !.slab[p].map = T]

LEMMA MapSetIs ==
  ASSUME NEW e \in Entries, NEW p \in Pages, NEW T \in SUBSET Chunks(exact_shift),
         NEW X, X = MapSet(e, p, T)
  PROVE  /\ X \in Entries /\ X.next = e.next /\ X.prev = e.prev
         /\ \A x \in Pages : x # p => X.slab[x] = e.slab[x]
         /\ X.slab[p].n = e.slab[p].n /\ X.slab[p].mark = e.slab[p].mark /\ X.slab[p].map = T
<1>1. /\ e.next \in [Nodes -> Nodes \cup {NULL}] /\ e.prev \in [Nodes -> [to : Nodes \cup {NULL}, type : Types]]
      /\ e.slab \in [Pages -> SlabType] /\ e.slab[p] \in SlabType
      /\ e = [slab |-> e.slab, next |-> e.next, prev |-> e.prev]
  BY DEF Entries
<1>2. PICK v : v = [n |-> e.slab[p].n, mark |-> e.slab[p].mark, map |-> T]  OBVIOUS
<1>3. [e.slab[p] EXCEPT !.map = T] = v
  <2>1. PICK r : r = e.slab[p]  OBVIOUS
  <2>2. r \in SlabType  BY <1>1, <2>1
  <2>3. r = [n |-> r.n, mark |-> r.mark, map |-> r.map]  BY <2>2 DEF SlabType
  <2>4. [r EXCEPT !.map = T] = [n |-> r.n, mark |-> r.mark, map |-> T]  BY <2>3
  <2> QED  BY <1>2, <2>1, <2>4
<1>4. X = [slab |-> [e.slab EXCEPT ![p] = v], next |-> e.next, prev |-> e.prev]
  BY <1>1, <1>3 DEF MapSet
<1>5. v \in SlabType  BY <1>1, <1>2 DEF SlabType
<1>6. X \in Entries  BY <1>1, <1>4, <1>5 DEF Entries
<1>7. X.slab[p] = v /\ \A x \in Pages : x # p => X.slab[x] = e.slab[x]  BY <1>1, <1>4
<1> QED  BY <1>2, <1>4, <1>6, <1>7

(* The chunks taken of page p become T, and its list may change.           *)
TakenSet(p, U, T) ==
  /\ U \in Entries /\ U.slab = entry.slab
  /\ \A x \in Pages : U.prev[x].type = entry.prev[x].type
  /\ entry' = (IF Type(p) = "small" THEN U ELSE MapSet(U, p, T))
  /\ bitmap' = (IF Type(p) = "small" THEN [bitmap EXCEPT ![p] = T] ELSE bitmap)

LEMMA TakenSetIs ==
  ASSUME SlabAssumption,
         entry \in Entries, bitmap \in [Pages -> SUBSET Chunks(min_shift)], ChunkInv,
         NEW p \in Chunked, NEW U, NEW T \in SUBSET Chunks(ShiftOf(entry, p)), TakenSet(p, U, T)
  PROVE  /\ entry' \in Entries /\ bitmap' \in [Pages -> SUBSET Chunks(min_shift)]
         /\ entry'.next = U.next /\ entry'.prev = U.prev
         /\ \A x \in Pages : x # p => Same(x)
         /\ entry'.slab[p].n = entry.slab[p].n /\ entry'.slab[p].mark = ""
         /\ Type(p)' = Type(p) /\ ShiftOf(entry', p) = ShiftOf(entry, p)
         /\ Taken(entry, p)' = T /\ Reserved(p)' = Reserved(p)
         /\ p \in Chunked' /\ p \notin Runs'
<1>1. /\ p \in Pages /\ ShiftOf(entry, p) \in Shifts /\ Type(p) = TypeFor(ShiftOf(entry, p))
      /\ entry.slab[p].mark = "" /\ Type(p) # "page"
  BY DEF Chunked, ChunkInv
<1>2. T \subseteq Chunks(min_shift) /\ (Type(p) # "small" => T \subseteq Chunks(exact_shift))
  BY <1>1, ChunksFit
<1>3. PICK X : X = entry'  OBVIOUS
<1>4. /\ U \in Entries /\ U.slab = entry.slab
      /\ \A x \in Pages : U.prev[x].type = entry.prev[x].type
      /\ X = (IF Type(p) = "small" THEN U ELSE MapSet(U, p, T))
      /\ bitmap' = (IF Type(p) = "small" THEN [bitmap EXCEPT ![p] = T] ELSE bitmap)
  BY <1>3 DEF TakenSet
<1>5. /\ X \in Entries /\ X.next = U.next /\ X.prev = U.prev
      /\ \A x \in Pages : x # p => X.slab[x] = entry.slab[x]
      /\ X.slab[p].n = entry.slab[p].n /\ X.slab[p].mark = entry.slab[p].mark
      /\ Type(p) # "small" => X.slab[p].map = T
  <2>1. CASE Type(p) = "small"  BY <1>4, <2>1
  <2>2. CASE Type(p) # "small"
    <3>1. T \in SUBSET Chunks(exact_shift) /\ X = MapSet(U, p, T)  BY <1>2, <1>4, <2>2
    <3>2. /\ X \in Entries /\ X.next = U.next /\ X.prev = U.prev
          /\ \A x \in Pages : x # p => X.slab[x] = U.slab[x]
          /\ X.slab[p].n = U.slab[p].n /\ X.slab[p].mark = U.slab[p].mark /\ X.slab[p].map = T
      <4>1. U \in Entries /\ p \in Pages /\ T \in SUBSET Chunks(exact_shift) /\ X = MapSet(U, p, T)
        BY <1>1, <1>4, <3>1
      <4> QED  BY <4>1, MapSetIs
    <3> QED  BY <1>4, <3>2
  <2> QED  BY <2>1, <2>2
<1>6. /\ bitmap' \in [Pages -> SUBSET Chunks(min_shift)]
      /\ \A x \in Pages : x # p => bitmap'[x] = bitmap[x]
      /\ Type(p) = "small" => bitmap'[p] = T
  BY <1>1, <1>2, <1>4
<1>7. \A x \in Pages : x # p => Same(x)
  <2> SUFFICES ASSUME NEW x \in Pages, x # p PROVE Same(x)
    OBVIOUS
  <2>1. X.prev[x].type = entry.prev[x].type  BY <1>4, <1>5
  <2> QED  BY <1>3, <1>5, <1>6, <2>1 DEF Same
<1>8. Type(p)' = Type(p)
  <2>1. X.prev[p].type = entry.prev[p].type  BY <1>1, <1>4, <1>5
  <2> QED  BY <1>3, <2>1 DEF Type
<1>9. ShiftOf(entry', p) = ShiftOf(entry, p)  BY <1>3, <1>5, <1>8 DEF ShiftOf, Type
<1>10. Taken(entry, p)' = T  BY <1>3, <1>5, <1>6, <1>8 DEF Taken, Type
<1>11. Reserved(p)' = Reserved(p)  BY <1>8, <1>9 DEF Reserved
<1>12. p \in Chunked' /\ p \notin Runs'  BY <1>1, <1>8 DEF Chunked, Runs
<1> QED  BY <1>1, <1>3, <1>5, <1>6, <1>7, <1>8, <1>9, <1>10, <1>11, <1>12

(* A page that is cut up is one part.                                      *)
LEMMA OnePage ==
  ASSUME SlabAssumption, NEW p \in Chunked
  PROVE  /\ p \in Pages /\ p \in Nat /\ Part(p, 1) /\ p .. p + 1 - 1 = {p}
         /\ p + 1 .. p + 1 - 1 = {} /\ {p} \subseteq Pages
<1>1. p \in Pages /\ N \in Nat \ {0} /\ p \in 0 .. N - 1 /\ p \in Nat  BY NodesApart DEF Chunked, Pages
<1>2. p + 1 <= N /\ p .. p + 1 - 1 = {p} /\ p + 1 .. p + 1 - 1 = {} /\ 1 \in Nat \ {0}  BY <1>1
<1> QED  BY <1>1, <1>2 DEF Part

(* Its homes then.                                                         *)
HomeSet(p, s, T, home) ==
  /\ \A x \in Pages : x # p => home[x] = Homed[x]
  /\ home[p] = IF T # Chunks(s) THEN Slot(s) ELSE NULL

LEMMA ChunkSet ==
  ASSUME SlabAssumption,
         IInv, NEW p \in Chunked, NEW U, NEW T, TakenSet(p, U, T), NEW s, s = ShiftOf(entry, p),
         Reserved(p) \subseteq T, T \subseteq Chunks(s), T # Reserved(p),
         NEW home, Lists(U, home), HomeSet(p, s, T, home),
         \A x \in Pages : home[x] = NULL => U.next[x] = NULL,
         LiveInv'
  PROVE  IInv'
<1>1. /\ entry \in Entries /\ bitmap \in [Pages -> SUBSET Chunks(min_shift)]
      /\ RunInv /\ ChunkInv /\ ListInv
  BY DEF IInv
<1>2. T \in SUBSET Chunks(ShiftOf(entry, p))  OBVIOUS
<1>3. /\ entry' \in Entries /\ bitmap' \in [Pages -> SUBSET Chunks(min_shift)]
      /\ entry'.next = U.next /\ entry'.prev = U.prev
      /\ \A x \in Pages : x # p => Same(x)
      /\ entry'.slab[p].n = entry.slab[p].n /\ entry'.slab[p].mark = ""
      /\ Type(p)' = Type(p) /\ ShiftOf(entry', p) = ShiftOf(entry, p)
      /\ Taken(entry, p)' = T /\ Reserved(p)' = Reserved(p)
      /\ p \in Chunked' /\ p \notin Runs'
  BY <1>1, <1>2, TakenSetIs
<1>4. PICK R : R = {p}  OBVIOUS
<1>5. /\ p \in Pages /\ p \in Nat /\ Part(p, 1) /\ R = p .. p + 1 - 1
      /\ p + 1 .. p + 1 - 1 = {} /\ R \subseteq Pages
  BY <1>4, OnePage
<1>6. \A x \in Pages \ R : Same(x)  BY <1>3, <1>4
<1>7. RunInv'
  <2>1. Cut(p, 1, 1)'
    <3>1. ~ (1 > 1)  OBVIOUS
    <3> QED  BY <1>3, <1>5, <3>1 DEF Cut
  <2>2. 1 \in Nat \ {0} /\ 1 <= 1  OBVIOUS
  <2>3. Tiled(p, 1)'  BY <1>5, <2>1, <2>2, CutTiled
  <2> QED  BY <1>1, <1>3, <1>5, <1>6, <2>3, RunStep
<1>8. ChunkInv'
  <2>1. ShiftOf(entry, p) \in Shifts /\ Type(p) = TypeFor(ShiftOf(entry, p))  BY <1>1 DEF ChunkInv
  <2>2. \A x \in R : x \in Chunked' =>
           /\ ShiftOf(entry', x) \in Shifts /\ Type(x)' = TypeFor(ShiftOf(entry', x))
           /\ entry'.slab[x].mark = ""
           /\ Taken(entry, x)' \subseteq Chunks(ShiftOf(entry', x))
           /\ Reserved(x)' \subseteq Taken(entry, x)' /\ Taken(entry, x)' # Reserved(x)'
    BY <1>3, <1>4, <2>1
  <2> QED  BY <1>1, <1>6, <2>2, ChunkStep
<1>9. ListInv'
  <2>1. Lists(entry', home)  BY <1>3 DEF Lists
  <2>2. \A x \in Pages : home[x] = NULL => entry'.next[x] = NULL  BY <1>3
  <2>3. \A x \in Pages : home[x] = Home(x)'
    <3> TAKE x \in Pages
    <3>1. CASE x # p
      <4>1. Homed[x] = Home(x)  BY DEF Homed
      <4>2. Same(x)  BY <1>3, <3>1
      <4>3. home[x] = Homed[x]  BY <3>1 DEF HomeSet
      <4> QED  BY <4>1, <4>2, <4>3, SameIs
    <3>2. CASE x = p
      <4>1. Type(p)' # "page"  BY <1>3 DEF Chunked
      <4>2. Home(p)' = IF T # Chunks(s) THEN Slot(s) ELSE NULL  BY <1>3, <4>1 DEF Home
      <4> QED  BY <3>2, <4>2 DEF HomeSet
    <3> QED  BY <3>1, <3>2
  <2> QED  BY <2>1, <2>2, <2>3, ListStep
<1> QED  BY <1>3, <1>7, <1>8, <1>9 DEF IInv

-----------------------------------------------------------------------------
(* The step: a chunk of a page is handed out *)

Left(e, p, type) ==
  LET V == Unlinked(e, p) IN [V EXCEPT !.next[p] = NULL, !.prev[p] = Prev(NULL, type)]

LEMMA LeftIs ==
  ASSUME SlabAssumption,
         NEW e \in Entries, NEW home, Lists(e, home), NEW p \in Pages, home[p] # NULL,
         NEW type, e.prev[p].type = type, NEW U, U = Left(e, p, type)
  PROVE  /\ U \in Entries /\ U.slab = e.slab /\ Lists(U, [home EXCEPT ![p] = NULL])
         /\ \A x \in Pages : U.prev[x].type = e.prev[x].type
         /\ U.next[p] = NULL
         /\ \A x \in Pages : home[x] = NULL => U.next[x] = e.next[x]
<1> DEFINE a == e.prev[p].to
           b == e.next[p]
<1>1. /\ a \in Nodes /\ b \in Nodes /\ home[p] \in Heads /\ a # p /\ b # p
      /\ \A x \in {a, b} : x = home[p] \/ (x \in Pages /\ home[x] = home[p])
      /\ e.prev[p].type = Kind(home[p])
  BY Neighbours
<1>2. PICK V : V = Unlinked(e, p)  OBVIOUS
<1>3. /\ V \in Entries /\ V.slab = e.slab
      /\ \A x \in Nodes :
           /\ V.next[x] = IF x = a THEN b ELSE e.next[x]
           /\ V.prev[x] = IF x = b THEN e.prev[p] ELSE e.prev[x]
  BY <1>1, <1>2, UnlinkedIs
<1>4. /\ V.next \in [Nodes -> Nodes \cup {NULL}] /\ V.prev \in [Nodes -> [to : Nodes \cup {NULL}, type : Types]]
      /\ V.slab \in [Pages -> SlabType]
      /\ V = [slab |-> V.slab, next |-> V.next, prev |-> V.prev]
  BY <1>3 DEF Entries
<1>5. /\ Heads \cap Pages = {} /\ Nodes = Pages \cup Heads /\ NULL \notin Pages /\ NULL \notin Heads
  BY NodesApart
<1>6. U = [slab |-> V.slab, next |-> [V.next EXCEPT ![p] = NULL],
           prev |-> [V.prev EXCEPT ![p] = Prev(NULL, type)]]
  BY <1>2, <1>4 DEF Left
<1>7. Prev(NULL, type) \in [to : Nodes \cup {NULL}, type : Types]
  <2>1. type \in Types  BY EntryOf, <1>5
  <2> QED  BY <2>1 DEF Prev
<1>8. U \in Entries
  <2>1. [V.next EXCEPT ![p] = NULL] \in [Nodes -> Nodes \cup {NULL}]  BY <1>4
  <2>2. [V.prev EXCEPT ![p] = Prev(NULL, type)] \in [Nodes -> [to : Nodes \cup {NULL}, type : Types]]
    BY <1>4, <1>7
  <2> QED  BY <1>4, <1>6, <2>1, <2>2 DEF Entries
<1>9. U.slab = e.slab  BY <1>3, <1>6
<1>10. /\ \A x \in Nodes : /\ U.next[x] = IF x = p THEN NULL ELSE V.next[x]
                           /\ U.prev[x] = IF x = p THEN Prev(NULL, type) ELSE V.prev[x]
  BY <1>4, <1>6
<1>11. \A x \in Nodes : /\ U.next[x] = IF x = p THEN NULL ELSE IF x = a THEN b ELSE e.next[x]
                        /\ U.prev[x] = IF x = p THEN Prev(NULL, type)
                                       ELSE IF x = b THEN e.prev[p] ELSE e.prev[x]
  BY <1>3, <1>10
<1>12. Lists(U, [home EXCEPT ![p] = NULL])
  <2>1. \A x \in Heads : U.next[x] = IF x = e.prev[p].to THEN e.next[p] ELSE e.next[x]
    BY <1>5, <1>11
  <2>2. \A x \in Pages : x # p /\ home[x] # NULL =>
           /\ U.next[x] = IF x = e.prev[p].to THEN e.next[p] ELSE e.next[x]
           /\ U.prev[x] = IF x = e.next[p] THEN e.prev[p] ELSE e.prev[x]
    BY <1>5, <1>11
  <2> QED  BY <2>1, <2>2, ListsUnlink
<1>13. \A x \in Pages : U.prev[x].type = e.prev[x].type
  <2> TAKE x \in Pages
  <2>1. CASE x = p
    <3>1. U.prev[p] = Prev(NULL, type)  BY <1>5, <1>11
    <3> QED  BY <2>1, <3>1, PrevOf
  <2>2. CASE x # p /\ x = b
    <3>1. home[x] = home[p]  BY <1>1, <1>5, <2>2
    <3>2. e.prev[x].type = Kind(home[p])  BY <3>1 DEF Lists
    <3> QED  BY <1>1, <1>5, <1>11, <2>2, <3>2
  <2>3. CASE x # p /\ x # b  BY <1>5, <1>11, <2>3
  <2> QED  BY <2>1, <2>2, <2>3
<1>14. U.next[p] = NULL  BY <1>5, <1>11
<1>15. \A x \in Pages : home[x] = NULL => U.next[x] = e.next[x]
  BY <1>1, <1>5, <1>11
<1> QED  BY <1>8, <1>9, <1>12, <1>13, <1>14, <1>15

LEMMA AllocChunkInv ==
  ASSUME SlabAssumption, IInv, NEW size \in Nat, AllocChunk(size)
  PROVE  IInv'
<1>1. PICK s : s = ShiftFor(size)  OBVIOUS
<1>2. PICK p : p = entry.next[Slot(s)]  OBVIOUS
<1>3. PICK c : c = Min(Chunks(s) \ Taken(entry, p))  OBVIOUS
<1>4. PICK T : T = Taken(entry, p) \cup {c}  OBVIOUS
<1>5. PICK U : U = IF T = Chunks(s) THEN Left(entry, p, TypeFor(s)) ELSE entry  OBVIOUS
<1>6. /\ size < max_size /\ p # Slot(s)
      /\ entry' = IF TypeFor(s) = "small" THEN U ELSE [U EXCEPT !.slab[p].map = @ \cup {c}]
      /\ bitmap' = IF TypeFor(s) = "small" THEN [bitmap EXCEPT ![p] = @ \cup {c}] ELSE bitmap
      /\ live' = live \cup {[at |-> Address(p, s, c), room |-> 2 ^ s, size |-> size]}
  BY <1>1, <1>2, <1>3, <1>4, <1>5 DEF AllocChunk, Granted, Left
<1>7. s \in Shifts /\ size <= 2 ^ s  BY <1>1, <1>6, ShiftForIs
<1>8. /\ entry \in Entries /\ bitmap \in [Pages -> SUBSET Chunks(min_shift)]
      /\ RunInv /\ ChunkInv /\ LiveInv /\ Lists(entry, Homed)
      /\ \A x \in Pages : Homed[x] = NULL => entry.next[x] = NULL
  BY HomeIs DEF IInv, ListInv
<1>9. p \in Pages /\ Homed[p] = Slot(s) /\ Slot(s) # NULL
  BY <1>2, <1>6, <1>7, <1>8, SlotIs, FirstOfList, NodesApart
<1>10. p \in Chunked /\ ShiftOf(entry, p) = s /\ Taken(entry, p) # Chunks(s)
  BY <1>7, <1>8, <1>9, HomeIs
<1>11. /\ Type(p) = TypeFor(s) /\ Taken(entry, p) \subseteq Chunks(s)
       /\ Reserved(p) \subseteq Taken(entry, p) /\ Taken(entry, p) # Reserved(p)
  BY <1>8, <1>10 DEF ChunkInv
<1>12. c \in Chunks(s) /\ c \notin Taken(entry, p)
  <2>1. Chunks(s) \subseteq Nat  BY <1>7, ChunksFit
  <2>2. PICK Z : Z = Chunks(s) \ Taken(entry, p)  OBVIOUS
  <2>3. Z \in SUBSET Nat /\ Z # {}  BY <1>10, <1>11, <2>1, <2>2
  <2>4. Min(Z) \in Z  BY <2>3, SomeLeast
  <2> QED  BY <1>3, <2>2, <2>4
<1>13. T \subseteq Chunks(s) /\ Reserved(p) \subseteq T /\ T # Reserved(p) /\ c \notin Reserved(p)
  BY <1>4, <1>11, <1>12
<1>14. PICK home : home = IF T = Chunks(s) THEN [Homed EXCEPT ![p] = NULL] ELSE Homed  OBVIOUS
<1>15. /\ U \in Entries /\ U.slab = entry.slab /\ Lists(U, home)
       /\ \A x \in Pages : U.prev[x].type = entry.prev[x].type
       /\ \A x \in Pages : home[x] = NULL => U.next[x] = NULL
       /\ HomeSet(p, s, T, home)
  <2>0. Homed \in Homes  BY <1>8 DEF Lists
  <2>1. CASE T = Chunks(s)
    <3>1. U = Left(entry, p, TypeFor(s)) /\ home = [Homed EXCEPT ![p] = NULL]  BY <1>5, <1>14, <2>1
    <3>2. entry.prev[p].type = TypeFor(s) /\ Homed[p] # NULL  BY <1>9, <1>11 DEF Type
    <3>3. /\ U \in Entries /\ U.slab = entry.slab /\ Lists(U, home)
          /\ \A x \in Pages : U.prev[x].type = entry.prev[x].type
          /\ U.next[p] = NULL
          /\ \A x \in Pages : Homed[x] = NULL => U.next[x] = entry.next[x]
      <4>1. PICK type : type = TypeFor(s)  OBVIOUS
      <4>2. PICK h : h = Homed  OBVIOUS
      <4>3. PICK e : e = entry  OBVIOUS
      <4>4. /\ e \in Entries /\ Lists(e, h) /\ p \in Pages /\ h[p] # NULL
            /\ e.prev[p].type = type /\ U = Left(e, p, type)
        BY <1>8, <1>9, <3>1, <3>2, <4>1, <4>2, <4>3
      <4>5. /\ U \in Entries /\ U.slab = e.slab /\ Lists(U, [h EXCEPT ![p] = NULL])
            /\ \A x \in Pages : U.prev[x].type = e.prev[x].type
            /\ U.next[p] = NULL
            /\ \A x \in Pages : h[x] = NULL => U.next[x] = e.next[x]
        BY <4>4, LeftIs
      <4> QED  BY <3>1, <4>2, <4>3, <4>5
    <3>4. \A x \in Pages : home[x] = IF x = p THEN NULL ELSE Homed[x]  BY <2>0, <3>1 DEF Homes
    <3> QED  BY <1>8, <1>9, <2>1, <3>3, <3>4 DEF HomeSet
  <2>2. CASE T # Chunks(s)
    BY <1>5, <1>8, <1>9, <1>14, <2>2 DEF HomeSet
  <2> QED  BY <2>1, <2>2
<1>16. TakenSet(p, U, T)
  <2>1. CASE TypeFor(s) = "small"
    <3>1. bitmap[p] = Taken(entry, p)  BY <1>11, <2>1 DEF Taken, Type
    <3>2. bitmap' = [bitmap EXCEPT ![p] = T]  BY <1>4, <1>6, <2>1, <3>1
    <3> QED  BY <1>6, <1>11, <1>15, <2>1, <3>2 DEF TakenSet
  <2>2. CASE TypeFor(s) # "small"
    <3>1. U.slab[p].map = Taken(entry, p)  BY <1>11, <1>15, <2>2 DEF Taken, Type
    <3>2. entry' = MapSet(U, p, T)
      <4>1. entry' = [U EXCEPT !.slab[p].map = U.slab[p].map \cup {c}]  BY <1>6, <2>2
      <4> QED  BY <1>4, <3>1, <4>1 DEF MapSet
    <3> QED  BY <1>6, <1>11, <1>15, <2>2, <3>2 DEF TakenSet
  <2> QED  BY <2>1, <2>2
<1>17. LiveInv'
  <2> DEFINE b == [at |-> Address(p, s, c), room |-> 2 ^ s, size |-> size]
  <2>0. p \in Nat  BY <1>9, NodesApart
  <2>1. b.at = Address(p, s, c) /\ b.room = 2 ^ s /\ b.size = size
        /\ b \in [at : Nat, room : Nat, size : Nat]
    <3>1. Address(p, s, c) \in Nat  BY <1>7, <1>12, <2>0, AddressIs
    <3>2. 2 ^ s \in Nat  BY <1>7, Shift
    <3> QED  BY <3>1, <3>2
  <2> HIDE DEF b
  <2>2. live' = live \cup {b}  BY <1>6 DEF b
  <2>3. /\ \A x \in Pages : x # p => Same(x)
        /\ ShiftOf(entry', p) = s /\ Taken(entry, p)' = T /\ Reserved(p)' = Reserved(p)
        /\ p \in Chunked' /\ p \notin Runs'
    <3>1. T \in SUBSET Chunks(ShiftOf(entry, p))  BY <1>10, <1>13
    <3> QED  BY <1>8, <1>10, <1>16, <3>1, TakenSetIs
  <2>4. \A a, d : IsChunk(a, p, d)' <=> /\ d \in T \ Reserved(p)
                                        /\ a.at = Address(p, s, d) /\ a.room = 2 ^ s
    BY <2>3 DEF IsChunk
  <2>5. \A a, d : IsChunk(a, p, d) <=> /\ d \in Taken(entry, p) \ Reserved(p)
                                       /\ a.at = Address(p, s, d) /\ a.room = 2 ^ s
    BY <1>10 DEF IsChunk
  <2>6. IsChunk(b, p, c)'  BY <1>4, <1>13, <2>1, <2>4
  <2>7. PageOf(b) = p  BY <1>7, <1>12, <2>0, <2>1, AddressIs DEF PageOf
  <2>8. PICK R : R = {p}  OBVIOUS
  <2>9. R \subseteq Pages /\ \A x \in Pages \ R : Same(x)  BY <1>9, <2>3, <2>8
  <2>10. \A a \in live : PageOf(a) = p => IsChunk(a, p, ChunkOf(a)) /\ a.at # b.at
    <3> SUFFICES ASSUME NEW a \in live, PageOf(a) = p
                 PROVE  IsChunk(a, p, ChunkOf(a)) /\ a.at # b.at
      OBVIOUS
    <3>1. IsRun(a, p) \/ IsChunk(a, p, ChunkOf(a))  BY <1>8, LiveAt
    <3>2. IsChunk(a, p, ChunkOf(a))  BY <1>10, <3>1 DEF IsRun, Chunked, Runs
    <3>3. PICK d : d = ChunkOf(a)  OBVIOUS
    <3>4. d \in Chunks(s) /\ d # c /\ a.at = Address(p, s, d)  BY <1>11, <1>12, <2>5, <3>2, <3>3
    <3>5. (Address(p, s, d) % page_size) \div 2 ^ s = d  BY <1>7, <2>0, <3>4, AddressIs
    <3>6. (Address(p, s, c) % page_size) \div 2 ^ s = c  BY <1>7, <1>12, <2>0, AddressIs
    <3> QED  BY <2>1, <3>2, <3>4, <3>5, <3>6
  <2>11. \A a \in live' : (a \in live /\ PageOf(a) \notin R)
          \/ (/\ PageOf(a) \in R /\ a \in [at : Nat, room : Nat, size : Nat] /\ a.size <= a.room
              /\ \E x \in R : \/ IsRun(a, x)'
                              \/ \E d \in Taken(entry, x)' : IsChunk(a, x, d)')
    <3> SUFFICES ASSUME NEW a \in live', ~ (a \in live /\ PageOf(a) \notin R)
                 PROVE  /\ PageOf(a) \in R /\ a \in [at : Nat, room : Nat, size : Nat] /\ a.size <= a.room
                        /\ \E d \in Taken(entry, p)' : IsChunk(a, p, d)'
      BY <2>8
    <3>1. CASE a = b
      <4>1. b.size <= b.room  BY <1>7, <2>1
      <4>2. c \in Taken(entry, p)'  BY <1>4, <2>3
      <4> QED  BY <2>1, <2>6, <2>7, <2>8, <3>1, <4>1, <4>2
    <3>2. CASE a \in live /\ PageOf(a) = p
      <4>1. a \in [at : Nat, room : Nat, size : Nat] /\ a.size <= a.room  BY <1>8, <3>2 DEF LiveInv
      <4>2. PICK d : d = ChunkOf(a)  OBVIOUS
      <4>3. IsChunk(a, p, d)  BY <2>10, <3>2, <4>2
      <4>4. IsChunk(a, p, d)' /\ d \in Taken(entry, p)'  BY <1>4, <2>3, <2>4, <2>5, <4>3
      <4> QED  BY <2>8, <3>2, <4>1, <4>4
    <3> QED  BY <2>2, <2>8, <3>1, <3>2
  <2>12. \A a, d \in live' : PageOf(a) \in R /\ a.at = d.at => a = d
    <3>1. \A a, d : a.at = d.at => PageOf(a) = PageOf(d)  BY DEF PageOf
    <3>2. \A a, d \in live : a.at = d.at => a = d  BY <1>8 DEF LiveInv
    <3> QED  BY <2>2, <2>7, <2>8, <2>10, <3>1, <3>2
  <2>13. \A x \in R : x \in Runs' /\ entry'.slab[x].mark = "start" => \E a \in live' : IsRun(a, x)'
    BY <2>3, <2>8
  <2>14. \A x \in R : x \in Chunked' => \A d \in Taken(entry, x)' \ Reserved(x)' :
                                          \E a \in live' : IsChunk(a, x, d)'
    <3> SUFFICES ASSUME NEW d \in T \ Reserved(p) PROVE \E a \in live' : IsChunk(a, p, d)'
      BY <2>3, <2>8
    <3>1. CASE d = c  BY <2>2, <2>6, <3>1
    <3>2. CASE d # c
      <4>1. d \in Taken(entry, p) \ Reserved(p)  BY <1>4, <3>2
      <4>2. PICK a \in live : IsChunk(a, p, d)  BY <1>8, <1>10, <4>1 DEF LiveInv
      <4> QED  BY <2>2, <2>4, <2>5, <4>2
    <3> QED  BY <3>1, <3>2
  <2>15. \A a \in live : PageOf(a) \notin R => a \in live'  BY <2>2
  <2> QED  BY <1>8, <2>9, <2>11, <2>12, <2>13, <2>14, <2>15, LiveStep
<1> QED  BY <1>10, <1>13, <1>15, <1>16, <1>17, ChunkSet

-----------------------------------------------------------------------------
(* The step: pages are given back *)

(* It was a's run, or the page that a had the last chunk of.               *)
GivenBack(p, n, R, e, home, a) ==
  /\ Part(p, n) /\ R = p .. p + n - 1
  /\ home = Homed \/ home = [Homed EXCEPT ![p] = home[p]]
  /\ Freed(e, home, p, n, entry')
  /\ \A x \in Pages \ R : e.prev[x].type = entry.prev[x].type /\ e.slab[x] = entry.slab[x]
  /\ bitmap' \in [Pages -> SUBSET Chunks(min_shift)]
  /\ \A x \in Pages \ R : bitmap'[x] = bitmap[x]
  /\ live' = live \ {a} /\ PageOf(a) = p
  /\ \A b \in live : PageOf(b) \in R => b = a

LEMMA FreeStep ==
  ASSUME SlabAssumption,
         IInv, NEW p, NEW n, NEW R, NEW e, NEW home, NEW a, GivenBack(p, n, R, e, home, a)
  PROVE  IInv'
<1>a. PICK X : X = entry'  OBVIOUS
<1>b. /\ Part(p, n) /\ R = p .. p + n - 1
      /\ home = Homed \/ home = [Homed EXCEPT ![p] = home[p]]
      /\ Freed(e, home, p, n, X)
  BY <1>a DEF GivenBack
<1>c. /\ \A x \in Pages \ R : e.prev[x].type = entry.prev[x].type /\ e.slab[x] = entry.slab[x]
      /\ bitmap' \in [Pages -> SUBSET Chunks(min_shift)]
      /\ \A x \in Pages \ R : bitmap'[x] = bitmap[x]
  BY DEF GivenBack
<1>d. /\ live' = live \ {a} /\ PageOf(a) = p
      /\ \A b \in live : PageOf(b) \in R => b = a
  BY DEF GivenBack
<1>1. /\ entry \in Entries /\ RunInv /\ ChunkInv /\ LiveInv /\ Lists(entry, Homed)
      /\ \A x \in Pages : Homed[x] = Home(x)
  BY HomeIs DEF IInv, ListInv
<1>2. /\ p .. p + n - 1 \subseteq Pages /\ p \in R /\ R \subseteq Pages /\ p \in Pages
      /\ p \in Nat /\ n \in Nat \ {0} /\ p + n <= N
  BY <1>b, PartPages
<1>3. /\ X \in Entries /\ Lists(X, [home EXCEPT ![p] = Free])
      /\ \A x \in Pages : x # p /\ home[x] = NULL => X.next[x] = NULL
      /\ \A x \in Pages :
           /\ X.prev[x].type = IF x \in p .. p + n - 1 THEN "page" ELSE e.prev[x].type
           /\ X.slab[x] = IF x = p THEN Slab(n, "", {})
                          ELSE IF x \in p + 1 .. p + n - 1 THEN Slab(0, "", {})
                          ELSE e.slab[x]
  BY <1>b DEF Freed
<1>4. /\ \A x \in R : x = p \/ x \in p + 1 .. p + n - 1
      /\ \A x \in p + 1 .. p + n - 1 : x \in R
      /\ p \notin p + 1 .. p + n - 1 /\ n <= n
  BY <1>b, <1>2, Span
<1>5. \A x \in Pages \ R : Same(x)
  <2> SUFFICES ASSUME NEW x \in Pages \ R PROVE Same(x)
    OBVIOUS
  <2>1. x # p /\ x \notin p + 1 .. p + n - 1  BY <1>2, <1>4
  <2>2. X.prev[x].type = entry.prev[x].type /\ X.slab[x] = entry.slab[x]  BY <1>b, <1>c, <1>3, <2>1
  <2> QED  BY <1>a, <1>c, <2>2 DEF Same
<1>6. \A x \in R : Type(x)' = "page" /\ x \notin Chunked'
  BY <1>a, <1>b, <1>2, <1>3 DEF Type, Chunked
<1>7. entry'.slab[p].n = n /\ entry'.slab[p].mark = "" /\ entry'.slab[p].map = {}
  <2>1. PICK v : v = entry'.slab[p]  OBVIOUS
  <2>2. v = Slab(n, "", {})  BY <1>a, <1>2, <1>3, <2>1
  <2>3. v.n = n /\ v.mark = "" /\ v.map = {}  BY <2>2 DEF Slab
  <2> QED  BY <2>1, <2>3
<1>8. p \in Runs'  BY <1>2, <1>6, <1>7 DEF Runs
<1>9. \A x \in p + 1 .. p + n - 1 : x \notin Runs' /\ entry'.slab[x].n = 0
  <2> SUFFICES ASSUME NEW x \in p + 1 .. p + n - 1 PROVE x \notin Runs' /\ entry'.slab[x].n = 0
    OBVIOUS
  <2>1. x \in Pages /\ x # p  BY <1>2, <1>4
  <2>2. entry'.slab[x] = Slab(0, "", {})  BY <1>a, <1>3, <2>1
  <2>3. entry'.slab[x].n = 0
    <3>1. PICK v : v = entry'.slab[x]  OBVIOUS
    <3>2. v = Slab(0, "", {})  BY <2>2, <3>1
    <3>3. v.n = 0  BY <1>2, <3>2, ZeroOf
    <3> QED  BY <3>1, <3>3
  <2> QED  BY <2>3 DEF Runs
<1>10. p + n \notin p + 1 .. p + n - 1 /\ ~ (n > n)  BY <1>2
<1>11. Cut(p, n, n)'
  <2>1. \A x \in p + 1 .. p + n - 1 : x \notin Chunked' /\ (x \in Runs' <=> x = p + n)
    BY <1>4, <1>6, <1>9, <1>10
  <2> QED  BY <1>2, <1>6, <1>7, <1>8, <1>10, <2>1 DEF Cut
<1>12. Tiled(p, n)'
  <2>1. n <= n  BY <1>4
  <2> QED  BY <1>2, <1>11, <2>1, CutTiled
<1>13. entry' \in Entries  BY <1>a, <1>3
<1>14. RunInv'  BY <1>b, <1>1, <1>5, <1>12, <1>13, RunStep
<1>15. ChunkInv'  BY <1>1, <1>5, <1>6, ChunkStep
<1>16. LiveInv'
  <2>1. \A b \in live' : b \in live /\ PageOf(b) \notin R  BY <1>d
  <2>2. \A b \in live : PageOf(b) \notin R => b \in live'  BY <1>d, <1>2
  <2>3. \A x \in R : x \in Runs' /\ entry'.slab[x].mark = "start" => \E b \in live' : IsRun(b, x)'
    BY <1>4, <1>7, <1>9
  <2>4. \A x \in R : x \notin Chunked'  BY <1>6
  <2> QED  BY <1>1, <1>2, <1>5, <2>1, <2>2, <2>3, <2>4, LiveStep
<1>17. PICK home2 : home2 = [home EXCEPT ![p] = Free]  OBVIOUS
<1>18. \A x \in Pages : home2[x] = IF x = p THEN Free ELSE Homed[x]
  <2>1. Homed \in Homes  BY <1>1 DEF Lists
  <2> QED  BY <1>b, <1>2, <1>17, <2>1 DEF Homes
<1>19. \A x \in p + 1 .. p + n - 1 : x \in Pages /\ Home(x) = NULL
  <2>1. CASE p \in Runs /\ n = entry.slab[p].n  BY <1>1, <2>1, RunPages
  <2>2. CASE n = 1
    <3>1. p + 1 .. p + n - 1 = {}  BY <1>2, <2>2
    <3> QED  BY <3>1
  <2> QED  BY <1>b, <2>1, <2>2 DEF Part
<1>20. \A x \in Pages : home2[x] = Home(x)'
  <2> TAKE x \in Pages
  <2>1. CASE x \notin R  BY <1>1, <1>2, <1>5, <1>18, <2>1, SameIs
  <2>2. CASE x = p  BY <1>6, <1>7, <1>8, <1>2, <1>18, <2>2 DEF Home
  <2>3. CASE x \in p + 1 .. p + n - 1
    <3>1. x # p /\ x \in R  BY <1>4, <2>3
    <3>2. Home(x)' = NULL  BY <1>6, <1>9, <2>3, <3>1 DEF Home
    <3> QED  BY <1>1, <1>18, <1>19, <2>3, <3>1, <3>2
  <2> QED  BY <1>4, <2>1, <2>2, <2>3
<1>21. \A x \in Pages : home2[x] = NULL => X.next[x] = NULL
  <2> SUFFICES ASSUME NEW x \in Pages, home2[x] = NULL PROVE X.next[x] = NULL
    OBVIOUS
  <2>1. Free # NULL /\ Homed \in Homes  BY <1>1, NodesApart DEF Lists, Heads
  <2>2. x # p /\ Homed[x] = NULL  BY <1>18, <2>1
  <2>3. home[x] = NULL  BY <1>b, <2>1, <2>2 DEF Homes
  <2> QED  BY <1>3, <2>2, <2>3
<1>22. ListInv'
  <2>1. Lists(entry', home2)  BY <1>a, <1>3, <1>17
  <2>2. \A x \in Pages : home2[x] = NULL => entry'.next[x] = NULL  BY <1>a, <1>21
  <2> QED  BY <1>20, <2>1, <2>2, ListStep
<1> QED  BY <1>c, <1>13, <1>14, <1>15, <1>16, <1>22 DEF IInv

LEMMA FreeRunInv ==
  ASSUME SlabAssumption, IInv, NEW a \in live, FreeRun(a), live' = live \ {a}
  PROVE  IInv'
<1>1. PICK p : p = PageOf(a)  OBVIOUS
<1>2. PICK n : n = entry.slab[p].n  OBVIOUS
<1>3. /\ Type(p) = "page" /\ entry' = slab_free_pages(entry, p, n) /\ bitmap' = bitmap
  BY <1>1, <1>2 DEF FreeRun, PageOf, Type
<1>4. /\ entry \in Entries /\ bitmap \in [Pages -> SUBSET Chunks(min_shift)]
      /\ RunInv /\ ChunkInv /\ LiveInv /\ Lists(entry, Homed)
      /\ \A x \in Pages : Homed[x] = NULL => entry.next[x] = NULL
      /\ \A x \in Pages : Homed[x] = Home(x)
  BY HomeIs DEF IInv, ListInv
<1>5. IsRun(a, p)
  <2>1. IsRun(a, p) \/ IsChunk(a, p, ChunkOf(a))  BY <1>1, <1>4, LiveAt
  <2> QED  BY <1>3, <2>1 DEF IsChunk, Chunked
<1>6. p \in Runs  BY <1>5 DEF IsRun
<1>7. /\ Part(p, n) /\ p \notin Chunked
      /\ \A x \in p + 1 .. p + n - 1 :
           x \in Pages /\ x \notin Runs /\ x \notin Chunked /\ Home(x) = NULL
  BY <1>2, <1>4, <1>6, RunPages
<1>8. p \in Pages /\ p \in Nat /\ n \in Nat \ {0} /\ p + n <= N
  BY <1>6, <1>7, PartPages DEF Runs
<1>9. PICK X : X = entry'  OBVIOUS
<1>10. Freed(entry, Homed, p, n, X)
  <2>1. \A x \in p + 1 .. p + n - 1 : Homed[x] = NULL  BY <1>4, <1>7
  <2>2. Freeable(entry, Homed, p, n)  BY <1>4, <1>8, <2>1 DEF Freeable
  <2>3. X = slab_free_pages(entry, p, n)  BY <1>3, <1>9
  <2> QED  BY <1>4, <1>8, <2>2, <2>3, PagesFreed
<1>11. PICK R : R = p .. p + n - 1  OBVIOUS
<1>12. \A b \in live : PageOf(b) \in R => b = a
  <2> SUFFICES ASSUME NEW b \in live, PageOf(b) \in R PROVE b = a
    OBVIOUS
  <2>1. PICK x : x = PageOf(b)  OBVIOUS
  <2>2. x = p \/ x \in p + 1 .. p + n - 1  BY <1>8, <1>11, <2>1, Span
  <2>3. IsRun(b, x) \/ IsChunk(b, x, ChunkOf(b))  BY <1>4, <2>1, LiveAt
  <2>4. x \in Runs \/ x \in Chunked  BY <2>3 DEF IsRun, IsChunk
  <2>5. x = p  BY <1>7, <2>2, <2>4
  <2>6. IsRun(b, p)  BY <1>7, <2>3, <2>5 DEF IsChunk
  <2>7. b.at = a.at  BY <1>5, <2>6 DEF IsRun
  <2> QED  BY <1>4, <2>7 DEF LiveInv
<1>13. bitmap' \in [Pages -> SUBSET Chunks(min_shift)]  BY <1>3, <1>4
<1>14. \A x \in Pages \ R : bitmap'[x] = bitmap[x]  BY <1>3
<1>15. \A x \in Pages \ R : entry.prev[x].type = entry.prev[x].type /\ entry.slab[x] = entry.slab[x]
  OBVIOUS
<1>16. PICK home : home = Homed  OBVIOUS
<1>17. GivenBack(p, n, R, entry, home, a)
  BY <1>1, <1>7, <1>9, <1>10, <1>11, <1>12, <1>13, <1>14, <1>15, <1>16 DEF GivenBack
<1>18. PICK e : e = entry  OBVIOUS
<1>19. GivenBack(p, n, R, e, home, a)  BY <1>17, <1>18
<1> QED  BY <1>19, FreeStep

-----------------------------------------------------------------------------
(* The step: a chunk is given back *)

LEMMA RelinkedIs ==
  ASSUME SlabAssumption,
         NEW e \in Entries, NEW home, Lists(e, home), NEW p \in Pages, home[p] = NULL,
         NEW s \in Shifts, NEW type, type = TypeFor(s), e.prev[p].type = type,
         NEW U, U = Relinked(e, p, s, type)
  PROVE  /\ U \in Entries /\ U.slab = e.slab /\ Lists(U, [home EXCEPT ![p] = Slot(s)])
         /\ \A x \in Pages : U.prev[x].type = e.prev[x].type
         /\ \A x \in Pages : x # p /\ home[x] = NULL => U.next[x] = e.next[x]
<1>1. PICK h : h = Slot(s)  OBVIOUS
<1>2. PICK b : b = e.next[h]  OBVIOUS
<1>3. /\ Heads \cap Pages = {} /\ Nodes = Pages \cup Heads /\ NULL \notin Pages /\ NULL \notin Heads
      /\ h \in Heads /\ Kind(h) = type /\ h # NULL
  BY <1>1, SlotIs, NodesApart
<1>4. b = h \/ (b \in Pages /\ home[b] = h /\ b # p)
  BY <1>2, <1>3, FirstOfList
<1>5. /\ e.next \in [Nodes -> Nodes \cup {NULL}] /\ e.prev \in [Nodes -> [to : Nodes \cup {NULL}, type : Types]]
      /\ e.slab \in [Pages -> SlabType]
      /\ e = [slab |-> e.slab, next |-> e.next, prev |-> e.prev]
  BY DEF Entries
<1>6. PICK v : v = Prev(h, type)  OBVIOUS
<1>7. PICK w : w = Prev(p, type)  OBVIOUS
<1>8. U = [slab |-> e.slab, next |-> [e.next EXCEPT ![p] = b, ![h] = p],
           prev |-> [e.prev EXCEPT ![p] = v, ![b] = w]]
  <2>1. U = [e EXCEPT !.next[p] = b, !.next[h] = p, !.prev[p] = v, !.prev[b] = w]
    BY <1>1, <1>2, <1>6, <1>7 DEF Relinked
  <2> QED  BY <1>5, <2>1
<1>9. v \in [to : Nodes \cup {NULL}, type : Types] /\ w \in [to : Nodes \cup {NULL}, type : Types]
      /\ v.type = type /\ w.type = type
  <2>1. type \in Types  BY SlotTypes
  <2> QED  BY <1>3, <1>6, <1>7, <2>1 DEF Prev
<1>10. U \in Entries
  <2>1. [e.next EXCEPT ![p] = b, ![h] = p] \in [Nodes -> Nodes \cup {NULL}]  BY <1>3, <1>4, <1>5
  <2>2. [e.prev EXCEPT ![p] = v, ![b] = w] \in [Nodes -> [to : Nodes \cup {NULL}, type : Types]]
    BY <1>5, <1>9
  <2> QED  BY <1>5, <1>8, <2>1, <2>2 DEF Entries
<1>11. \A x \in Nodes : /\ U.next[x] = IF x = h THEN p ELSE IF x = p THEN b ELSE e.next[x]
                        /\ U.prev[x] = IF x = b THEN w ELSE IF x = p THEN v ELSE e.prev[x]
  BY <1>3, <1>4, <1>5, <1>8
<1>12. Lists(U, [home EXCEPT ![p] = h])
  <2>1. \A x \in Heads : U.next[x] = IF x = h THEN p ELSE e.next[x]  BY <1>3, <1>11
  <2>2. \A x \in Pages : home[x] # NULL =>
          /\ U.next[x] = e.next[x]
          /\ U.prev[x] = IF x = e.next[h] THEN Prev(p, Kind(h)) ELSE e.prev[x]
    BY <1>2, <1>3, <1>7, <1>11
  <2>3. U.next[p] = e.next[h] /\ U.prev[p] = Prev(h, Kind(h))
    BY <1>2, <1>3, <1>4, <1>6, <1>11
  <2>4. Inserted(e, home, h, p, U)  BY <2>1, <2>2, <2>3 DEF Inserted
  <2> QED  BY <1>3, <2>4, ListsInsert
<1>13. \A x \in Pages : U.prev[x].type = e.prev[x].type
  <2> TAKE x \in Pages
  <2>1. CASE x = b
    <3>1. home[x] = h  BY <1>3, <1>4, <2>1
    <3>2. e.prev[x].type = type  BY <1>3, <3>1 DEF Lists
    <3> QED  BY <1>3, <1>9, <1>11, <2>1, <3>2
  <2>2. CASE x # b /\ x = p  BY <1>3, <1>9, <1>11, <2>2
  <2>3. CASE x # b /\ x # p  BY <1>3, <1>11, <2>3
  <2> QED  BY <2>1, <2>2, <2>3
<1>14. \A x \in Pages : x # p /\ home[x] = NULL => U.next[x] = e.next[x]
  BY <1>3, <1>11
<1> QED  BY <1>1, <1>8, <1>10, <1>12, <1>13, <1>14

LEMMA FreeChunkInv ==
  ASSUME SlabAssumption, IInv, NEW a \in live, FreeChunk(a), live' = live \ {a}
  PROVE  IInv'
<1>1. PICK p : p = PageOf(a)  OBVIOUS
<1>2. PICK s : s = ShiftOf(entry, p)  OBVIOUS
<1>3. PICK c : c = ChunkOf(a)  OBVIOUS
<1>4. PICK rest : rest = Taken(entry, p) \ {c}  OBVIOUS
<1>5. PICK U : U = IF entry.next[p] = NULL THEN Relinked(entry, p, s, Type(p)) ELSE entry  OBVIOUS
<1>6. PICK V : V = IF Type(p) = "small" THEN U ELSE MapSet(U, p, rest)  OBVIOUS
<1>7. /\ Type(p) # "page" /\ c \in Taken(entry, p)
      /\ entry' = IF rest = Reserved(p) THEN slab_free_pages(V, p, 1) ELSE V
      /\ bitmap' = IF Type(p) = "small"
                   THEN [bitmap EXCEPT ![p] = IF rest = Reserved(p) THEN {} ELSE rest]
                   ELSE bitmap
  <2>1. Reserved(p) = IF Type(p) = "small" THEN 0 .. BitmapChunks(s) - 1 ELSE {}
    BY <1>2 DEF Reserved
  <2>2. a.at \div page_size = p /\ (a.at % page_size) \div 2 ^ s = c /\ entry.prev[p].type = Type(p)
    BY <1>1, <1>2, <1>3 DEF PageOf, ChunkOf, Type
  <2> QED  BY <1>2, <1>4, <1>5, <1>6, <2>1, <2>2 DEF FreeChunk, MapSet
<1>8. /\ entry \in Entries /\ bitmap \in [Pages -> SUBSET Chunks(min_shift)]
      /\ RunInv /\ ChunkInv /\ LiveInv /\ Lists(entry, Homed)
      /\ \A x \in Pages : Homed[x] = NULL => entry.next[x] = NULL
      /\ \A x \in Pages : Homed[x] = Home(x)
  BY HomeIs DEF IInv, ListInv
<1>9. IsChunk(a, p, c) /\ p \in Pages
  <2>1. IsRun(a, p) \/ IsChunk(a, p, c)  BY <1>1, <1>3, <1>8, LiveAt
  <2> QED  BY <1>7, <2>1 DEF IsRun, Runs, IsChunk, Chunked
<1>10. /\ p \in Chunked /\ c \notin Reserved(p) /\ a.at = Address(p, s, c) /\ a.room = 2 ^ s
  BY <1>2, <1>9 DEF IsChunk
<1>11. /\ s \in Shifts /\ Type(p) = TypeFor(s) /\ Taken(entry, p) \subseteq Chunks(s)
       /\ Reserved(p) \subseteq Taken(entry, p)
  BY <1>2, <1>8, <1>10 DEF ChunkInv
<1>12. rest \subseteq Chunks(s) /\ Reserved(p) \subseteq rest /\ rest # Chunks(s)
  BY <1>4, <1>7, <1>10, <1>11
<1>13. Heads \cap Pages = {} /\ NULL \notin Heads /\ NULL \notin Pages /\ Nodes = Pages \cup Heads
       /\ Slot(s) \in Heads /\ Slot(s) # NULL
  BY <1>11, NodesApart, SlotIs
<1>14. PICK home : home = IF Homed[p] = NULL THEN [Homed EXCEPT ![p] = Slot(s)] ELSE Homed  OBVIOUS
<1>15. /\ Homed \in Homes /\ \A x \in Pages : home[x] = IF x = p THEN Slot(s) ELSE Homed[x]
  <2>1. Homed \in Homes  BY <1>8 DEF Lists
  <2>2. Homed[p] # NULL => Homed[p] = Slot(s)  BY <1>2, <1>8, <1>9, <1>10, HomeIs
  <2> QED  BY <1>9, <1>14, <2>1, <2>2 DEF Homes
<1>16. /\ U \in Entries /\ U.slab = entry.slab /\ Lists(U, home)
       /\ \A x \in Pages : U.prev[x].type = entry.prev[x].type
       /\ \A x \in Pages : home[x] = NULL => U.next[x] = NULL
  <2>1. CASE Homed[p] = NULL
    <3>1. PICK type : type = Type(p)  OBVIOUS
    <3>2. PICK h : h = Homed  OBVIOUS
    <3>3. PICK e : e = entry  OBVIOUS
    <3>4. /\ e \in Entries /\ Lists(e, h) /\ p \in Pages /\ h[p] = NULL /\ s \in Shifts
          /\ type = TypeFor(s) /\ e.prev[p].type = type /\ U = Relinked(e, p, s, type)
      BY <1>5, <1>8, <1>9, <1>11, <2>1, <3>1, <3>2, <3>3 DEF Type
    <3>5. /\ U \in Entries /\ U.slab = e.slab /\ Lists(U, [h EXCEPT ![p] = Slot(s)])
          /\ \A x \in Pages : U.prev[x].type = e.prev[x].type
          /\ \A x \in Pages : x # p /\ h[x] = NULL => U.next[x] = e.next[x]
      BY <3>4, RelinkedIs
    <3>6. home = [h EXCEPT ![p] = Slot(s)]  BY <1>14, <2>1, <3>2
    <3>7. Lists(U, home)  BY <3>5, <3>6
    <3>8. \A x \in Pages : home[x] = NULL => U.next[x] = NULL
      BY <1>8, <1>13, <1>15, <3>2, <3>3, <3>5
    <3> QED  BY <3>3, <3>5, <3>7, <3>8
  <2>2. CASE Homed[p] # NULL
    <3>1. entry.next[p] \in Nodes  BY <1>8, <1>9, <2>2, Neighbours
    <3>2. U = entry /\ home = Homed  BY <1>5, <1>13, <1>14, <2>2, <3>1
    <3> QED  BY <1>8, <3>2
  <2> QED  BY <2>1, <2>2
<1>17. \A b \in live : PageOf(b) = p => IsChunk(b, p, ChunkOf(b)) /\ (ChunkOf(b) = c => b = a)
  <2> SUFFICES ASSUME NEW b \in live, PageOf(b) = p
               PROVE  IsChunk(b, p, ChunkOf(b)) /\ (ChunkOf(b) = c => b = a)
    OBVIOUS
  <2>1. IsRun(b, p) \/ IsChunk(b, p, ChunkOf(b))  BY <1>8, LiveAt
  <2>2. IsChunk(b, p, ChunkOf(b))  BY <1>7, <2>1 DEF IsRun, Runs
  <2>3. ChunkOf(b) = c => b.at = a.at  BY <1>2, <1>10, <2>2 DEF IsChunk
  <2> QED  BY <1>8, <2>2, <2>3 DEF LiveInv
<1>18. CASE rest # Reserved(p)
  <2>1. TakenSet(p, U, rest)  BY <1>6, <1>7, <1>16, <1>18 DEF TakenSet
  <2>2. HomeSet(p, s, rest, home)  BY <1>9, <1>12, <1>15 DEF HomeSet
  <2>3. LiveInv'
    <3>1. /\ \A x \in Pages : x # p => Same(x)
          /\ ShiftOf(entry', p) = s /\ Taken(entry, p)' = rest /\ Reserved(p)' = Reserved(p)
          /\ p \in Chunked' /\ p \notin Runs'
      <4>1. rest \in SUBSET Chunks(ShiftOf(entry, p))  BY <1>2, <1>12
      <4> QED  BY <1>2, <1>8, <1>10, <2>1, <4>1, TakenSetIs
    <3>2. \A b, d : IsChunk(b, p, d)' <=> /\ d \in rest \ Reserved(p)
                                          /\ b.at = Address(p, s, d) /\ b.room = 2 ^ s
      BY <3>1 DEF IsChunk
    <3>3. \A b, d : IsChunk(b, p, d) <=> /\ d \in Taken(entry, p) \ Reserved(p)
                                         /\ b.at = Address(p, s, d) /\ b.room = 2 ^ s
      BY <1>2, <1>10 DEF IsChunk
    <3>4. PICK R : R = {p}  OBVIOUS
    <3>5. R \subseteq Pages /\ \A x \in Pages \ R : Same(x)  BY <1>9, <3>1, <3>4
    <3>6. \A b \in live' : (b \in live /\ PageOf(b) \notin R)
          \/ (/\ PageOf(b) \in R /\ b \in [at : Nat, room : Nat, size : Nat] /\ b.size <= b.room
              /\ \E x \in R : \/ IsRun(b, x)'
                              \/ \E d \in Taken(entry, x)' : IsChunk(b, x, d)')
      <4> SUFFICES ASSUME NEW b \in live', PageOf(b) = p
                   PROVE  /\ b \in [at : Nat, room : Nat, size : Nat] /\ b.size <= b.room
                          /\ \E d \in Taken(entry, p)' : IsChunk(b, p, d)'
        BY <3>4
      <4>1. b \in [at : Nat, room : Nat, size : Nat] /\ b.size <= b.room  BY <1>8 DEF LiveInv
      <4>2. PICK d : d = ChunkOf(b)  OBVIOUS
      <4>3. IsChunk(b, p, d) /\ d # c  BY <1>17, <4>2
      <4>4. IsChunk(b, p, d)' /\ d \in Taken(entry, p)'  BY <1>4, <3>1, <3>2, <3>3, <4>3
      <4> QED  BY <4>1, <4>4
    <3>7. \A b, d \in live' : PageOf(b) \in R /\ b.at = d.at => b = d  BY <1>8 DEF LiveInv
    <3>8. \A x \in R : x \in Runs' /\ entry'.slab[x].mark = "start" => \E b \in live' : IsRun(b, x)'
      BY <3>1, <3>4
    <3>9. \A x \in R : x \in Chunked' => \A d \in Taken(entry, x)' \ Reserved(x)' :
                                            \E b \in live' : IsChunk(b, x, d)'
      <4> SUFFICES ASSUME NEW d \in rest \ Reserved(p) PROVE \E b \in live' : IsChunk(b, p, d)'
        BY <3>1, <3>4
      <4>1. d \in Taken(entry, p) \ Reserved(p) /\ d # c  BY <1>4
      <4>2. PICK b \in live : IsChunk(b, p, d)  BY <1>8, <1>10, <4>1 DEF LiveInv
      <4>3. b # a
        <5>1. ChunkOf(b) = d  BY <1>8, <1>9, <4>2, ChunkAt
        <5> QED  BY <1>3, <4>1, <5>1
      <4>4. IsChunk(b, p, d)'  BY <3>2, <3>3, <4>2
      <4> QED  BY <4>3, <4>4
    <3>10. \A b \in live : PageOf(b) \notin R => b \in live'  BY <1>1, <3>4
    <3>11. LiveInv /\ ChunkInv  BY <1>8
    <3> QED  BY <3>5, <3>6, <3>7, <3>8, <3>9, <3>10, <3>11, LiveStep
  <2> QED  BY <1>2, <1>10, <1>12, <1>16, <1>18, <2>1, <2>2, <2>3, ChunkSet
<1>19. CASE rest = Reserved(p)
  <2>1. PICK R : R = {p}  OBVIOUS
  <2>2. p \in Nat /\ Part(p, 1) /\ R = p .. p + 1 - 1 /\ p + 1 .. p + 1 - 1 = {}  BY <1>10, <2>1, OnePage
  <2>3. /\ V \in Entries /\ V.next = U.next /\ V.prev = U.prev
        /\ \A x \in Pages : x # p => V.slab[x] = entry.slab[x]
    <3>1. CASE Type(p) = "small"  BY <1>6, <1>16, <3>1
    <3>2. CASE Type(p) # "small"
      <4>1. rest \in SUBSET Chunks(exact_shift)  BY <1>11, <1>12, <3>2, ChunksFit
      <4>2. V = MapSet(U, p, rest)  BY <1>6, <3>2
      <4>3. U \in Entries /\ p \in Pages  BY <1>9, <1>16
      <4>4. /\ V \in Entries /\ V.next = U.next /\ V.prev = U.prev
            /\ \A x \in Pages : x # p => V.slab[x] = U.slab[x]
        BY <4>1, <4>2, <4>3, MapSetIs
      <4> QED  BY <1>16, <4>4
    <3> QED  BY <3>1, <3>2
  <2>4. PICK X : X = entry'  OBVIOUS
  <2>5. Freed(V, home, p, 1, X)
    <3>1. Lists(V, home)  BY <1>16, <2>3 DEF Lists
    <3>2. Freeable(V, home, p, 1)
      <4>1. p + 1 <= N  BY <2>2 DEF Part
      <4> QED  BY <1>9, <1>16, <2>2, <2>3, <4>1 DEF Freeable
    <3>3. X = slab_free_pages(V, p, 1) /\ 1 \in Nat \ {0}  BY <1>7, <1>19, <2>4
    <3> QED  BY <2>3, <3>1, <3>2, <3>3, PagesFreed
  <2>6. home = Homed \/ home = [Homed EXCEPT ![p] = home[p]]
    BY <1>9, <1>14, <1>15
  <2>7. \A x \in Pages \ R : V.prev[x].type = entry.prev[x].type /\ V.slab[x] = entry.slab[x]
    BY <1>16, <2>1, <2>3
  <2>8. bitmap' \in [Pages -> SUBSET Chunks(min_shift)] /\ \A x \in Pages \ R : bitmap'[x] = bitmap[x]
    <3>1. bitmap' = IF Type(p) = "small" THEN [bitmap EXCEPT ![p] = {}] ELSE bitmap  BY <1>7, <1>19
    <3> QED  BY <1>8, <2>1, <3>1
  <2>9. \A b \in live : PageOf(b) \in R => b = a
    <3> SUFFICES ASSUME NEW b \in live, PageOf(b) = p PROVE b = a
      BY <2>1
    <3>1. IsChunk(b, p, ChunkOf(b))  BY <1>17
    <3>2. ChunkOf(b) \in Taken(entry, p) \ Reserved(p)  BY <3>1 DEF IsChunk
    <3>3. ChunkOf(b) = c  BY <1>4, <1>19, <3>2
    <3> QED  BY <1>17, <3>3
  <2>10. GivenBack(p, 1, R, V, home, a)
    BY <1>1, <2>2, <2>4, <2>5, <2>6, <2>7, <2>8, <2>9 DEF GivenBack
  <2> QED  BY <2>10, FreeStep
<1> QED  BY <1>18, <1>19

-----------------------------------------------------------------------------
(* The invariant holds always *)

LEMMA NextInv ==
  ASSUME SlabAssumption
  PROVE  IInv /\ [Next]_vars => IInv'
<1> SUFFICES ASSUME IInv, [Next]_vars PROVE IInv'
  OBVIOUS
<1>0. Sizes \subseteq Nat  BY DEF SlabAssumption
<1>1. ASSUME NEW size \in Sizes, AllocRun(size) PROVE IInv'  BY <1>0, <1>1, AllocRunInv
<1>2. ASSUME NEW size \in Sizes, AllocChunk(size) PROVE IInv'  BY <1>0, <1>2, AllocChunkInv
<1>3. ASSUME NEW size \in Sizes, AllocPage(size) PROVE IInv'  BY <1>0, <1>3, AllocPageInv
<1>4. ASSUME NEW a \in live, FreeChunk(a), live' = live \ {a} PROVE IInv'  BY <1>4, FreeChunkInv
<1>5. ASSUME NEW a \in live, FreeRun(a), live' = live \ {a} PROVE IInv'  BY <1>5, FreeRunInv
<1>6. CASE UNCHANGED vars
  <2>0. entry' = entry /\ bitmap' = bitmap /\ live' = live  BY <1>6 DEF vars
  <2>1. \A p \in Pages : Same(p)  BY <2>0 DEF Same
  <2>2. /\ \A p \in Pages : (p \in Runs' <=> p \in Runs) /\ (p \in Chunked' <=> p \in Chunked)
        /\ Runs' = Runs /\ Chunked' = Chunked
    BY <2>0 DEF Runs, Chunked, Type
  <2>3. RunInv'
    <3>1. RunInv  BY DEF IInv
    <3> QED  BY <2>0, <2>2, <3>1 DEF RunInv
  <2>4. ChunkInv'
    <3> SUFFICES ASSUME NEW p \in Pages, p \in Chunked'
                 PROVE  /\ ShiftOf(entry', p) \in Shifts /\ Type(p)' = TypeFor(ShiftOf(entry', p))
                        /\ entry'.slab[p].mark = ""
                        /\ Taken(entry, p)' \subseteq Chunks(ShiftOf(entry', p))
                        /\ Reserved(p)' \subseteq Taken(entry, p)' /\ Taken(entry, p)' # Reserved(p)'
      BY DEF ChunkInv, Chunked
    <3>1. p \in Chunked /\ Same(p)  BY <2>1, <2>2
    <3>2. /\ Type(p)' = Type(p) /\ ShiftOf(entry', p) = ShiftOf(entry, p)
          /\ Taken(entry, p)' = Taken(entry, p) /\ Reserved(p)' = Reserved(p)
          /\ entry'.slab[p] = entry.slab[p]
      BY <3>1, SameIs DEF Same
    <3>3. /\ ShiftOf(entry, p) \in Shifts /\ Type(p) = TypeFor(ShiftOf(entry, p))
          /\ entry.slab[p].mark = "" /\ Taken(entry, p) \subseteq Chunks(ShiftOf(entry, p))
          /\ Reserved(p) \subseteq Taken(entry, p) /\ Taken(entry, p) # Reserved(p)
      BY <3>1 DEF IInv, ChunkInv
    <3> QED  BY <3>2, <3>3
  <2>5. LiveInv'
    <3>1. ChunkInv /\ LiveInv  BY DEF IInv
    <3>2. PICK R : R = {}  OBVIOUS
    <3>3. \A a \in live' : a \in live /\ PageOf(a) \notin R  BY <2>0, <3>2
    <3>4. \A a \in live : a \in live'  BY <2>0
    <3> QED  BY <2>1, <3>1, <3>2, <3>3, <3>4, LiveStep
  <2>6. ListInv'
    <3>1. Lists(entry, Homed) /\ \A p \in Pages : Home(p) = NULL => entry.next[p] = NULL
      BY DEF IInv, ListInv
    <3>2. PICK home : home = Homed  OBVIOUS
    <3>3. \A p \in Pages : home[p] = Home(p)' /\ home[p] = Home(p)  BY <2>1, <3>2, SameIs DEF Homed
    <3>4. Lists(entry', home)  BY <2>0, <3>1, <3>2
    <3>5. \A p \in Pages : home[p] = NULL => entry'.next[p] = NULL  BY <2>0, <3>1, <3>3
    <3> QED  BY <3>3, <3>4, <3>5, ListStep
  <2> QED  BY <2>0, <2>3, <2>4, <2>5, <2>6 DEF IInv
<1>7. Next \/ UNCHANGED vars  OBVIOUS
<1> QED  BY <1>1, <1>2, <1>3, <1>4, <1>5, <1>6, <1>7 DEF Next, g_slab_alloc, g_slab_free

-----------------------------------------------------------------------------
(* What follows *)

(* Two parts do not overlap.                                               *)
LEMMA PartsApart ==
  ASSUME SlabAssumption,
         entry \in Entries, RunInv, NEW p, NEW n, Part(p, n), NEW q, NEW m, Part(q, m), p # q
  PROVE  p \in Nat /\ q \in Nat /\ n \in Nat /\ m \in Nat /\ (p + n <= q \/ q + m <= p)
<1>1. p \in Nat /\ n \in Nat \ {0} /\ q \in Nat /\ m \in Nat \ {0}  BY PartPages
<1>2. ASSUME NEW x, NEW k, Part(x, k), NEW y, NEW j, Part(y, j)
      PROVE  y \notin x + 1 .. x + k - 1
  <2>1. y \in Runs \cup Chunked  BY <1>2 DEF Part
  <2>2. CASE x \in Runs /\ k = entry.slab[x].n  BY <2>1, <2>2 DEF RunInv
  <2>3. CASE k = 1
    <3>1. x \in Nat  BY <1>2, PartPages
    <3>2. x + 1 .. x + k - 1 = {}  BY <2>3, <3>1
    <3> QED  BY <3>2
  <2> QED  BY <1>2, <2>2, <2>3 DEF Part
<1>3. q \notin p + 1 .. p + n - 1 /\ p \notin q + 1 .. q + m - 1  BY <1>2
<1> QED  BY <1>1, <1>3

LEMMA PagesLong ==
  ASSUME SlabAssumption, NEW i \in Nat, NEW j \in Nat, i <= j
  PROVE  i * page_size \in Nat /\ j * page_size \in Nat /\ i * page_size <= j * page_size
         /\ (i + 1) * page_size = i * page_size + page_size /\ page_size \in Nat \ {0}
<1>1. page_size \in Nat \ {0}  BY PageAddress
<1> DEFINE b == page_size
<1>2. b \in Nat /\ b # 0  BY <1>1
<1> HIDE DEF b
<1>3. i * b \in Nat /\ j * b \in Nat /\ i * b <= j * b  BY <1>2, Times
<1>4. (i + 1) * b = i * b + b  BY <1>2
<1> QED  BY <1>1, <1>3, <1>4 DEF b

(* Where an allocation lies.                                               *)
Within(a, p, n) == Part(p, n) /\ p * page_size <= a.at /\ a.at + a.room <= (p + n) * page_size

LEMMA Extent ==
  ASSUME SlabAssumption, IInv, NEW a \in live
  PROVE  /\ a.at \in Nat /\ a.room \in Nat
         /\ \E n : Within(a, PageOf(a), n)
<1>1. entry \in Entries /\ RunInv /\ ChunkInv /\ LiveInv  BY DEF IInv
<1>2. PICK p : p = PageOf(a)  OBVIOUS
<1>3. p \in Pages /\ a.at \in Nat /\ a.room \in Nat /\ (IsRun(a, p) \/ IsChunk(a, p, ChunkOf(a)))
  BY <1>1, <1>2, LiveAt
<1>4. p \in Nat  BY <1>3, NodesApart
<1>5. CASE IsRun(a, p)
  <2>1. PICK n : n = entry.slab[p].n  OBVIOUS
  <2>2. p \in Runs /\ a.at = p * page_size /\ a.room = n * page_size  BY <1>5, <2>1 DEF IsRun
  <2>3. Part(p, n)  BY <1>1, <2>1, <2>2, RunPages
  <2>4. n \in Nat  BY <2>3, PartPages
  <2>5. p * page_size <= a.at /\ a.at + a.room <= (p + n) * page_size
    <3> DEFINE b == page_size
    <3>1. b \in Nat  BY PageAddress, <1>4
    <3>2. a.at = p * b /\ a.room = n * b  BY <2>2
    <3> HIDE DEF b
    <3>3. p * b \in Nat /\ n * b \in Nat  BY <1>4, <2>4, <3>1, Times
    <3>4. (p + n) * b = p * b + n * b  BY <1>4, <2>4, <3>1
    <3>5. p * b <= a.at /\ a.at + a.room <= (p + n) * b  BY <3>2, <3>3, <3>4
    <3> QED  BY <3>5 DEF b
  <2> QED  BY <1>2, <1>3, <2>3, <2>5 DEF Within
<1>6. CASE IsChunk(a, p, ChunkOf(a))
  <2>1. PICK c : c = ChunkOf(a)  OBVIOUS
  <2>2. PICK s : s = ShiftOf(entry, p)  OBVIOUS
  <2>3. /\ p \in Chunked /\ c \in Chunks(s) /\ a.at = Address(p, s, c) /\ a.room = 2 ^ s /\ s \in Shifts
    BY <1>1, <1>3, <1>6, <2>1, <2>2, ChunkAt DEF IsChunk, ChunkInv
  <2>4. Part(p, 1)  BY <2>3, OnePage
  <2>5. p * page_size <= a.at /\ a.at + a.room <= p * page_size + page_size
    BY <1>4, <2>3, AddressIs
  <2>6. (p + 1) * page_size = p * page_size + page_size
    <3>1. p <= p  BY <1>4
    <3> QED  BY <1>4, <3>1, PagesLong
  <2> QED  BY <1>2, <1>3, <2>4, <2>5, <2>6 DEF Within
<1> QED  BY <1>3, <1>5, <1>6

(* Chunks of a page do not overlap.                                        *)
LEMMA ChunksApart ==
  ASSUME SlabAssumption, NEW p \in Nat, NEW s \in Shifts, NEW c \in Nat, NEW d \in Nat, c < d
  PROVE  Address(p, s, c) + 2 ^ s <= Address(p, s, d)
         /\ p * page_size + d * 2 ^ s <= Address(p, s, d)
<1>1. p * page_size \in Nat  BY PageAddress
<1> DEFINE b == 2 ^ s  x == p * page_size
<1>2. b \in Nat  BY Shift
<1>3. x \in Nat  BY <1>1
<1>4. Address(p, s, c) = x + c * b /\ Address(p, s, d) = x + d * b  BY DEF Address
<1> HIDE DEF b, x
<1>5. (c + 1) * b \in Nat /\ d * b \in Nat /\ (c + 1) * b <= d * b
  <2>1. c + 1 \in Nat /\ c + 1 <= d  OBVIOUS
  <2> QED  BY <1>2, <2>1, Times
<1>6. (c + 1) * b = c * b + b /\ c * b \in Nat
  BY <1>2, Times
<1>7. x + c * b + b <= x + d * b  BY <1>2, <1>3, <1>5, <1>6
<1>8. x + d * b <= x + d * b  BY <1>3, <1>5
<1> QED  BY <1>4, <1>7, <1>8 DEF b, x

(* Two allocations do not overlap.                                         *)
LEMMA LiveApart ==
  ASSUME SlabAssumption, IInv, NEW a \in live, NEW b \in live, a # b
  PROVE  a.at + a.room <= b.at \/ b.at + b.room <= a.at
<1>1. entry \in Entries /\ RunInv /\ ChunkInv /\ LiveInv  BY DEF IInv
<1>2. a.at \in Nat /\ a.room \in Nat /\ b.at \in Nat /\ b.room \in Nat  BY Extent
<1>3. PICK p, n : p = PageOf(a) /\ Within(a, p, n)  BY Extent
<1>4. PICK q, m : q = PageOf(b) /\ Within(b, q, m)  BY Extent
<1>5. p \in Pages /\ p \in Nat /\ n \in Nat /\ q \in Nat /\ m \in Nat
  BY <1>3, <1>4, PartPages DEF Within, Part
<1>6. CASE p # q
  <2>1. p + n <= q \/ q + m <= p  BY <1>1, <1>3, <1>4, <1>6, PartsApart DEF Within
  <2>2. ASSUME NEW x \in live, NEW y \in live, NEW i \in Nat, NEW k \in Nat, NEW j \in Nat, NEW l,
               Within(x, i, k), Within(y, j, l), i + k <= j
        PROVE  x.at + x.room <= y.at
    <3>1. x.at \in Nat /\ x.room \in Nat /\ y.at \in Nat  BY Extent
    <3>2. x.at + x.room <= (i + k) * page_size /\ j * page_size <= y.at  BY <2>2 DEF Within
    <3>3. (i + k) * page_size \in Nat /\ j * page_size \in Nat /\ (i + k) * page_size <= j * page_size
      <4>1. i + k \in Nat  OBVIOUS
      <4> QED  BY <2>2, <4>1, PagesLong
    <3>4. PICK u, v : u = (i + k) * page_size /\ v = j * page_size  OBVIOUS
    <3> QED  BY <3>1, <3>2, <3>3, <3>4
  <2> QED  BY <1>3, <1>4, <1>5, <2>1, <2>2
<1>7. CASE p = q
  <2>1. a.at # b.at  BY <1>1 DEF LiveInv
  <2>2. /\ IsRun(a, p) \/ IsChunk(a, p, ChunkOf(a))
        /\ IsRun(b, p) \/ IsChunk(b, p, ChunkOf(b))
    BY <1>1, <1>3, <1>4, <1>7, LiveAt
  <2>3. ~ (IsRun(a, p) /\ IsRun(b, p))  BY <2>1 DEF IsRun
  <2>4. \A x, y, c : ~ (IsRun(x, p) /\ IsChunk(y, p, c))
    BY <1>1, <1>5, NumberOfPages DEF IsRun, IsChunk
  <2>5. PICK c, d : c = ChunkOf(a) /\ d = ChunkOf(b) /\ IsChunk(a, p, c) /\ IsChunk(b, p, d)
    BY <2>2, <2>3, <2>4
  <2>6. PICK s : s = ShiftOf(entry, p)  OBVIOUS
  <2>7. /\ c \in Chunks(s) /\ d \in Chunks(s) /\ s \in Shifts
        /\ a.at = Address(p, s, c) /\ b.at = Address(p, s, d) /\ a.room = 2 ^ s /\ b.room = 2 ^ s
    BY <1>1, <1>5, <2>5, <2>6, ChunkAt DEF IsChunk, ChunkInv
  <2>8. c \in Nat /\ d \in Nat /\ c # d  BY <2>1, <2>7, ChunksFit
  <2>9. CASE c < d  BY <1>5, <2>7, <2>8, <2>9, ChunksApart
  <2>10. CASE d < c  BY <1>5, <2>7, <2>8, <2>10, ChunksApart
  <2> QED  BY <2>8, <2>9, <2>10
<1> QED  BY <1>6, <1>7

(* The bitmap of a page lies in the chunks that are kept for it.           *)
LEMMA BitmapApart ==
  ASSUME SlabAssumption, IInv, NEW a \in live, NEW p \in Pages
  PROVE  Bytes(a) \cap BitmapBytes(p) = {}
<1>1. entry \in Entries /\ RunInv /\ ChunkInv /\ LiveInv  BY DEF IInv
<1>2. CASE entry.prev[p].type # "small"  BY <1>2 DEF BitmapBytes
<1>3. CASE entry.prev[p].type = "small"
  <2>1. PICK s : s = ShiftOf(entry, p)  OBVIOUS
  <2>2. p \in Chunked /\ s = entry.slab[p].n /\ Type(p) = "small"
    BY <1>3, <2>1 DEF Chunked, Type, ShiftOf
  <2>3. s \in Shifts /\ TypeFor(s) = "small"  BY <1>1, <2>1, <2>2 DEF ChunkInv
  <2>4. s < exact_shift  BY <2>3 DEF TypeFor
  <2>5. PICK B : B = BitmapChunks(s)  OBVIOUS
  <2>6. PICK M : M = Max({1, 2 ^ (page_shift - s) \div 8})  OBVIOUS
  <2>7. PICK w, z, y : w = 2 ^ s /\ z = 2 ^ (page_shift - s) /\ y = p * page_size  OBVIOUS
  <2>8. B \in Nat \ {0} /\ B + 1 < z /\ M \in Nat /\ M <= B * w
    BY <2>3, <2>4, <2>5, <2>6, <2>7, BitmapIs
  <2>9. w \in Nat /\ z \in Nat /\ page_size = z * w /\ p \in Nat /\ y \in Nat
        /\ (p + 1) * page_size = y + z * w
    <3>1. w \in Nat /\ z \in Nat /\ page_size = z * w  BY <2>3, <2>7, Shift
    <3>2. p \in Nat  BY NodesApart
    <3>3. p <= p  BY <3>2
    <3>4. p * page_size \in Nat /\ (p + 1) * page_size = p * page_size + page_size
      BY <3>2, <3>3, PagesLong
    <3> QED  BY <2>7, <3>1, <3>2, <3>4
  <2>10. B * w \in Nat /\ z * w \in Nat /\ B * w <= z * w
    <3>1. B \in Nat /\ B <= z  BY <2>8, <2>9
    <3> QED  BY <2>9, <3>1, Times
  <2>11. BitmapBytes(p) = y .. y + M - 1
    BY <1>3, <2>2, <2>6, <2>7 DEF BitmapBytes
  <2>12. a.at \in Nat /\ a.room \in Nat  BY Extent
  <2>13. y + M <= a.at \/ a.at + a.room <= y
    <3>1. PICK q, n : q = PageOf(a) /\ Within(a, q, n)  BY Extent
    <3>2. CASE q = p
      <4>1. IsChunk(a, p, ChunkOf(a))  BY <1>1, <2>2, <3>1, <3>2, LiveAt DEF IsRun, Runs, Chunked
      <4>2. PICK c : c = ChunkOf(a)  OBVIOUS
      <4>3. /\ c \in Chunks(s) /\ c \notin Reserved(p) /\ a.at = Address(p, s, c)
        BY <1>1, <2>1, <4>1, <4>2, ChunkAt DEF IsChunk
      <4>4. c \in Nat /\ c \notin 0 .. B - 1
        <5>1. Reserved(p) = 0 .. B - 1  BY <2>1, <2>2, <2>5 DEF Reserved
        <5> QED  BY <2>3, <4>3, <5>1, ChunksFit
      <4>5. B <= c  BY <2>8, <4>4
      <4>6. c * w \in Nat /\ B * w <= c * w  BY <2>8, <2>9, <4>4, <4>5, Times
      <4>7. a.at = y + c * w  BY <2>7, <4>3 DEF Address
      <4> QED  BY <2>8, <2>9, <2>10, <4>6, <4>7
    <3>3. CASE q # p
      <4>1. Part(p, 1)  BY <2>2, OnePage
      <4>2. Part(q, n) /\ q * page_size <= a.at /\ a.at + a.room <= (q + n) * page_size
        BY <3>1 DEF Within
      <4>3. q \in Nat /\ n \in Nat /\ (q + n <= p \/ p + 1 <= q)
        BY <1>1, <3>3, <4>1, <4>2, PartsApart
      <4>4. CASE q + n <= p
        <5>1. q + n \in Nat  BY <4>3
        <5>2. PICK u : u = (q + n) * page_size  OBVIOUS
        <5>3. u \in Nat /\ u <= y  BY <2>7, <2>9, <4>4, <5>1, <5>2, PagesLong
        <5>4. a.at + a.room <= u  BY <4>2, <5>2
        <5> QED  BY <2>9, <2>12, <5>3, <5>4
      <4>5. CASE p + 1 <= q
        <5>1. p + 1 \in Nat  BY <2>9
        <5>2. PICK u : u = q * page_size  OBVIOUS
        <5>3. u \in Nat /\ (p + 1) * page_size <= u  BY <4>3, <4>5, <5>1, <5>2, PagesLong
        <5>4. y + z * w <= u  BY <2>9, <5>3
        <5>5. u <= a.at  BY <4>2, <5>2
        <5> QED  BY <2>8, <2>9, <2>10, <2>12, <5>3, <5>4, <5>5
      <4> QED  BY <4>3, <4>4, <4>5
    <3> QED  BY <3>2, <3>3
  <2>14. \A x \in Bytes(a) : x \in a.at .. a.at + a.room - 1  BY DEF Bytes
  <2>15. \A x : ~ (x \in a.at .. a.at + a.room - 1 /\ x \in y .. y + M - 1)
    <3>1. PICK i, j : i = a.at /\ j = a.room  OBVIOUS
    <3>2. i \in Nat /\ j \in Nat /\ (y + M <= i \/ i + j <= y)  BY <2>12, <2>13, <3>1
    <3>3. \A x : ~ (x \in i .. i + j - 1 /\ x \in y .. y + M - 1)  BY <2>8, <2>9, <3>2
    <3> QED  BY <3>1, <3>3
  <2> QED  BY <2>11, <2>14, <2>15
<1> QED  BY <1>2, <1>3

LEMMA DisjointFollows == ASSUME SlabAssumption, IInv PROVE AllocationsDisjoint
<1>1. ASSUME NEW a \in live PROVE a.size <= a.room /\ Bytes(a) \subseteq 0 .. N * page_size - 1
  <2>1. a.size <= a.room  BY DEF IInv, LiveInv
  <2>2. a.at \in Nat /\ a.room \in Nat  BY Extent
  <2>3. PICK p, n : Within(a, p, n)  BY Extent
  <2>4. p \in Nat /\ n \in Nat /\ p + n <= N /\ N \in Nat /\ p + n \in Nat
    <3>1. Part(p, n)  BY <2>3 DEF Within
    <3>2. p \in Nat /\ n \in Nat /\ p + n <= N /\ N \in Nat  BY <3>1, PartPages
    <3> QED  BY <3>2
  <2>5. PICK u, v : u = (p + n) * page_size /\ v = N * page_size  OBVIOUS
  <2>6. u \in Nat /\ v \in Nat /\ u <= v  BY <2>4, <2>5, PagesLong
  <2>7. a.at + a.room <= u  BY <2>3, <2>5 DEF Within
  <2>8. PICK i, j : i = a.at /\ j = a.room  OBVIOUS
  <2>9. i .. i + j - 1 \subseteq 0 .. v - 1  BY <2>2, <2>6, <2>7, <2>8
  <2> QED  BY <2>1, <2>5, <2>8, <2>9 DEF Bytes
<1>2. ASSUME NEW a \in live, NEW b \in live, a # b PROVE Bytes(a) \cap Bytes(b) = {}
  <2>1. a.at \in Nat /\ a.room \in Nat /\ b.at \in Nat /\ b.room \in Nat  BY Extent
  <2>2. a.at + a.room <= b.at \/ b.at + b.room <= a.at  BY <1>2, LiveApart
  <2>3. PICK i, j, k, l : i = a.at /\ j = a.room /\ k = b.at /\ l = b.room  OBVIOUS
  <2>4. \A x : ~ (x \in i .. i + j - 1 /\ x \in k .. k + l - 1)  BY <2>1, <2>2, <2>3
  <2> QED  BY <2>3, <2>4 DEF Bytes
<1> QED  BY <1>1, <1>2, BitmapApart DEF AllocationsDisjoint

LEMMA KnownFollows == ASSUME SlabAssumption, IInv PROVE KnownToFree
<1>1. entry \in Entries /\ RunInv /\ ChunkInv /\ LiveInv  BY DEF IInv
<1> SUFFICES ASSUME NEW a \in live, NEW p, p = a.at \div page_size
             PROVE  IF entry.prev[p].type = "page"
                    THEN entry.slab[p] = Slab(a.room \div page_size, "start", {})
                    ELSE LET shift == ShiftOf(entry, p) IN
                         /\ a.room = 2 ^ shift
                         /\ (a.at % page_size) \div 2 ^ shift \in Taken(entry, p)
  BY DEF KnownToFree
<1>2. p = PageOf(a)  BY DEF PageOf
<1>3. p \in Pages /\ (IsRun(a, p) \/ IsChunk(a, p, ChunkOf(a)))  BY <1>1, <1>2, LiveAt
<1>4. CASE IsRun(a, p)
  <2>1. PICK n : n = entry.slab[p].n  OBVIOUS
  <2>2. /\ p \in Runs /\ entry.slab[p].mark = "start" /\ a.room = n * page_size
        /\ entry.slab[p].map = {} /\ entry.prev[p].type = "page"
    BY <1>1, <1>4, <2>1 DEF IsRun, RunInv, Runs, Type
  <2>3. n \in Nat  BY <1>1, <1>3, <2>1, NumberOfPages
  <2>4. a.room \div page_size = n  BY <2>2, <2>3, PageAddress
  <2>5. entry.slab[p] = Slab(n, "start", {})
    <3>1. PICK v : v = entry.slab[p]  OBVIOUS
    <3>2. v \in SlabType  BY <1>1, <1>3, <3>1, EntryOf
    <3>3. v = [n |-> v.n, mark |-> v.mark, map |-> v.map]  BY <3>2 DEF SlabType
    <3> QED  BY <2>1, <2>2, <3>1, <3>3 DEF Slab
  <2> QED  BY <2>2, <2>4, <2>5
<1>5. CASE IsChunk(a, p, ChunkOf(a))
  <2>1. /\ entry.prev[p].type # "page" /\ a.room = 2 ^ ShiftOf(entry, p)
        /\ ChunkOf(a) \in Taken(entry, p)
    BY <1>5 DEF IsChunk, Chunked, Type
  <2>2. ChunkOf(a) = (a.at % page_size) \div 2 ^ ShiftOf(entry, p)  BY <1>2 DEF ChunkOf
  <2> QED  BY <2>1, <2>2
<1> QED  BY <1>3, <1>4, <1>5

LEMMA TypesFollow == ASSUME IInv PROVE TypeOK
BY DEF IInv, TypeOK, Entries, SlabType

LEMMA RoomFollows == ASSUME SlabAssumption, IInv PROVE SlotsHaveRoom
<1>1. ChunkInv /\ Lists(entry, Homed)  BY DEF IInv, ListInv
<1>2. ASSUME NEW p \in Pages, entry.prev[p].type # "page", NEW s, s = ShiftOf(entry, p)
      PROVE  Taken(entry, p) # Chunks(s) <=> \E i \in 0 .. N : InList(entry, Slot(s))[i] = p
  <2>1. p \in Chunked  BY <1>2 DEF Chunked, Type
  <2>2. s \in Shifts  BY <1>1, <1>2, <2>1 DEF ChunkInv
  <2>3. Slot(s) \in Heads /\ Slot(s) # NULL /\ p # Slot(s)  BY <2>2, SlotIs, NodesApart
  <2>4. Homed[p] = Slot(s) <=> Taken(entry, p) # Chunks(s)  BY <1>1, <1>2, <2>1, <2>3, HomeIs
  <2>5. /\ \A i \in 0 .. N : InList(entry, Slot(s))[i] # Slot(s) =>
              InList(entry, Slot(s))[i] \in Pages /\ Homed[InList(entry, Slot(s))[i]] = Slot(s)
        /\ \A q \in Pages : Homed[q] = Slot(s) => \E i \in 0 .. N : InList(entry, Slot(s))[i] = q
    BY <1>1, <2>3, ListReaches
  <2> QED  BY <2>3, <2>4, <2>5
<1> QED  BY <1>2, TypesFollow DEF SlotsHaveRoom

-----------------------------------------------------------------------------
(* No page is lost *)

(* The pages of some runs.                                                 *)
Covered(S) == {q \in Pages : \E p \in S : q \in p .. p + entry.slab[p].n - 1}

LEMMA PagesFinite ==
  ASSUME SlabAssumption
  PROVE  IsFiniteSet(Pages) /\ Cardinality(Pages) = N
<1>1. N \in Nat \ {0} /\ 0 \in Int /\ N - 1 \in Int  BY NodesApart
<1>2. IsFiniteSet(0 .. N - 1) /\ Cardinality(0 .. N - 1) = IF 0 > N - 1 THEN 0 ELSE (N - 1) - 0 + 1
  BY <1>1, FS_Interval
<1> QED  BY <1>1, <1>2 DEF Pages

LEMMA CountsPages ==
  ASSUME SlabAssumption, entry \in Entries, RunInv, NEW S \in SUBSET Runs, NEW p \in S
  PROVE  Cardinality(Covered(S)) = entry.slab[p].n + Cardinality(Covered(S \ {p}))
<1>1. PICK n : n = entry.slab[p].n  OBVIOUS
<1>2. Part(p, n)  BY <1>1, RunPages
<1>3. PICK R : R = p .. p + n - 1  OBVIOUS
<1>4. p \in Nat /\ n \in Nat \ {0} /\ R \subseteq Pages  BY <1>2, <1>3, PartPages
<1>5. Covered(S) = R \cup Covered(S \ {p})  BY <1>1, <1>3, <1>4 DEF Covered
<1>6. ASSUME NEW x \in R, x \in Covered(S \ {p}) PROVE FALSE
  <2>1. PICK q \in S \ {p} : x \in q .. q + entry.slab[q].n - 1  BY <1>6 DEF Covered
  <2>2. q \in Runs /\ q # p  OBVIOUS
  <2> QED  BY <1>2, <1>3, <1>6, <2>1, <2>2, PartApart
<1>7. R \cap Covered(S \ {p}) = {}  BY <1>6
<1>8. Covered(S \ {p}) \in SUBSET Pages  BY DEF Covered
<1>9. IsFiniteSet(R) /\ IsFiniteSet(Covered(S \ {p}))  BY <1>4, <1>8, PagesFinite, FS_Subset
<1>10. Cardinality(R) = n
  <2>1. p \in Int /\ p + n - 1 \in Int /\ ~(p > p + n - 1) /\ (p + n - 1) - p + 1 = n  BY <1>4
  <2>2. Cardinality(p .. p + n - 1) = IF p > p + n - 1 THEN 0 ELSE (p + n - 1) - p + 1
    BY <2>1, FS_Interval
  <2> QED  BY <1>3, <2>1, <2>2
<1> DEFINE c == Cardinality(Covered(S \ {p}))
<1>11. c \in Nat  BY <1>9, FS_CardinalityType
<1>12. Cardinality(R \cap Covered(S \ {p})) = 0  BY <1>7, FS_EmptySet
<1>13. Cardinality(R \cup Covered(S \ {p})) = n + c - 0  BY <1>9, <1>10, <1>12, FS_Union
<1>14. n + c - 0 = n + c
  <2> HIDE DEF c
  <2> QED  BY <1>4, <1>11
<1> QED  BY <1>1, <1>5, <1>13, <1>14

(* The sum over a set, by the sums over the smaller ones.                  *)
Sums(slab, S, g) ==
  g = [s \in SUBSET S |-> IF s = {} THEN 0
                          ELSE slab[CHOOSE x \in s : TRUE].n + g[s \ {CHOOSE x \in s : TRUE}]]

Total(slab, S) == MapThenSumSet(LAMBDA p : slab[p].n, S)

LEMMA SumIs ==
  ASSUME NEW S, NEW slab
  PROVE  Total(slab, S) = (CHOOSE g : Sums(slab, S, g))[S]
BY DEF Total, MapThenSumSet, MapThenFoldSet, Sums

(* The numbers of the runs of a set add up to the pages in them.           *)
LEMMA SumCounts ==
  ASSUME SlabAssumption,
         entry \in Entries, RunInv, NEW S \in SUBSET Runs, NEW slab, slab = entry.slab
  PROVE  Total(slab, S) = Cardinality(Covered(S))
<1> DEFINE some(s) == CHOOSE x \in s : TRUE
           count(s) == Cardinality(Covered(s))
<1>1. \A s \in SUBSET S : s # {} => some(s) \in s  OBVIOUS
<1>2. count({}) = 0
  <2>1. Covered({}) = {}  BY DEF Covered
  <2> QED  BY <2>1, FS_EmptySet
<1>3. \A s \in SUBSET S : s # {} => count(s) = slab[some(s)].n + count(s \ {some(s)})
  <2> TAKE s \in SUBSET S
  <2> HAVE s # {}
  <2>1. s \in SUBSET Runs /\ some(s) \in s  BY <1>1
  <2> HIDE DEF some
  <2> QED  BY <2>1, CountsPages
<1> HIDE DEF count
<1>4. \E g : Sums(slab, S, g)
  <2> DEFINE g == [s \in SUBSET S |-> count(s)]
  <2>1. \A s \in SUBSET S : g[s] = IF s = {} THEN 0 ELSE slab[some(s)].n + g[s \ {some(s)}]
    <3> TAKE s \in SUBSET S
    <3>1. CASE s = {}  BY <1>2, <3>1
    <3>2. CASE s # {}
      <4>1. s \ {some(s)} \in SUBSET S  OBVIOUS
      <4>2. g[s] = count(s) /\ g[s \ {some(s)}] = count(s \ {some(s)})  BY <4>1
      <4> HIDE DEF g, some
      <4> QED  BY <1>3, <3>2, <4>2
    <3> QED  BY <3>1, <3>2
  <2>2. g = [s \in SUBSET S |-> g[s]]  OBVIOUS
  <2> HIDE DEF g
  <2>3. g = [s \in SUBSET S |-> IF s = {} THEN 0 ELSE slab[some(s)].n + g[s \ {some(s)}]]
    <3> HIDE DEF some
    <3> QED  BY <2>1, <2>2
  <2> QED  BY <2>3 DEF Sums
<1>5. PICK g : g = (CHOOSE h : Sums(slab, S, h))  OBVIOUS
<1>6. Sums(slab, S, g)  BY <1>4, <1>5
<1>7. \A s \in SUBSET S : g[s] = IF s = {} THEN 0 ELSE slab[some(s)].n + g[s \ {some(s)}]
  BY <1>6 DEF Sums
<1> HIDE DEF some
<1>8. IsFiniteSet(S)
  <2>1. S \in SUBSET Pages  BY DEF Runs
  <2> QED  BY <2>1, PagesFinite, FS_Subset
<1> DEFINE T == {k \in Nat : \A s \in SUBSET S : Cardinality(s) = k => g[s] = count(s)}
<1>9. 0 \in T
  <2>1. ASSUME NEW s \in SUBSET S, Cardinality(s) = 0 PROVE g[s] = count(s)
    <3>1. s = {}  BY <1>8, <2>1, FS_Subset, FS_EmptySet
    <3> QED  BY <1>2, <1>7, <3>1
  <2> QED  BY <2>1
<1>10. ASSUME NEW k \in T PROVE k + 1 \in T
  <2>1. ASSUME NEW s \in SUBSET S, Cardinality(s) = k + 1 PROVE g[s] = count(s)
    <3>1. IsFiniteSet(s)  BY <1>8, FS_Subset
    <3>2. s # {}  BY <2>1, FS_EmptySet
    <3>3. some(s) \in s  BY <1>1, <3>2
    <3>4. PICK r : r = s \ {some(s)}  OBVIOUS
    <3>5. r \in SUBSET S  BY <3>4
    <3>6. Cardinality(s \ {some(s)}) = Cardinality(s) - 1  BY <3>1, <3>3, FS_RemoveElement
    <3>7. Cardinality(r) = k
      <4>1. k \in Nat /\ Cardinality(r) = (k + 1) - 1  BY <2>1, <3>4, <3>6
      <4> QED  BY <4>1
    <3>8. g[r] = count(r)  BY <3>5, <3>7
    <3>9. g[s] = slab[some(s)].n + g[r]  BY <1>7, <3>2, <3>4
    <3>10. count(s) = slab[some(s)].n + count(r)  BY <1>3, <3>2, <3>4
    <3> QED  BY <3>8, <3>9, <3>10
  <2>2. k + 1 \in Nat  OBVIOUS
  <2> QED  BY <2>1, <2>2
<1>11. T = Nat
  <2> HIDE DEF T
  <2>1. T \in SUBSET Nat  BY DEF T
  <2> QED  BY <1>9, <1>10, <2>1, Reaches
<1>12. g[S] = count(S)
  <2>1. Cardinality(S) \in Nat  BY <1>8, FS_CardinalityType
  <2>2. S \in SUBSET S  OBVIOUS
  <2> QED  BY <1>11, <2>1, <2>2
<1>13. Total(slab, S) = g[S]  BY <1>5, SumIs
<1> QED  BY <1>12, <1>13 DEF count

(* With nobody to have them, no chunk and no run is taken.                 *)
LEMMA LostFollows == ASSUME SlabAssumption, IInv PROVE NothingLost
<1> SUFFICES ASSUME live = {} PROVE Total(entry.slab, FreePages) = N
  BY DEF NothingLost, Total
<1>1. entry \in Entries /\ RunInv /\ ChunkInv /\ ListInv /\ LiveInv  BY DEF IInv
<1>2. \A p \in Pages : p \notin Chunked
  <2> SUFFICES ASSUME NEW p \in Pages, p \in Chunked PROVE FALSE
    OBVIOUS
  <2>1. Reserved(p) \subseteq Taken(entry, p) /\ Taken(entry, p) # Reserved(p)  BY <1>1 DEF ChunkInv
  <2>2. PICK c : c \in Taken(entry, p) \ Reserved(p)  BY <2>1
  <2>3. \E a \in live : IsChunk(a, p, c)  BY <1>1, <2>2 DEF LiveInv
  <2> QED  BY <2>3
<1>3. \A p \in Runs : entry.slab[p].mark = ""
  <2> TAKE p \in Runs
  <2>1. entry.slab[p].mark \in {"", "start"}  BY <1>1 DEF RunInv
  <2>2. entry.slab[p].mark = "start" => \E a \in live : IsRun(a, p)  BY <1>1 DEF LiveInv
  <2> QED  BY <2>1, <2>2
<1>4. FreePages = Runs
  <2>0. Free \in Heads /\ Free \notin Pages  BY NodesApart DEF Heads
  <2>1. PICK node : node = InList(entry, Free)  OBVIOUS
  <2>2. \A p \in Pages : (Homed[p] = Free <=> p \in Runs)  BY <1>1, <1>3, HomeIs
  <2>3. /\ \A i \in 0 .. N : node[i] # Free => node[i] \in Pages /\ Homed[node[i]] = Free
        /\ \A p \in Pages : Homed[p] = Free => \E i \in 0 .. N : node[i] = p
    BY <1>1, <2>0, <2>1, ListReaches DEF ListInv
  <2>4. FreePages = {node[i] : i \in 0 .. N} \ {Free}  BY <2>1 DEF FreePages
  <2>5. Runs \subseteq Pages  BY DEF Runs
  <2> QED  BY <2>0, <2>2, <2>3, <2>4, <2>5
<1>5. Covered(Runs) = Pages
  <2>1. ASSUME NEW q \in Pages PROVE q \in Covered(Runs)
    <3>1. q \in Pages \ Chunked  BY <1>2
    <3>2. \E p \in Runs : q \in p .. p + entry.slab[p].n - 1  BY <1>1, <3>1 DEF RunInv
    <3> QED  BY <3>2 DEF Covered
  <2>2. Covered(Runs) \subseteq Pages  BY DEF Covered
  <2> QED  BY <2>1, <2>2
<1>6. PICK slab : slab = entry.slab  OBVIOUS
<1>7. Total(slab, Runs) = Cardinality(Covered(Runs))
  <2>1. Runs \in SUBSET Runs  OBVIOUS
  <2> QED  BY <1>1, <1>6, <2>1, SumCounts
<1>8. Total(slab, Runs) = N  BY <1>5, <1>7, PagesFinite
<1> QED  BY <1>4, <1>6, <1>8

-----------------------------------------------------------------------------
(* The invariant holds of every behaviour.                                 *)
THEOREM Invariant == ASSUME SlabAssumption PROVE Spec => []IInv
<1>1. Init => IInv  BY InitInv
<1>2. IInv /\ [Next]_vars => IInv'  BY NextInv
<1> QED  BY <1>1, <1>2, PTL DEF Spec

(* What g_slab_alloc hands out is as large as was asked for, in the pool,  *)
(* and overlaps neither what others have nor the bitmap of its page.       *)
THEOREM HandedOutApart == ASSUME SlabAssumption PROVE Spec => []AllocationsDisjoint
<1>1. IInv => AllocationsDisjoint  BY DisjointFollows
<1> QED  BY <1>1, Invariant, PTL

(* g_slab_free recognises whatever has been handed out: the page has kept  *)
(* its type and shift, and the chunk is marked.                            *)
THEOREM FreeRecognises == ASSUME SlabAssumption PROVE Spec => []KnownToFree
<1>1. IInv => KnownToFree  BY KnownFollows
<1> QED  BY <1>1, Invariant, PTL

(* A page with a chunk to give is in the list in which g_slab_alloc looks  *)
(* for it, and no full page is.                                            *)
THEOREM SlotsFindRoom == ASSUME SlabAssumption PROVE Spec => []SlotsHaveRoom
<1>1. IInv => SlotsHaveRoom  BY RoomFollows
<1> QED  BY <1>1, Invariant, PTL

(* Once all has been given back the free runs have every page of the pool. *)
THEOREM AllPagesReturn == ASSUME SlabAssumption PROVE Spec => []NothingLost
<1>1. IInv => NothingLost  BY LostFollows
<1> QED  BY <1>1, Invariant, PTL
=============================================================================
